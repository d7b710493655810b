------------------------------ MODULE EditIntent ------------------------------
(***************************************************************************)
(* What editing a resume promises (app/agent/ops.py, apply.py): no         *)
(* operation creates anything.  Sections, the entries of a section and     *)
(* the bullets of an entry may be rearranged, a bullet may be reworded by  *)
(* a text approved for it, a bullet may be dropped, and what is published  *)
(* in the end is exactly that.                                             *)
(*                                                                         *)
(* The content is a set of lines.  A line stands in a section, an entry    *)
(* and at a bullet's number; the heading of a section or an entry is its   *)
(* line 0, and the bullets above the first entry stand in entry 0.  A line *)
(* remembers the text it had, has the text it is to show, and keeps its    *)
(* number when it is dropped: the lines below it move up in print.         *)
(***************************************************************************)
EXTENDS Naturals, FiniteSets, Sequences

CONSTANTS
  Texts,            \* texts a bullet may be given
  Approved(_, _)    \* Approved(old, new): the guards let `new` stand for `old`

VARIABLES
  content,     \* the lines, records [section, entry, number, was, now, gone]
  published    \* <<>>, then << the lines published >>
intentVars == <<content, published>>

IsBullet(l) == l.number > 0
Under(s, e) == {l \in content : l.section = s /\ l.entry = e /\ IsBullet(l)}
Sections    == {l.section : l \in content}
Entries(s)  == {l.entry : l \in {m \in content : m.section = s}} \ {0}
Numbers(s, e) == {l.number : l \in Under(s, e)}

Bijections(S) == {p \in [S -> S] : \A y \in S : \E x \in S : p[x] = y}

PermuteSections ==
  \E p \in Bijections(Sections) : content' = {[l EXCEPT !.section = p[@]] : l \in content}
PermuteEntries(s) ==
  \E p \in Bijections(Entries(s)) :
     content' = {IF l.section = s /\ l.entry > 0 THEN [l EXCEPT !.entry = p[@]] ELSE l : l \in content}
PermuteBullets(s, e) ==
  \E p \in Bijections(Numbers(s, e)) :
     content' = {IF l \in Under(s, e) THEN [l EXCEPT !.number = p[@]] ELSE l : l \in content}
Replace(l, m) == content' = (content \ {l}) \cup {m}
Reword ==
  \E l \in content, new \in Texts :
      IsBullet(l) /\ Approved(l.was, new) /\ Replace(l, [l EXCEPT !.now = new])
DropOne ==
  \E l \in content : IsBullet(l) /\ Replace(l, [l EXCEPT !.gone = TRUE])
Edit ==
  /\ published = <<>> /\ UNCHANGED published
  /\ \/ PermuteSections \/ Reword \/ DropOne
     \/ \E s \in Sections : PermuteEntries(s) \/ \E e \in Entries(s) \cup {0} : PermuteBullets(s, e)

\* What is left of the bullets of an entry is numbered again.
Published(l, left) ==
  LET above == {m \in left : /\ m.section = l.section /\ m.entry = l.entry
                             /\ IsBullet(m) /\ m.number <= l.number}
  IN  [at |-> <<l.section, l.entry, Cardinality(above)>>, text |-> l.now]
Publish ==
  /\ published = <<>>
  /\ LET left == {l \in content : ~l.gone}
     IN  published' = << {Published(l, left) : l \in left} >>
  /\ UNCHANGED content

Init == published = <<>> /\ \A l \in content : l.now = l.was /\ ~l.gone
Next == Edit \/ Publish
Spec == Init /\ [][Next]_intentVars
=============================================================================
