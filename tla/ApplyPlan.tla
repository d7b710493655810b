------------------------------ MODULE ApplyPlan ------------------------------
(***************************************************************************)
(* Applying an edit plan to a resume (app/agent/apply.py, ops.py,          *)
(* app/latex/editbuffer.py, escape.py, app/agent/guards.py).               *)
(*                                                                         *)
(* The edits of a plan are validated one by one, in plan order, and change *)
(* only what is pending: an order of the sections, an order of the entries *)
(* of a section, and for every group of bullets an order, the bullets      *)
(* dropped and the texts rewritten.  Emit turns what is pending into       *)
(* replacements of spans of the source and renders them.                   *)
(***************************************************************************)
EXTENDS LatexTree

CONSTANTS
  Documents,   \* records [source, profile]
  NewTexts,    \* texts the model may propose, as it writes them
  Claims,      \* words that name a technology, a figure or a scope of authority
  MaxEdits     \* edits in a plan

\* Documents are texts the parser does not give up on: their groups are closed
\* (scanner.py:110-112) and their spans upright (scanner.py:42-44).
ASSUME DocumentsAreRead ==
  \A d \in Documents : /\ d.source \in Seq(STRING)
                       /\ Closed(d.source, BuildMask(d.source))
                       /\ Upright(d.source, BuildMask(d.source), d.profile)
                       /\ d.profile.lists \in Seq(STRING) /\ d.profile.entryArgs \in Nat

\* What the model proposes is text, cut up as the source is.
ASSUME NewTextsAreTexts == NewTexts \subseteq Seq(STRING)

VARIABLES
  doc,           \* the source and the profile it is parsed with
  tree,          \* its parse tree
  group,         \* for the groups of bullets <<section, entry>>: what is pending
  sectionOrder,  \* the pending order of the sections, <<>> if none
  entryOrder,    \* the pending order of the entries of each section, <<>> if none
  applied,       \* the edits reported as applied
  rejected,      \* the edits reported as refused
  left,          \* edits of the plan not looked at yet
  out,           \* <<>>, then << the rendered source >>
  reread         \* the tree of the rendered source, for the properties only
vars == <<doc, tree, group, sectionOrder, entryOrder, applied, rejected, left, out, reread>>

src == doc.source

(* ------------------------- Escaping and the guards ------------------------ *)

\* escape_tex: what is special to LaTeX is escaped.  The braces of \textbackslash{} are
\* escaped after it has been put in.
Escaped(x) ==
  CASE x \in {"%", "{", "}", "&"} -> <<"esc">>
    [] x = "backslash" -> <<"\\textbackslash", "esc", "esc">>
    [] OTHER -> <<x>>
EscapeTex(text) == FlattenSeq([i \in DOMAIN text |-> Escaped(text[i])])

ContainsMarkup(text) == \E i \in DOMAIN text : text[i] \in Commands \cup {"$"}

\* check_rewrite: no claim the original does not make, no growth by more than a quarter,
\* no shrinking to less than half.
ClaimsOf(text) == ToSet(text) \cap Claims
CheckRewrite(original, rewritten) ==
  LET old == Max({Len(Plain(original)), 1})
      new == Len(Plain(rewritten))
  IN  /\ ClaimsOf(rewritten) \subseteq ClaimsOf(original)
      /\ 4 * new <= 5 * old
      /\ 2 * new >= old
      /\ new > 0

(* --------------------------------- Groups --------------------------------- *)

\* The bullets directly under a section (entry 0) or under one of its entries.
BulletsAt(t, k) == IF k[2] = 0 THEN t[k[1]].loose ELSE t[k[1]].entries[k[2]].bullets
Places(t) == UNION {{<<s, e>> : e \in 0..Len(t[s].entries)} : s \in DOMAIN t}

Identity(n) == [i \in 1..n |-> i]
CollectGroups(t) ==
  [k \in {p \in Places(t) : BulletsAt(t, p) # <<>>} |->
     [order |-> Identity(Len(BulletsAt(t, k))), dropped |-> {}, rewrites |-> <<>>]]

\* tree.all_bullets(): section by section, loose bullets before those of the entries.
Before(k, l) == k[1] < l[1] \/ (k[1] = l[1] /\ k[2] < l[2])
KnownIds(k) == Ids(BulletsAt(tree, k))
IndexOf(ids, id) == SelectInSeq(ids, LAMBDA x : x = id)

\* _group_of and bullet_by_id: the first group that has the bullet, if one has it.
GroupOf(id) ==
  LET owners == {k \in DOMAIN group : IndexOf(KnownIds(k), id) # 0}
  IN  {k \in owners : \A l \in owners \ {k} : Before(k, l)}

\* Mutant of IsPermutation: the number of ids is all that is compared.
IsOfLength(proposed, existing) == Len(proposed) = Len(existing)

\* _validate_permutation.
IsPermutation(proposed, existing) ==
  Len(proposed) = Len(existing) /\ ToSet(proposed) = ToSet(existing)
OrderOf(proposed, existing) == [i \in DOMAIN proposed |-> IndexOf(existing, proposed[i])]

Mutated(k) ==
  /\ k \in DOMAIN group
  /\ \/ group[k].rewrites # <<>>
     \/ group[k].dropped # {}
     \/ group[k].order # Identity(Len(BulletsAt(tree, k)))

(* ----------------------------- The edits of a plan ------------------------ *)

Bogus == <<"bogus">>
\* Orders the model may propose: the members rotated, reversed, or with two neighbours
\* exchanged; and an order that omits an id and one that repeats an id.
Orders(ids) ==
  IF ids = <<>> THEN {<<Bogus>>}
  ELSE { Append(Tail(ids), ids[1]), Reverse(ids), Tail(ids), [i \in DOMAIN ids |-> ids[1]] }
       \cup { [ids EXCEPT ![i] = ids[i + 1], ![i + 1] = ids[i]] : i \in 1..(Len(ids) - 1) }
BulletIds == {Bogus} \cup UNION {ToSet(KnownIds(k)) : k \in DOMAIN group}

NextEdit == out = <<>> /\ left > 0 /\ left' = left - 1 /\ UNCHANGED <<doc, tree, out, reread>>
Refuse(op, target) ==
  rejected' = rejected \cup {<<op, target>>} /\ UNCHANGED <<group, sectionOrder, entryOrder, applied>>
\* Mutant of Report: the account is started again with each edit.
ReportOnly(op, target) == applied' = {<<op, target>>} /\ UNCHANGED rejected
Report(op, target) == applied' = applied \cup {<<op, target>>} /\ UNCHANGED rejected

\* A reordering of sections is neither reported as applied nor as refused.
ReorderSections(order) ==
  /\ NextEdit
  /\ IF IsPermutation(order, Ids(tree))
     THEN /\ sectionOrder' = OrderOf(order, Ids(tree))
          /\ UNCHANGED <<group, entryOrder, applied, rejected>>
     ELSE Refuse("reorder_sections", "")

\* Nor is one of entries.
ReorderEntries(s, order) ==
  /\ NextEdit
  /\ IF IsPermutation(order, Ids(tree[s].entries))
     THEN /\ entryOrder' = [entryOrder EXCEPT ![s] = OrderOf(order, Ids(tree[s].entries))]
          /\ UNCHANGED <<group, sectionOrder, applied, rejected>>
     ELSE Refuse("reorder_entries", tree[s].id)
ReorderEntriesNowhere == NextEdit /\ Refuse("reorder_entries", Bogus)

ReorderBullets(k, order) ==
  /\ NextEdit
  /\ IF k \in DOMAIN group /\ IsPermutation(order, KnownIds(k))
     THEN /\ group' = [group EXCEPT ![k].order = OrderOf(order, KnownIds(k))]
          /\ Report("reorder_bullets", k)
          /\ UNCHANGED <<sectionOrder, entryOrder>>
     ELSE Refuse("reorder_bullets", k)

\* The text a group's bullet was parsed with.
Original(k, i) == Text(src, BulletsAt(tree, k)[i].inner)

\* Bullets with markup are not reworded, and the others only within the guards.
RewriteAllowed(k, i, text) ==
  ~ContainsMarkup(Original(k, i)) /\ CheckRewrite(Plain(Original(k, i)), text)

\* rewrites[i] = text.
Assigned(rewrites, i, text) ==
  [j \in DOMAIN rewrites \cup {i} |-> IF j = i THEN text ELSE rewrites[j]]

RewriteBullet(id, text) ==
  /\ NextEdit
  /\ \/ \E k \in GroupOf(id) :
          LET i == IndexOf(KnownIds(k), id) IN
          /\ RewriteAllowed(k, i, text)
          /\ group' = [group EXCEPT ![k].rewrites = Assigned(@, i, EscapeTex(text))]
          /\ Report("rewrite_bullet", id)
          /\ UNCHANGED <<sectionOrder, entryOrder>>
     \/ /\ ~ \E k \in GroupOf(id) : RewriteAllowed(k, IndexOf(KnownIds(k), id), text)
        /\ Refuse("rewrite_bullet", id)

DropBullet(id) ==
  /\ NextEdit
  /\ \/ \E k \in GroupOf(id) :
          /\ group' = [group EXCEPT ![k].dropped = @ \cup {IndexOf(KnownIds(k), id)}]
          /\ Report("drop_bullet", id)
          /\ UNCHANGED <<sectionOrder, entryOrder>>
     \/ GroupOf(id) = {} /\ Refuse("drop_bullet", id)

(* -------------------------------- Rendering ------------------------------- *)

\* Mutant of RenderGroup: the separators follow, and the members stay where they were.
RenderInPlace(spans, order, texts) ==
  FlattenSeq([n \in DOMAIN order |->
    (IF n = 1 THEN <<>> ELSE Text(src, <<spans[n - 1][2], spans[n][1]>>)) \o texts[n]])

\* _render_group: the texts of the members in a new order, the separators in place.
RenderGroup(spans, order, texts) ==
  FlattenSeq([n \in DOMAIN order |->
    (IF n = 1 THEN <<>> ELSE Text(src, <<spans[n - 1][2], spans[n][1]>>)) \o texts[order[n]]])

\* Mutant of Splice: the end of the region is off by one.
SpliceShort(text, base, region, new) ==
  SubSeq(text, 1, region[1] - base) \o new \o SubSeq(text, region[2] - base + 2, Len(text))

\* text[:a] + new + text[b:], for a region given in offsets of the source.
Splice(text, base, region, new) ==
  SubSeq(text, 1, region[1] - base) \o new \o SubSeq(text, region[2] - base + 1, Len(text))

Covering(spans) == <<spans[1][1], spans[Len(spans)][2]>>

\* What begins with a letter, right behind a command, is read as a part of the command.
RunsOn(before, new) ==
  before = <<"\\item">> /\ new # <<>> /\ new[1] \notin {"esc", "\\textbackslash"}
Joined(before, new) ==
  IF RunsOn(before, new) THEN <<"\\itemword">> \o Tail(new) ELSE before \o new
BulletText(k, i) ==
  LET b == BulletsAt(tree, k)[i] IN
  IF i \in DOMAIN group[k].rewrites
  THEN Joined(Text(src, <<b.outer[1], b.inner[1]>>), group[k].rewrites[i])
         \o Text(src, <<b.inner[2], b.outer[2]>>)
  ELSE Text(src, b.outer)
Kept(k) == LET g == group[k] IN Only(g.order, {n \in DOMAIN g.order : g.order[n] \notin g.dropped})
GroupText(k) == LET bullets == BulletsAt(tree, k) IN
  RenderGroup(Outers(bullets), Kept(k), [i \in DOMAIN bullets |-> BulletText(k, i)])
Region(k) == Covering(Outers(BulletsAt(tree, k)))

\* A text of the source that starts at `base`, with the pending changes of one group.
WithGroup(text, base, k) == IF Mutated(k) THEN Splice(text, base, Region(k), GroupText(k)) ELSE text

EntryText(s, e) == LET span == tree[s].entries[e].span IN
  WithGroup(Text(src, span), span[1], <<s, e>>)

\* Mutant of EntriesTouched: a change inside an entry does not count.
EntriesMoved(s) == entryOrder[s] # <<>>
EntriesTouched(s) == entryOrder[s] # <<>> \/ \E e \in DOMAIN tree[s].entries : Mutated(<<s, e>>)

\* Entries first, then the loose bullets, at the place they have in the source.
SectionText(s) ==
  LET span    == tree[s].span
      members == Spans(tree[s].entries)
      order   == IF entryOrder[s] = <<>> THEN Identity(Len(members)) ELSE entryOrder[s]
      rebuilt == RenderGroup(members, order, [e \in DOMAIN members |-> EntryText(s, e)])
      text    == IF members # <<>> /\ EntriesTouched(s)
                 THEN Splice(Text(src, span), span[1], Covering(members), rebuilt)
                 ELSE Text(src, span)
  IN  WithGroup(text, span[1], <<s, 0>>)

\* _emit: one replacement for all sections, or one for each section that is touched.
Replacements ==
  IF sectionOrder # <<>>
  THEN << [span |-> Covering(Spans(tree)),
           text |-> RenderGroup(Spans(tree), sectionOrder, [s \in DOMAIN tree |-> SectionText(s)])] >>
  ELSE LET touched == {s \in DOMAIN tree : EntriesTouched(s) \/ Mutated(<<s, 0>>)}
       IN  Each(LAMBDA s : [span |-> tree[s].span, text |-> SectionText(s)], Ascending(touched))

\* EditBuffer.replace drops what changes nothing, and raises on an overlap; render keeps
\* everything between the replacements.
Queued(edits) == Only(edits, {n \in DOMAIN edits : Text(src, edits[n].span) # edits[n].text})
ValueError == <<"ValueError">>
Collides(edits) == \E i, j \in DOMAIN edits : i # j /\ Overlaps(edits[i].span, edits[j].span)
Render(edits) ==
  IF edits = <<>> THEN src
  ELSE FlattenSeq([n \in DOMAIN edits |->
         Text(src, <<IF n = 1 THEN 1 ELSE edits[n - 1].span[2], edits[n].span[1]>>) \o edits[n].text])
       \o Text(src, <<edits[Len(edits)].span[2], Len(src) + 1>>)

Emit ==
  /\ out = <<>>
  /\ LET edits  == Queued(Replacements)
         source == IF Collides(edits) THEN ValueError ELSE Render(edits)
     IN  out' = <<source>> /\ reread' = ParseResume(source, doc.profile)
  /\ UNCHANGED <<doc, tree, group, sectionOrder, entryOrder, applied, rejected, left>>

(* ------------------------------ Specification ----------------------------- *)

Init ==
  /\ doc \in Documents
  /\ tree = ParseResume(doc.source, doc.profile)
  /\ group = CollectGroups(tree)
  /\ sectionOrder = <<>>
  /\ entryOrder = [s \in DOMAIN tree |-> <<>>]
  /\ applied = {} /\ rejected = {}
  /\ left = MaxEdits
  /\ out = <<>> /\ reread = <<>>

ApplyEdit ==
  \/ \E order \in Orders(Ids(tree)) : ReorderSections(order)
  \/ \E s \in DOMAIN tree : \E order \in Orders(Ids(tree[s].entries)) : ReorderEntries(s, order)
  \/ ReorderEntriesNowhere
  \/ \E k \in Places(tree) : \E order \in Orders(KnownIds(k)) : ReorderBullets(k, order)
  \/ \E id \in BulletIds, text \in NewTexts : RewriteBullet(id, text)
  \/ \E id \in BulletIds : DropBullet(id)

Next == ApplyEdit \/ Emit
Spec == Init /\ [][Next]_vars

(* ------------------------ What the plan was meant to do ------------------- *)

Now(k, i) == IF i \in DOMAIN group[k].rewrites THEN group[k].rewrites[i] ELSE Original(k, i)

\* The parts of a resume: part 0 of a place is its heading, the others are its bullets.
Parts(t) == UNION {{<<k[1], k[2], i>> : i \in 0..Len(BulletsAt(t, k))} : k \in Places(t)}
\* Where an order puts the i-th of its members.
PlaceIn(order, i) == IF order = <<>> \/ i = 0 THEN i ELSE CHOOSE n \in DOMAIN order : order[n] = i

\* The resume as the edits accepted so far want it: the lines of the source at their new
\* places.  Titles and labels are what the tree calls them.
Title(node) == node.id[1][3]
TitleAt(k) == Title(IF k[2] = 0 THEN tree[k[1]] ELSE tree[k[1]].entries[k[2]])
LineAt(k, number, was, now, gone) ==
  [section |-> PlaceIn(sectionOrder, k[1]), entry |-> PlaceIn(entryOrder[k[1]], k[2]),
   number |-> number, was |-> was, now |-> now, gone |-> gone]
PendingAt(k, i) ==
  IF i = 0 THEN LineAt(k, 0, TitleAt(k), TitleAt(k), FALSE)
  ELSE LineAt(k, PlaceIn(group[k].order, i), Original(k, i), Now(k, i), i \in group[k].dropped)
Pending == {PendingAt(<<x[1], x[2]>>, x[3]) : x \in Parts(tree)}

\* What a reader of the rendered source finds in it: the source is parsed again.
ReadBack ==
  LET Lines(s, e, name, bullets) ==
        {[at |-> <<s, e, 0>>, text |-> name]}
        \cup {[at |-> <<s, e, n>>, text |-> Text(out[1], bullets[n].inner)] : n \in DOMAIN bullets}
      Section(s, node) ==
        Lines(s, 0, Title(node), node.loose)
        \cup UNION {Lines(s, e, Title(node.entries[e]), node.entries[e].bullets) :
                      e \in DOMAIN node.entries}
  IN  UNION {Section(s, reread[s]) : s \in DOMAIN reread}

Admissible(old, new) ==
  \E text \in NewTexts : /\ new = EscapeTex(text)
                         /\ ~ContainsMarkup(old)
                         /\ CheckRewrite(Plain(old), text)

Intent == INSTANCE EditIntent WITH
            content   <- Pending,
            published <- IF out = <<>> THEN <<>> ELSE <<ReadBack>>,
            Texts     <- {EscapeTex(text) : text \in NewTexts},
            Approved  <- Admissible

(* ------------------------------- Properties ------------------------------- *)

\* Every edit is one the vocabulary allows, or changes nothing, and the rendered source,
\* read again, says exactly what the accepted edits asked for: no offset went stale on the
\* way from a bullet through its entry and its section to the file (apply.py, _emit).
ImplementsIntent == Intent!Spec

\* Spans are nested as the tree is, siblings do not meet, and loose bullets come before
\* the first entry: what splicing by offsets relies on (parser.py, apply.py:426).
SpansNested == Nested(tree, src)

\* Whatever orders a plan proposes, what is pending for a group is a permutation of all its
\* bullets (apply.py, _validate_permutation).
IsOrder(order, n) == DOMAIN order = 1..n /\ \A i \in 1..n : \E j \in 1..n : order[j] = i
OrdersComplete ==
  /\ \A k \in DOMAIN group : LET n == Len(BulletsAt(tree, k)) IN
        IsOrder(group[k].order, n) /\ group[k].dropped \subseteq 1..n
  /\ sectionOrder # <<>> => IsOrder(sectionOrder, Len(tree))
  /\ \A s \in DOMAIN tree : entryOrder[s] # <<>> => IsOrder(entryOrder[s], Len(tree[s].entries))

\* Nothing is lost, doubled or altered but in the bullets that were rewritten and in groups
\* that lost a bullet, reorderings included; and two replacements never collide.
Count(s, x) == Cardinality({i \in DOMAIN s : s[i] = x})
EveryLexemeAccounted ==
  out # <<>> =>
    LET places == SetToSeq(DOMAIN group)
        before == FlattenSeq([n \in DOMAIN places |-> Text(src, Region(places[n]))])
        after  == FlattenSeq([n \in DOMAIN places |-> GroupText(places[n])])
    IN  \A x \in ToSet(src) \cup ToSet(out[1]) :
           Count(out[1], x) + Count(before, x) = Count(src, x) + Count(after, x)

\* Without a reordering of sections or entries the nested folding comes to the same as
\* replacing the regions of the changed groups in the source, and everything else is
\* verbatim: a plan that changes nothing renders the source.
FlatRendering ==
  out # <<>> /\ sectionOrder = <<>> /\ (\A s \in DOMAIN tree : entryOrder[s] = <<>>) =>
    LET changed == InOrder({k \in DOMAIN group : Mutated(k)},
                           {p \in (DOMAIN group) \X (DOMAIN group) : Before(p[1], p[2])})
    IN  out[1] = Render([n \in DOMAIN changed |->
                           [span |-> Region(changed[n]), text |-> GroupText(changed[n])]])

\* TeX (external): every command is known, lists are closed, have items, and items stand in
\* lists.
ItemLike == {"\\item", "\\bullet"} \cup (IF doc.profile.entryIsItem THEN doc.profile.entries ELSE {})
LatexAccepts(s) ==
  LET mask == BuildMask(s)
      Opens(i)  == i \in mask /\ (s[i] = "\\start" \/ (s[i] = "\\begin" /\ s[i + 2] # "document"))
      Closes(i) == i \in mask /\ (s[i] = "\\stop" \/ (s[i] = "\\end" /\ s[i + 2] # "document"))
      depth[i \in 0..Len(s)] ==
        IF i = 0 THEN 0 ELSE IF Opens(i) THEN depth[i - 1] + 1
        ELSE IF Closes(i) THEN depth[i - 1] - 1 ELSE depth[i - 1]
      Item(i) == i \in mask /\ s[i] \in ItemLike
  IN  /\ \A i \in mask : s[i] # "\\itemword"
      /\ depth[Len(s)] = 0
      /\ \A i \in 1..Len(s) : depth[i] >= 0 /\ (Item(i) => depth[i] > 0)
      /\ \A i \in 1..Len(s) : Opens(i) =>
            \E j \in (i + 1)..Len(s) : Item(j) /\ \A k \in i..j : ~Closes(k)

\* Every bullet is the last of its line: a comment at its end hides nothing, wherever it goes.
BulletsEndTheirLines ==
  \A k \in DOMAIN group : \A i \in DOMAIN BulletsAt(tree, k) : src[BulletsAt(tree, k)[i].outer[2]] = "nl"

\* No bullet runs on from its \item: a blank or a brace of the command is in between.
BulletsStandOff ==
  \A k \in DOMAIN group : \A i \in DOMAIN BulletsAt(tree, k) :
     LET b == BulletsAt(tree, k)[i] IN Text(src, <<b.outer[1], b.inner[1]>>) # <<"\\item">>

\* A document TeX accepts, whose bullets stand off their commands and end their lines, is still one
\* after any plan that leaves the entries where they are and every list a bullet, and can be
\* parsed again (latex/parser.py:3-6: a parse miss can never corrupt a document).
StructureKept ==
  /\ out # <<>> /\ LatexAccepts(src) /\ BulletsEndTheirLines /\ BulletsStandOff
  /\ \A s \in DOMAIN tree : entryOrder[s] = <<>>
  /\ \A k \in DOMAIN group : Kept(k) # <<>>
  => /\ LatexAccepts(out[1])
     /\ Closed(out[1], BuildMask(out[1])) /\ Upright(out[1], BuildMask(out[1]), doc.profile)

\* The result's account: whatever is pending for a group of bullets is reported as applied,
\* and a text that stands for a bullet was admitted against that very bullet, whichever
\* edits named it before (apply.py:291-316).
ResultAccounted ==
  \A k \in DOMAIN group :
    /\ group[k].order # Identity(Len(BulletsAt(tree, k))) => <<"reorder_bullets", k>> \in applied
    /\ \A i \in DOMAIN group[k].rewrites :
          /\ <<"rewrite_bullet", KnownIds(k)[i]>> \in applied
          /\ Admissible(Original(k, i), group[k].rewrites[i])
    /\ \A i \in group[k].dropped : <<"drop_bullet", KnownIds(k)[i]>> \in applied

\* A parse miss can never corrupt a document (latex/parser.py:3-6): reordering a document
\* that TeX accepts gives one that TeX accepts.
ReorderCompiles ==
  out # <<>> /\ LatexAccepts(src) /\ (\A k \in DOMAIN group : group[k].dropped = {}) =>
    LatexAccepts(out[1])
=============================================================================
