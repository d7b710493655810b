--------------------------- MODULE ApplyPlanProofs ---------------------------
(***************************************************************************)
(* Proofs about ApplyPlan, for any documents, any plan and any vocabulary  *)
(* of claims: what a plan reports is what it does, no text replaces a      *)
(* bullet but one the guards admitted for that bullet, what is pending is  *)
(* always an order of all members of a group, and in tidy documents the    *)
(* spans that are spliced are nested as the tree is, what is rendered is   *)
(* the source with the changed groups replaced and no lexeme is lost.      *)
(***************************************************************************)
EXTENDS ApplyPlan, LatexTreeProofs

(* ------------------------------ The report -------------------------------- *)

\* What is pending for a group has three fields, whatever their values.
Shape == \A k \in DOMAIN group : DOMAIN group[k] = {"order", "dropped", "rewrites"}

\* The account of one group g at place k.
Accounted(g, k, reported) ==
  /\ g.order # Identity(Len(BulletsAt(tree, k))) => <<"reorder_bullets", k>> \in reported
  /\ \A i \in DOMAIN g.rewrites :
        /\ <<"rewrite_bullet", KnownIds(k)[i]>> \in reported
        /\ Admissible(Original(k, i), g.rewrites[i])
  /\ \A i \in g.dropped : <<"drop_bullet", KnownIds(k)[i]>> \in reported

Inv == Shape /\ \A k \in DOMAIN group : Accounted(group[k], k, applied)

\* Where a sequence has the element that was looked for.
LEMMA FoundAt ==
  ASSUME NEW ids, NEW id, IndexOf(ids, id) # 0
  PROVE  ids[IndexOf(ids, id)] = id
<1> DEFINE I == {i \in 1..Len(ids) : ids[i] = id}
<1>1. IndexOf(ids, id) = IF I # {} THEN Min(I) ELSE 0
  BY DEF IndexOf, SelectInSeq
<1>2. I # {} /\ IndexOf(ids, id) = Min(I)
  BY <1>1
<1>3. I \subseteq Nat
  OBVIOUS
<1>4. Min(I) \in I
  BY <1>2, <1>3, Smallest
<1> QED BY <1>2, <1>4

\* The group a bullet is looked up in is one that has it.
LEMMA OwnerHasIt ==
  ASSUME NEW id, NEW k \in GroupOf(id)
  PROVE  k \in DOMAIN group /\ KnownIds(k)[IndexOf(KnownIds(k), id)] = id
<1>1. k \in DOMAIN group /\ IndexOf(KnownIds(k), id) # 0
  BY DEF GroupOf
<1> QED BY <1>1, FoundAt

LEMMA InvInit == Init => Inv
<1> SUFFICES ASSUME Init PROVE Inv
  OBVIOUS
<1>1. ASSUME NEW k \in DOMAIN group
      PROVE  group[k] = [order |-> Identity(Len(BulletsAt(tree, k))), dropped |-> {}, rewrites |-> <<>>]
  BY <1>1 DEF Init, CollectGroups
<1>2. DOMAIN <<>> = {}
  OBVIOUS
<1> QED BY <1>1, <1>2 DEF Inv, Shape, Accounted

\* The document and its tree stay, and with them the ids and texts of the bullets.
LEMMA SameTexts ==
  ASSUME UNCHANGED <<doc, tree>>, NEW g, NEW k, NEW reported
  PROVE  Accounted(g, k, reported)' <=> Accounted(g, k, reported)
BY DEF Accounted, KnownIds, Original, BulletsAt, Text, src

\* Edits that touch the order of sections and entries, or nothing, leave the groups.
LEMMA GroupsStay ==
  ASSUME Inv, UNCHANGED <<doc, tree, group, applied>>
  PROVE  Inv'
<1>1. ASSUME NEW k \in DOMAIN group PROVE Accounted(group[k], k, applied)'
  <2>1. Accounted(group[k], k, applied)
    BY DEF Inv
  <2> QED BY <2>1, SameTexts
<1> QED BY <1>1 DEF Inv, Shape

\* One group changes; its account must be right, and what was reported stays reported.
LEMMA OneGroup ==
  ASSUME Inv, UNCHANGED <<doc, tree>>, NEW k \in DOMAIN group, NEW g,
         DOMAIN g = {"order", "dropped", "rewrites"},
         group' = [group EXCEPT ![k] = g], applied \subseteq applied',
         Accounted(g, k, applied')
  PROVE  Inv'
<1>1. DOMAIN group' = DOMAIN group /\ \A l \in DOMAIN group : group'[l] = IF l = k THEN g ELSE group[l]
  OBVIOUS
<1>2. Shape'
  BY <1>1 DEF Inv, Shape
<1>3. ASSUME NEW l \in DOMAIN group' PROVE Accounted(group'[l], l, applied')
  <2>1. CASE l = k
    BY <1>1, <2>1
  <2>2. CASE l # k
    <3>1. group'[l] = group[l] /\ Accounted(group[l], l, applied)
      BY <1>1, <2>2 DEF Inv
    <3> QED BY <3>1 DEF Accounted
  <2> QED BY <2>1, <2>2
<1>4. ASSUME NEW l \in DOMAIN group' PROVE Accounted(group[l], l, applied)'
  <2>1. Accounted(group'[l], l, applied')
    BY <1>3
  <2> QED BY <2>1 DEF Accounted, KnownIds, Original, BulletsAt, Text, src
<1> QED BY <1>2, <1>4 DEF Inv

LEMMA ReorderKeeps ==
  ASSUME Inv, NEW k, NEW order, ReorderBullets(k, order)
  PROVE  Inv'
<1>1. UNCHANGED <<doc, tree>>
  BY DEF ReorderBullets, NextEdit
<1>2. CASE k \in DOMAIN group /\ IsPermutation(order, KnownIds(k))
  <2> DEFINE new == OrderOf(order, KnownIds(k))
             g == [group[k] EXCEPT !.order = new]
  <2>1. group' = [group EXCEPT ![k] = g] /\ applied' = applied \cup {<<"reorder_bullets", k>>}
    BY <1>2 DEF ReorderBullets, Report
  <2>2. DOMAIN group[k] = {"order", "dropped", "rewrites"} /\ Accounted(group[k], k, applied)
    BY <1>2 DEF Inv, Shape
  <2> HIDE DEF new
  <2>3. /\ DOMAIN g = {"order", "dropped", "rewrites"}
        /\ g.dropped = group[k].dropped /\ g.rewrites = group[k].rewrites
    BY <2>2
  <2> HIDE DEF g
  <2>4. Accounted(g, k, applied')
    BY <2>1, <2>2, <2>3 DEF Accounted
  <2> QED BY <1>1, <1>2, <2>1, <2>3, <2>4, OneGroup
<1>3. CASE ~(k \in DOMAIN group /\ IsPermutation(order, KnownIds(k)))
  BY <1>1, <1>3, GroupsStay DEF ReorderBullets, Refuse
<1> QED BY <1>2, <1>3

LEMMA RewriteKeeps ==
  ASSUME Inv, NEW id, NEW text \in NewTexts, RewriteBullet(id, text)
  PROVE  Inv'
<1>1. UNCHANGED <<doc, tree>>
  BY DEF RewriteBullet, NextEdit
<1>2. ASSUME NEW k \in GroupOf(id), RewriteAllowed(k, IndexOf(KnownIds(k), id), text),
             group' = [group EXCEPT ![k].rewrites =
                         Assigned(@, IndexOf(KnownIds(k), id), EscapeTex(text))],
             Report("rewrite_bullet", id)
      PROVE  Inv'
  <2> DEFINE i == IndexOf(KnownIds(k), id)
             r == Assigned(group[k].rewrites, i, EscapeTex(text))
             g == [group[k] EXCEPT !.rewrites = r]
  <2>1. k \in DOMAIN group /\ KnownIds(k)[i] = id
    BY OwnerHasIt
  <2>2. group' = [group EXCEPT ![k] = g] /\ applied' = applied \cup {<<"rewrite_bullet", id>>}
    BY <1>2 DEF Report
  <2>3. DOMAIN group[k] = {"order", "dropped", "rewrites"} /\ Accounted(group[k], k, applied)
    BY <2>1 DEF Inv, Shape
  <2>4. Admissible(Original(k, i), EscapeTex(text))
    BY <1>2 DEF RewriteAllowed, Admissible
  <2>5. /\ DOMAIN r = DOMAIN group[k].rewrites \cup {i}
        /\ \A j \in DOMAIN r : r[j] = IF j = i THEN EscapeTex(text) ELSE group[k].rewrites[j]
    BY DEF Assigned
  <2> HIDE DEF i, r
  <2>6. /\ DOMAIN g = {"order", "dropped", "rewrites"} /\ g.rewrites = r
        /\ g.dropped = group[k].dropped /\ g.order = group[k].order
    BY <2>3
  <2> HIDE DEF g
  <2>7. Accounted(g, k, applied')
    <3>1. ASSUME NEW j \in DOMAIN g.rewrites
          PROVE  <<"rewrite_bullet", KnownIds(k)[j]>> \in applied' /\ Admissible(Original(k, j), g.rewrites[j])
      <4>1. CASE j = i
        BY <2>1, <2>2, <2>4, <2>5, <2>6, <4>1
      <4>2. CASE j # i
        BY <2>2, <2>3, <2>5, <2>6, <4>2 DEF Accounted
      <4> QED BY <4>1, <4>2
    <3>2. /\ g.order # Identity(Len(BulletsAt(tree, k))) => <<"reorder_bullets", k>> \in applied'
          /\ \A j \in g.dropped : <<"drop_bullet", KnownIds(k)[j]>> \in applied'
      BY <2>2, <2>3, <2>6 DEF Accounted
    <3> QED BY <3>1, <3>2 DEF Accounted
  <2> QED BY <1>1, <2>1, <2>2, <2>6, <2>7, OneGroup
<1>3. CASE Refuse("rewrite_bullet", id)
  BY <1>1, <1>3, GroupsStay DEF Refuse
<1> QED BY <1>2, <1>3 DEF RewriteBullet

LEMMA DropKeeps ==
  ASSUME Inv, NEW id, DropBullet(id)
  PROVE  Inv'
<1>1. UNCHANGED <<doc, tree>>
  BY DEF DropBullet, NextEdit
<1>2. ASSUME NEW k \in GroupOf(id),
             group' = [group EXCEPT ![k].dropped = @ \cup {IndexOf(KnownIds(k), id)}],
             Report("drop_bullet", id)
      PROVE  Inv'
  <2> DEFINE i == IndexOf(KnownIds(k), id)
             r == group[k].dropped \cup {i}
             g == [group[k] EXCEPT !.dropped = r]
  <2>1. k \in DOMAIN group /\ KnownIds(k)[i] = id
    BY OwnerHasIt
  <2>2. group' = [group EXCEPT ![k] = g] /\ applied' = applied \cup {<<"drop_bullet", id>>}
    BY <1>2 DEF Report
  <2>3. DOMAIN group[k] = {"order", "dropped", "rewrites"} /\ Accounted(group[k], k, applied)
    BY <2>1 DEF Inv, Shape
  <2>4. \A j \in r : j \in group[k].dropped \/ j = i
    OBVIOUS
  <2> HIDE DEF i, r
  <2>5. /\ DOMAIN g = {"order", "dropped", "rewrites"} /\ g.dropped = r
        /\ g.rewrites = group[k].rewrites /\ g.order = group[k].order
    BY <2>3
  <2> HIDE DEF g
  <2>6. Accounted(g, k, applied')
    BY <2>1, <2>2, <2>3, <2>4, <2>5 DEF Accounted
  <2> QED BY <1>1, <2>1, <2>2, <2>5, <2>6, OneGroup
<1>3. CASE Refuse("drop_bullet", id)
  BY <1>1, <1>3, GroupsStay DEF Refuse
<1> QED BY <1>2, <1>3 DEF DropBullet

LEMMA InvNext == Inv /\ [Next]_vars => Inv'
<1> SUFFICES ASSUME Inv, [Next]_vars PROVE Inv'
  OBVIOUS
<1>1. ASSUME NEW order, ReorderSections(order) PROVE Inv'
  BY <1>1, GroupsStay DEF ReorderSections, NextEdit, Refuse
<1>2. ASSUME NEW s, NEW order, ReorderEntries(s, order) PROVE Inv'
  BY <1>2, GroupsStay DEF ReorderEntries, NextEdit, Refuse
<1>3. CASE ReorderEntriesNowhere
  BY <1>3, GroupsStay DEF ReorderEntriesNowhere, NextEdit, Refuse
<1>4. CASE Emit
  BY <1>4, GroupsStay DEF Emit
<1>5. CASE UNCHANGED vars
  BY <1>5, GroupsStay DEF vars
<1>6. CASE ApplyEdit
  BY <1>1, <1>2, <1>3, <1>6, ReorderKeeps, RewriteKeeps, DropKeeps DEF ApplyEdit
<1> QED BY <1>4, <1>5, <1>6 DEF Next

\* Whatever a plan does to a group of bullets it reports, and a new text stands only where
\* the guards admitted it against the bullet it replaces.
THEOREM EditsAreAccountedFor == Spec => []ResultAccounted
<1>1. Inv => ResultAccounted
  BY DEF Inv, Accounted, ResultAccounted
<1> QED BY <1>1, InvInit, InvNext, PTL DEF Spec

(* ------------------------- The tree and its spans ------------------------- *)

\* What the assumption on the documents gives about one of them.
LEMMA DocumentIsRead ==
  ASSUME NEW d \in Documents
  PROVE  /\ Readable(d.source, BuildMask(d.source))
         /\ IsSeq(d.profile.lists) /\ d.profile.entryArgs \in Nat
<1>1. /\ d.source \in Seq(STRING) /\ Closed(d.source, BuildMask(d.source))
      /\ d.profile.lists \in Seq(STRING) /\ d.profile.entryArgs \in Nat
  BY DocumentsAreRead
<1>2. PICK text : text = d.source
  OBVIOUS
<1>3. Len(text) \in Nat /\ DOMAIN text = 1..Len(text)
  BY <1>1, <1>2
<1>4. BuildMask(text) \subseteq 1..Len(text)
  BY <1>3 DEF BuildMask
<1>5. Readable(text, BuildMask(text))
  BY <1>1, <1>2, <1>3, <1>4 DEF Readable, Closed
<1>6. IsSeq(d.profile.lists)
  <2>1. PICK lists \in Seq(STRING) : lists = d.profile.lists
    BY <1>1
  <2>2. Len(lists) \in Nat /\ DOMAIN lists = 1..Len(lists) /\ lists = [i \in DOMAIN lists |-> lists[i]]
    OBVIOUS
  <2> QED BY <2>1, <2>2 DEF IsSeq
<1> QED BY <1>1, <1>2, <1>5, <1>6

\* The tree is the one the document has, and no edit changes either.

Parsed == doc \in Documents /\ tree = ParseResume(doc.source, doc.profile)

LEMMA TreeStays == Spec => []Parsed
<1>1. Init => Parsed
  BY DEF Init, Parsed
<1>2. Parsed /\ [Next]_vars => Parsed'
  <2>1. [Next]_vars => UNCHANGED <<doc, tree>>
    BY DEF Next, vars, ApplyEdit, NextEdit, ReorderSections, ReorderEntries, ReorderEntriesNowhere,
           ReorderBullets, RewriteBullet, DropBullet, Emit
  <2> QED BY <2>1 DEF Parsed
<1> QED BY <1>1, <1>2, PTL DEF Spec

\* Every list of the tree can be told apart by its ids.
LEMMA ParsedIsListed == ASSUME Parsed PROVE TreeListed(tree)
<1>1. /\ Readable(doc.source, BuildMask(doc.source))
      /\ IsSeq(doc.profile.lists) /\ doc.profile.entryArgs \in Nat
  BY DocumentIsRead DEF Parsed
<1>2. tree = ParseMasked(doc.source, BuildMask(doc.source), doc.profile)
  BY DEF Parsed, ParseResume
<1> QED BY <1>1, <1>2, TreeIsListed

\* In documents that are tidy the spans that are spliced are nested as the tree is and do
\* not meet, whatever the edits: the offsets of one part are never those of another.
THEOREM SpansStayNested ==
  ASSUME \A d \in Documents : Tidy(d.source, BuildMask(d.source), d.profile)
  PROVE  Spec => []SpansNested
<1>1. Parsed => SpansNested
  <2>1. SUFFICES ASSUME Parsed PROVE SpansNested
    OBVIOUS
  <2>2. /\ Readable(doc.source, BuildMask(doc.source))
        /\ IsSeq(doc.profile.lists) /\ doc.profile.entryArgs \in Nat
    BY <2>1, DocumentIsRead DEF Parsed
  <2>3. tree = ParseMasked(doc.source, BuildMask(doc.source), doc.profile)
    BY <2>1 DEF Parsed, ParseResume
  <2>4. Tidy(doc.source, BuildMask(doc.source), doc.profile)
    BY <2>1 DEF Parsed
  <2>5. Nested(tree, doc.source)
    BY <2>2, <2>3, <2>4, TreeIsNested
  <2> QED BY <2>5 DEF SpansNested, src
<1> QED BY <1>1, TreeStays, PTL

(* ------------------------------- The orders ------------------------------- *)

\* What is looked for and is there is found.
LEMMA Found ==
  ASSUME NEW ids, IsSeq(ids), NEW j \in DOMAIN ids,
         \A i \in DOMAIN ids : ids[i] = ids[j] => i = j
  PROVE  IndexOf(ids, ids[j]) = j
<1> DEFINE I == {i \in 1..Len(ids) : ids[i] = ids[j]}
<1>1. IndexOf(ids, ids[j]) = IF I # {} THEN Min(I) ELSE 0
  BY DEF IndexOf, SelectInSeq
<1>2. j \in I /\ I \subseteq Nat /\ \A i \in I : i = j
  BY DEF IsSeq
<1> HIDE DEF I
<1>3. Min(I) \in I
  BY <1>2, Smallest
<1> QED BY <1>1, <1>2, <1>3

\* Where it is found is a place of the sequence.
LEMMA FoundWithin ==
  ASSUME NEW ids, NEW id, IndexOf(ids, id) # 0
  PROVE  IndexOf(ids, id) \in 1..Len(ids)
<1> DEFINE I == {i \in 1..Len(ids) : ids[i] = id}
<1>1. IndexOf(ids, id) = IF I # {} THEN Min(I) ELSE 0
  BY DEF IndexOf, SelectInSeq
<1>2. I # {} /\ IndexOf(ids, id) = Min(I) /\ I \subseteq Nat
  BY <1>1
<1>3. Min(I) \in I
  BY <1>2, Smallest
<1> QED BY <1>2, <1>3

\* An order that is checked against unique ids is an order of the members.
LEMMA OrderIsWhole ==
  ASSUME NEW nodes, Listed(nodes), NEW order, IsSeq(order), IsPermutation(order, Ids(nodes))
  PROVE  IsOrder(OrderOf(order, Ids(nodes)), Len(nodes))
<1>1. PICK ids : ids = Ids(nodes)
  OBVIOUS
<1>2. IsSeq(ids) /\ Len(ids) = Len(nodes) /\ \A i, j \in DOMAIN ids : ids[i] = ids[j] => i = j
  <2>1. IsSeq(nodes) /\ \A i, j \in DOMAIN nodes : nodes[i].id = nodes[j].id => i = j
    BY DEF Listed
  <2>2. DOMAIN ids = DOMAIN nodes
    BY <1>1, <2>1, IdsOf DEF IsSeq
  <2> QED BY <1>1, <2>1, <2>2, IdsOf
<1>3. Len(order) = Len(ids) /\ ToSet(order) = ToSet(ids)
  BY <1>1 DEF IsPermutation
<1>4. ASSUME NEW j \in 1..Len(ids)
      PROVE  \E i \in 1..Len(ids) : OrderOf(order, ids)[i] = j
  <2>1. j \in DOMAIN ids
    BY <1>2 DEF IsSeq
  <2>2. ids[j] \in ToSet(ids)
    BY <2>1 DEF ToSet
  <2>3. PICK i \in DOMAIN order : order[i] = ids[j]
    BY <1>3, <2>2 DEF ToSet
  <2>4. IndexOf(ids, ids[j]) = j
    BY <1>2, <2>1, Found
  <2>5. OrderOf(order, ids)[i] = j
    BY <2>3, <2>4 DEF OrderOf
  <2>6. i \in 1..Len(ids)
    BY <1>3 DEF IsSeq
  <2> QED BY <2>5, <2>6
<1>5. DOMAIN OrderOf(order, ids) = 1..Len(ids)
  BY <1>3 DEF OrderOf, IsSeq
<1> QED BY <1>1, <1>2, <1>4, <1>5 DEF IsOrder

\* Before any edit the order is the one of the source.
LEMMA Natural == ASSUME NEW n PROVE IsOrder(Identity(n), n)
BY DEF IsOrder, Identity

\* The orders a plan proposes are sequences.
LEMMA OrdersAreSequences ==
  ASSUME NEW ids, IsSeq(ids), NEW order \in Orders(ids)
  PROVE  IsSeq(order)
<1>1. PICK S : ids \in Seq(S)
  <2>1. ids \in Seq({ids[i] : i \in DOMAIN ids})
    BY DEF IsSeq
  <2> QED BY <2>1
<1>2. ASSUME NEW T, NEW s \in Seq(T) PROVE IsSeq(s)
  BY DEF IsSeq
<1>3. CASE ids = <<>>
  <2>1. order = <<Bogus>>
    BY <1>3 DEF Orders
  <2>2. <<Bogus>> \in Seq({Bogus})
    OBVIOUS
  <2> QED BY <1>2, <2>1, <2>2
<1>4. CASE ids # <<>>
  <2>1. Tail(ids) \in Seq(S) /\ ids[1] \in S /\ Append(Tail(ids), ids[1]) \in Seq(S)
    BY <1>1, <1>4
  <2>2. Reverse(ids) \in Seq(S)
    BY <1>1 DEF Reverse
  <2>3. [i \in DOMAIN ids |-> ids[1]] \in Seq(S)
    BY <1>1, <2>1
  <2>4. ASSUME NEW i \in 1..(Len(ids) - 1)
        PROVE  [ids EXCEPT ![i] = ids[i + 1], ![i + 1] = ids[i]] \in Seq(S)
    BY <1>1
  <2> QED BY <1>2, <1>4, <2>1, <2>2, <2>3, <2>4 DEF Orders
<1> QED BY <1>3, <1>4

\* A group holds a list of bullets, and an order and the bullets dropped from it.
LEMMA PlaceIsListed ==
  ASSUME Parsed, NEW k \in Places(tree)
  PROVE  Listed(BulletsAt(tree, k)) /\ Len(BulletsAt(tree, k)) \in Nat /\ k = <<k[1], k[2]>>
<1>1. TreeListed(tree)
  BY ParsedIsListed
<1>2. PICK s \in DOMAIN tree, e \in Nat : e <= Len(tree[s].entries) /\ k = <<s, e>>
  <2>1. PICK s \in DOMAIN tree : \E e \in 0..Len(tree[s].entries) : k = <<s, e>>
    BY DEF Places
  <2>2. PICK e \in 0..Len(tree[s].entries) : k = <<s, e>>
    BY <2>1
  <2>3. Len(tree[s].entries) \in Nat
    BY <1>1 DEF TreeListed, Listed, IsSeq
  <2> QED BY <2>2, <2>3
<1>3. Listed(BulletsAt(tree, k))
  <2>1. CASE e = 0
    BY <1>1, <1>2, <2>1 DEF BulletsAt, TreeListed
  <2>2. CASE e # 0
    <3>1. e \in DOMAIN tree[s].entries
      BY <1>1, <1>2, <2>2 DEF TreeListed, Listed, IsSeq
    <3> QED BY <1>1, <1>2, <2>2, <3>1 DEF BulletsAt, TreeListed
  <2> QED BY <2>1, <2>2
<1> QED BY <1>2, <1>3 DEF Listed, IsSeq

\* What OrdersComplete says of one group g at place k.
GroupOrdered(g, k) ==
  /\ IsOrder(g.order, Len(BulletsAt(tree, k)))
  /\ g.dropped \subseteq 1..Len(BulletsAt(tree, k))

GroupsOrdered == DOMAIN group \subseteq Places(tree) /\ \A k \in DOMAIN group : GroupOrdered(group[k], k)

SectionsOrdered == sectionOrder # <<>> => IsOrder(sectionOrder, Len(tree))

EntriesOrdered ==
  /\ DOMAIN entryOrder = DOMAIN tree
  /\ \A s \in DOMAIN tree : entryOrder[s] # <<>> => IsOrder(entryOrder[s], Len(tree[s].entries))

OrdersOk == Shape /\ GroupsOrdered /\ SectionsOrdered /\ EntriesOrdered

LEMMA OrdersInit == Init /\ Parsed => OrdersOk
<1> SUFFICES ASSUME Init, Parsed PROVE OrdersOk
  OBVIOUS
<1>1. group = CollectGroups(tree) /\ sectionOrder = <<>> /\ entryOrder = [s \in DOMAIN tree |-> <<>>]
  BY DEF Init
<1>2. ASSUME NEW k \in DOMAIN group
      PROVE  /\ k \in Places(tree)
             /\ group[k] = [order |-> Identity(Len(BulletsAt(tree, k))), dropped |-> {}, rewrites |-> <<>>]
  BY <1>1 DEF CollectGroups
<1>3. ASSUME NEW k \in DOMAIN group PROVE GroupOrdered(group[k], k)
  BY <1>2, Natural DEF GroupOrdered
<1>4. Shape
  BY <1>2 DEF Shape
<1>5. SectionsOrdered /\ EntriesOrdered
  BY <1>1 DEF SectionsOrdered, EntriesOrdered
<1> QED BY <1>2, <1>3, <1>4, <1>5 DEF OrdersOk, GroupsOrdered

\* A step that leaves the tree and the three orders.
LEMMA OrdersStay ==
  ASSUME OrdersOk, UNCHANGED <<tree, group, sectionOrder, entryOrder>>
  PROVE  OrdersOk'
BY DEF OrdersOk, Shape, GroupsOrdered, GroupOrdered, SectionsOrdered, EntriesOrdered, BulletsAt, Places

\* A step that changes one group only.
LEMMA OneGroupOrdered ==
  ASSUME OrdersOk, UNCHANGED <<tree, sectionOrder, entryOrder>>, NEW k \in DOMAIN group, NEW g,
         DOMAIN g = {"order", "dropped", "rewrites"},
         group' = [group EXCEPT ![k] = g], GroupOrdered(g, k)
  PROVE  OrdersOk'
<1>1. DOMAIN group' = DOMAIN group /\ \A l \in DOMAIN group : group'[l] = IF l = k THEN g ELSE group[l]
  OBVIOUS
<1>2. Shape'
  BY <1>1 DEF OrdersOk, Shape
<1>3. ASSUME NEW l \in DOMAIN group' PROVE GroupOrdered(group'[l], l)
  BY <1>1 DEF OrdersOk, GroupsOrdered
<1>4. GroupsOrdered'
  <2>1. ASSUME NEW l \in DOMAIN group' PROVE GroupOrdered(group[l], l)'
    <3>1. GroupOrdered(group'[l], l)
      BY <1>3
    <3> QED BY <3>1 DEF GroupOrdered, BulletsAt
  <2>2. (DOMAIN group \subseteq Places(tree))'
    BY <1>1 DEF OrdersOk, GroupsOrdered, Places
  <2> QED BY <2>1, <2>2 DEF GroupsOrdered
<1>5. SectionsOrdered' /\ EntriesOrdered'
  BY DEF OrdersOk, SectionsOrdered, EntriesOrdered
<1> QED BY <1>2, <1>4, <1>5 DEF OrdersOk

\* An accepted order of a list of nodes is an order of all of them.
LEMMA ProposedOrder ==
  ASSUME NEW nodes, Listed(nodes), NEW order \in Orders(Ids(nodes)), IsPermutation(order, Ids(nodes))
  PROVE  IsOrder(OrderOf(order, Ids(nodes)), Len(nodes))
<1>1. IsSeq(Ids(nodes))
  BY IdsOf DEF Listed
<1>2. IsSeq(order)
  BY <1>1, OrdersAreSequences
<1> QED BY <1>2, OrderIsWhole

LEMMA SectionsReordered ==
  ASSUME OrdersOk, Parsed, NEW order \in Orders(Ids(tree)), ReorderSections(order)
  PROVE  OrdersOk'
<1>1. UNCHANGED <<tree, group, entryOrder>>
  BY DEF ReorderSections, NextEdit, Refuse
<1>2. CASE IsPermutation(order, Ids(tree))
  <2>1. sectionOrder' = OrderOf(order, Ids(tree))
    BY <1>2 DEF ReorderSections
  <2>2. Listed(tree)
    BY ParsedIsListed DEF TreeListed
  <2>3. IsOrder(sectionOrder', Len(tree))
    BY <1>2, <2>1, <2>2, ProposedOrder
  <2>4. SectionsOrdered'
    BY <1>1, <2>3 DEF SectionsOrdered
  <2>5. Shape' /\ GroupsOrdered' /\ EntriesOrdered'
    BY <1>1 DEF OrdersOk, Shape, GroupsOrdered, GroupOrdered, EntriesOrdered, BulletsAt, Places
  <2> QED BY <2>4, <2>5 DEF OrdersOk
<1>3. CASE ~IsPermutation(order, Ids(tree))
  BY <1>1, <1>3, OrdersStay DEF ReorderSections, Refuse
<1> QED BY <1>2, <1>3

LEMMA EntriesReordered ==
  ASSUME OrdersOk, Parsed, NEW s \in DOMAIN tree, NEW order \in Orders(Ids(tree[s].entries)),
         ReorderEntries(s, order)
  PROVE  OrdersOk'
<1>1. UNCHANGED <<tree, group, sectionOrder>>
  BY DEF ReorderEntries, NextEdit, Refuse
<1>2. CASE IsPermutation(order, Ids(tree[s].entries))
  <2> DEFINE new == OrderOf(order, Ids(tree[s].entries))
  <2>1. entryOrder' = [entryOrder EXCEPT ![s] = new]
    BY <1>2 DEF ReorderEntries
  <2>2. IsOrder(new, Len(tree[s].entries))
    BY <1>2, ParsedIsListed, ProposedOrder DEF TreeListed
  <2> HIDE DEF new
  <2>3. EntriesOrdered'
    BY <1>1, <2>1, <2>2 DEF OrdersOk, EntriesOrdered
  <2>4. Shape' /\ GroupsOrdered' /\ SectionsOrdered'
    BY <1>1 DEF OrdersOk, Shape, GroupsOrdered, GroupOrdered, SectionsOrdered, BulletsAt, Places
  <2> QED BY <2>3, <2>4 DEF OrdersOk
<1>3. CASE ~IsPermutation(order, Ids(tree[s].entries))
  BY <1>1, <1>3, OrdersStay DEF ReorderEntries, Refuse
<1> QED BY <1>2, <1>3

LEMMA BulletsReordered ==
  ASSUME OrdersOk, Parsed, NEW k \in Places(tree), NEW order \in Orders(KnownIds(k)),
         ReorderBullets(k, order)
  PROVE  OrdersOk'
<1>1. UNCHANGED <<tree, sectionOrder, entryOrder>>
  BY DEF ReorderBullets, NextEdit, Refuse
<1>2. CASE k \in DOMAIN group /\ IsPermutation(order, KnownIds(k))
  <2> DEFINE new == OrderOf(order, KnownIds(k))
             g == [group[k] EXCEPT !.order = new]
  <2>1. group' = [group EXCEPT ![k] = g]
    BY <1>2 DEF ReorderBullets
  <2>2. DOMAIN group[k] = {"order", "dropped", "rewrites"} /\ GroupOrdered(group[k], k)
    BY <1>2 DEF OrdersOk, Shape, GroupsOrdered
  <2>3. IsOrder(new, Len(BulletsAt(tree, k)))
    BY <1>2, PlaceIsListed, ProposedOrder DEF KnownIds
  <2> HIDE DEF new
  <2>4. /\ DOMAIN g = {"order", "dropped", "rewrites"}
        /\ g.order = new /\ g.dropped = group[k].dropped
    BY <2>2
  <2> HIDE DEF g
  <2>5. GroupOrdered(g, k)
    BY <2>2, <2>3, <2>4 DEF GroupOrdered
  <2> QED BY <1>1, <1>2, <2>1, <2>4, <2>5, OneGroupOrdered
<1>3. CASE ~(k \in DOMAIN group /\ IsPermutation(order, KnownIds(k)))
  BY <1>1, <1>3, OrdersStay DEF ReorderBullets, Refuse
<1> QED BY <1>2, <1>3

LEMMA RewriteLeavesOrders ==
  ASSUME OrdersOk, NEW id, NEW text, RewriteBullet(id, text)
  PROVE  OrdersOk'
<1>1. UNCHANGED <<tree, sectionOrder, entryOrder>>
  BY DEF RewriteBullet, NextEdit, Refuse
<1>2. ASSUME NEW k \in GroupOf(id),
             group' = [group EXCEPT ![k].rewrites =
                         Assigned(@, IndexOf(KnownIds(k), id), EscapeTex(text))]
      PROVE  OrdersOk'
  <2> DEFINE r == Assigned(group[k].rewrites, IndexOf(KnownIds(k), id), EscapeTex(text))
             g == [group[k] EXCEPT !.rewrites = r]
  <2>1. k \in DOMAIN group
    BY DEF GroupOf
  <2>2. group' = [group EXCEPT ![k] = g]
    BY <1>2
  <2>3. DOMAIN group[k] = {"order", "dropped", "rewrites"} /\ GroupOrdered(group[k], k)
    BY <2>1 DEF OrdersOk, Shape, GroupsOrdered
  <2> HIDE DEF r
  <2>4. /\ DOMAIN g = {"order", "dropped", "rewrites"}
        /\ g.order = group[k].order /\ g.dropped = group[k].dropped
    BY <2>3
  <2> HIDE DEF g
  <2>5. GroupOrdered(g, k)
    BY <2>3, <2>4 DEF GroupOrdered
  <2> QED BY <1>1, <2>1, <2>2, <2>4, <2>5, OneGroupOrdered
<1>3. CASE Refuse("rewrite_bullet", id)
  BY <1>1, <1>3, OrdersStay DEF Refuse
<1> QED BY <1>2, <1>3 DEF RewriteBullet

LEMMA DroppedBulletIsThere ==
  ASSUME OrdersOk, Parsed, NEW id, DropBullet(id)
  PROVE  OrdersOk'
<1>1. UNCHANGED <<tree, sectionOrder, entryOrder>>
  BY DEF DropBullet, NextEdit, Refuse
<1>2. ASSUME NEW k \in GroupOf(id),
             group' = [group EXCEPT ![k].dropped = @ \cup {IndexOf(KnownIds(k), id)}]
      PROVE  OrdersOk'
  <2> DEFINE i == IndexOf(KnownIds(k), id)
             r == group[k].dropped \cup {i}
             g == [group[k] EXCEPT !.dropped = r]
  <2>1. k \in DOMAIN group /\ i # 0
    BY DEF GroupOf
  <2>2. group' = [group EXCEPT ![k] = g]
    BY <1>2
  <2>3. DOMAIN group[k] = {"order", "dropped", "rewrites"} /\ GroupOrdered(group[k], k)
    BY <2>1 DEF OrdersOk, Shape, GroupsOrdered
  <2>4. i \in 1..Len(BulletsAt(tree, k))
    <3>1. i \in 1..Len(KnownIds(k))
      BY <2>1, FoundWithin
    <3>2. Listed(BulletsAt(tree, k))
      BY <2>1, PlaceIsListed DEF OrdersOk, GroupsOrdered
    <3>3. Len(KnownIds(k)) = Len(BulletsAt(tree, k))
      BY <3>2, IdsOf DEF KnownIds, Listed
    <3> QED BY <3>1, <3>3
  <2> HIDE DEF i
  <2>5. r \subseteq 1..Len(BulletsAt(tree, k))
    BY <2>3, <2>4 DEF GroupOrdered
  <2> HIDE DEF r
  <2>6. /\ DOMAIN g = {"order", "dropped", "rewrites"}
        /\ g.order = group[k].order /\ g.dropped = r
    BY <2>3
  <2> HIDE DEF g
  <2>7. GroupOrdered(g, k)
    BY <2>3, <2>5, <2>6 DEF GroupOrdered
  <2> QED BY <1>1, <2>1, <2>2, <2>6, <2>7, OneGroupOrdered
<1>3. CASE Refuse("drop_bullet", id)
  BY <1>1, <1>3, OrdersStay DEF Refuse
<1> QED BY <1>2, <1>3 DEF DropBullet

LEMMA OrdersNext == OrdersOk /\ Parsed /\ [Next]_vars => OrdersOk'
<1> SUFFICES ASSUME OrdersOk, Parsed, [Next]_vars PROVE OrdersOk'
  OBVIOUS
<1>1. CASE ReorderEntriesNowhere
  BY <1>1, OrdersStay DEF ReorderEntriesNowhere, NextEdit, Refuse
<1>2. CASE Emit
  BY <1>2, OrdersStay DEF Emit
<1>3. CASE UNCHANGED vars
  BY <1>3, OrdersStay DEF vars
<1>4. CASE ApplyEdit
  BY <1>1, <1>4, SectionsReordered, EntriesReordered, BulletsReordered, RewriteLeavesOrders,
     DroppedBulletIsThere DEF ApplyEdit
<1> QED BY <1>2, <1>3, <1>4 DEF Next

\* Whatever orders a plan proposes, what is pending is an order of all members of the group,
\* the section or the document, and what is dropped is in the group: ids found twice in a
\* text are told apart, and an order that omits or repeats one is refused.
THEOREM OrdersStayComplete == Spec => []OrdersComplete
<1>1. OrdersOk => OrdersComplete
  BY DEF OrdersOk, GroupsOrdered, GroupOrdered, SectionsOrdered, EntriesOrdered, OrdersComplete
<1>2. Init => Parsed
  BY DEF Init, Parsed
<1> QED BY <1>1, <1>2, OrdersInit, OrdersNext, TreeStays, PTL DEF Spec

-----------------------------------------------------------------------------
(* The edits and EditIntent: every edit that is accepted is one step of it.  *)
(* A line of the intent is a part of the document at the place where its     *)
(* orders put it; the orders are one to one, so lines and parts are too.     *)

\* Who stands at a place of an order, as PlaceIn says where somebody stands.
StandsAt(order, m) == IF order = <<>> \/ m = 0 THEN m ELSE order[m]

\* Places and members of an order determine each other.
Bijective(order, n) ==
  /\ \A i \in 1..n : PlaceIn(order, i) \in 1..n /\ StandsAt(order, PlaceIn(order, i)) = i
  /\ \A m \in 1..n : StandsAt(order, m) \in 1..n /\ PlaceIn(order, StandsAt(order, m)) = m
  /\ PlaceIn(order, 0) = 0

\* An order, and the document's own, sends places and members to each other one to one
\* (an injection of a finite set into itself is onto).
LEMMA OrderIsBijective ==
  ASSUME NEW n \in Nat, NEW order, order # <<>> => IsOrder(order, n)
  PROVE  Bijective(order, n)
<1>1. CASE order = <<>>
  BY <1>1 DEF Bijective, PlaceIn, StandsAt
<1>2. CASE order # <<>>
  <2> DEFINE place == [i \in 1..n |-> PlaceIn(order, i)]
  <2>1. DOMAIN order = 1..n /\ \A i \in 1..n : \E j \in 1..n : order[j] = i
    BY <1>2 DEF IsOrder
  <2>2. ASSUME NEW i \in 1..n PROVE PlaceIn(order, i) \in 1..n /\ order[PlaceIn(order, i)] = i
    <3>1. PlaceIn(order, i) = CHOOSE j \in DOMAIN order : order[j] = i
      BY <1>2 DEF PlaceIn
    <3> QED BY <2>1, <3>1
  <2> HIDE DEF place
  <2>3. place \in [1..n -> 1..n] /\ \A i \in 1..n : place[i] = PlaceIn(order, i)
    BY <2>2 DEF place
  <2>4. place \in Injection(1..n, 1..n)
    BY <2>2, <2>3 DEF Injection, IsInjective
  <2>5. IsFiniteSet(1..n) /\ Cardinality(1..n) = Cardinality(1..n)
    <3>1. 1 \in Int /\ n \in Int
      OBVIOUS
    <3> QED BY <3>1, FS_Interval
  <2>6. place \in Surjection(1..n, 1..n)
    BY <2>4, <2>5, FS_Injection
  <2>7. \A m \in 1..n : \E i \in 1..n : PlaceIn(order, i) = m
    BY <2>3, <2>6 DEF Surjection
  <2>8. \A i \in 1..n : PlaceIn(order, i) # 0 /\ StandsAt(order, PlaceIn(order, i)) = i
    BY <1>2, <2>2 DEF StandsAt
  <2>9. PlaceIn(order, 0) = 0
    BY DEF PlaceIn
  <2> QED BY <2>2, <2>7, <2>8, <2>9 DEF Bijective
<1> QED BY <1>1, <1>2

\* What leads from one order to another, place by place.
Shift(old, new, n) == [m \in 1..n |-> PlaceIn(new, StandsAt(old, m))]

\* Replacing one order by another permutes the places.
LEMMA ShiftIsBijection ==
  ASSUME NEW n, NEW old, NEW new, Bijective(old, n), Bijective(new, n)
  PROVE  /\ Shift(old, new, n) \in Intent!Bijections(1..n)
         /\ \A i \in 1..n : Shift(old, new, n)[PlaceIn(old, i)] = PlaceIn(new, i)
<1> DEFINE p == Shift(old, new, n)
<1>1. p \in [1..n -> 1..n]
  BY DEF Shift, Bijective
<1>2. ASSUME NEW i \in 1..n PROVE p[PlaceIn(old, i)] = PlaceIn(new, i)
  BY DEF Shift, Bijective
<1>3. ASSUME NEW m \in 1..n PROVE \E x \in 1..n : p[x] = m
  <2>1. PICK i \in 1..n : PlaceIn(new, i) = m
    BY DEF Bijective
  <2>2. PlaceIn(old, i) \in 1..n
    BY DEF Bijective
  <2> QED BY <1>2, <2>1, <2>2
<1> HIDE DEF p
<1>4. p \in Intent!Bijections(1..n)
  BY <1>1, <1>3 DEF Intent!Bijections
<1> QED BY <1>2, <1>4 DEF p

\* Two members stand at one place only if they are one.
LEMMA PlacesDiffer ==
  ASSUME NEW n \in Nat, NEW order, Bijective(order, n), NEW i \in 0..n, NEW j \in 0..n,
         PlaceIn(order, i) = PlaceIn(order, j)
  PROVE  i = j
<1>1. CASE i = 0 /\ j = 0
  BY <1>1
<1>2. CASE i # 0 /\ j # 0
  <2>1. i \in 1..n /\ j \in 1..n
    BY <1>2
  <2> QED BY <2>1 DEF Bijective
<1>3. CASE i = 0 /\ j # 0
  <2>1. j \in 1..n
    BY <1>3
  <2>2. PlaceIn(order, j) \in 1..n /\ PlaceIn(order, i) = 0
    BY <1>3, <2>1 DEF Bijective
  <2>3. ~ (0 \in 1..n)
    OBVIOUS
  <2> QED BY <2>2, <2>3
<1>4. CASE i # 0 /\ j = 0
  <2>1. i \in 1..n
    BY <1>4
  <2>2. PlaceIn(order, i) \in 1..n /\ PlaceIn(order, j) = 0
    BY <1>4, <2>1 DEF Bijective
  <2>3. ~ (0 \in 1..n)
    OBVIOUS
  <2> QED BY <2>2, <2>3
<1> QED BY <1>1, <1>2, <1>3, <1>4

\* The fields of a line, whether it is a bullet or (i = 0) the heading of its place.
NumberAt(k, i) == IF i = 0 THEN 0 ELSE PlaceIn(group[k].order, i)
WasAt(k, i)    == IF i = 0 THEN TitleAt(k) ELSE Original(k, i)
NowAt(k, i)    == IF i = 0 THEN TitleAt(k) ELSE Now(k, i)
GoneAt(k, i)   == IF i = 0 THEN FALSE ELSE i \in group[k].dropped

\* The fields of the line pending for a bullet, or for the heading of its place.
LEMMA LineOf ==
  ASSUME NEW k, NEW i
  PROVE  PendingAt(k, i) = [section |-> PlaceIn(sectionOrder, k[1]), entry |-> PlaceIn(entryOrder[k[1]], k[2]),
                            number |-> NumberAt(k, i), was |-> WasAt(k, i), now |-> NowAt(k, i),
                            gone |-> GoneAt(k, i)]
<1>1. CASE i = 0
  BY <1>1 DEF PendingAt, LineAt, NumberAt, WasAt, NowAt, GoneAt
<1>2. CASE i # 0
  BY <1>2 DEF PendingAt, LineAt, NumberAt, WasAt, NowAt, GoneAt
<1> QED BY <1>1, <1>2

\* The same of the next state.
LEMMA NewLineOf ==
  ASSUME NEW k, NEW i
  PROVE  PendingAt(k, i)' =
           [section |-> PlaceIn(sectionOrder', k[1]), entry |-> PlaceIn(entryOrder'[k[1]], k[2]),
            number |-> NumberAt(k, i)', was |-> WasAt(k, i)', now |-> NowAt(k, i)', gone |-> GoneAt(k, i)']
<1>1. CASE i = 0
  BY <1>1 DEF PendingAt, LineAt, NumberAt, WasAt, NowAt, GoneAt
<1>2. CASE i # 0
  BY <1>2 DEF PendingAt, LineAt, NumberAt, WasAt, NowAt, GoneAt
<1> QED BY <1>1, <1>2

\* A place of the tree and the number of a part there.
IsPart(k, i) == k \in Places(tree) /\ i \in 0..Len(BulletsAt(tree, k))

\* The parts of the document are its headings and bullets, by place.
LEMMA PartsAre ==
  ASSUME Parsed
  PROVE  /\ \A k, i : IsPart(k, i) => <<k[1], k[2], i>> \in Parts(tree)
         /\ \A x \in Parts(tree) : IsPart(<<x[1], x[2]>>, x[3])
<1>1. ASSUME NEW x \in Parts(tree) PROVE IsPart(<<x[1], x[2]>>, x[3])
  <2>1. PICK k \in Places(tree) : x \in {<<k[1], k[2], i>> : i \in 0..Len(BulletsAt(tree, k))}
    BY DEF Parts
  <2>2. PICK i \in 0..Len(BulletsAt(tree, k)) : x = <<k[1], k[2], i>>
    BY <2>1
  <2>3. k = <<k[1], k[2]>>
    BY PlaceIsListed
  <2>4. <<x[1], x[2]>> = k /\ x[3] = i
    BY <2>2, <2>3
  <2> QED BY <2>4 DEF IsPart
<1>2. ASSUME NEW k, NEW i, IsPart(k, i) PROVE <<k[1], k[2], i>> \in Parts(tree)
  BY <1>2 DEF IsPart, Parts
<1> QED BY <1>1, <1>2

\* What is pending is one line for every part.
LEMMA PendingLines ==
  ASSUME Parsed
  PROVE  /\ \A k, i : IsPart(k, i) => PendingAt(k, i) \in Pending
         /\ \A l \in Pending : \E k, i : IsPart(k, i) /\ l = PendingAt(k, i)
<1>1. ASSUME NEW k, NEW i, IsPart(k, i) PROVE PendingAt(k, i) \in Pending
  <2>1. PICK x : x = <<k[1], k[2], i>>
    OBVIOUS
  <2>2. x \in Parts(tree)
    BY <1>1, <2>1, PartsAre
  <2>3. k = <<k[1], k[2]>>
    BY <1>1, PlaceIsListed DEF IsPart
  <2>4. <<x[1], x[2]>> = k /\ x[3] = i
    BY <2>1, <2>3
  <2>5. PendingAt(<<x[1], x[2]>>, x[3]) \in Pending
    BY <2>2 DEF Pending
  <2> QED BY <2>4, <2>5
<1>2. ASSUME NEW l \in Pending PROVE \E k, i : IsPart(k, i) /\ l = PendingAt(k, i)
  <2>1. PICK x \in Parts(tree) : l = PendingAt(<<x[1], x[2]>>, x[3])
    BY DEF Pending
  <2> QED BY <2>1, PartsAre
<1> QED BY <1>1, <1>2

\* The same of the next state, whose tree is the same.
LEMMA NewPendingLines ==
  ASSUME Parsed, UNCHANGED tree
  PROVE  /\ \A k, i : IsPart(k, i) => PendingAt(k, i)' \in Pending'
         /\ \A l \in Pending' : \E k, i : IsPart(k, i) /\ l = PendingAt(k, i)'
<1>1. ASSUME NEW k, NEW i, IsPart(k, i) PROVE PendingAt(k, i)' \in Pending'
  <2>1. PICK x : x = <<k[1], k[2], i>>
    OBVIOUS
  <2>2. x \in Parts(tree')
    BY <1>1, <2>1, PartsAre
  <2>3. k = <<k[1], k[2]>>
    BY <1>1, PlaceIsListed DEF IsPart
  <2>4. <<x[1], x[2]>> = k /\ x[3] = i
    BY <2>1, <2>3
  <2>5. PendingAt(<<x[1], x[2]>>, x[3])' \in Pending'
    BY <2>2 DEF Pending
  <2> QED BY <2>4, <2>5
<1>2. ASSUME NEW l \in Pending' PROVE \E k, i : IsPart(k, i) /\ l = PendingAt(k, i)'
  <2>1. PICK x \in Parts(tree') : l = PendingAt(<<x[1], x[2]>>, x[3])'
    BY DEF Pending
  <2>2. IsPart(<<x[1], x[2]>>, x[3])
    BY <2>1, PartsAre
  <2> QED BY <2>1, <2>2
<1> QED BY <1>1, <1>2

\* There is a group for every place with bullets, and none elsewhere.
Grouped == DOMAIN group = {k \in Places(tree) : BulletsAt(tree, k) # <<>>}

\* What the edits rely on.
Ready == OrdersOk /\ Parsed /\ Grouped

\* The numbers a place is made of, and how many bullets are there.
LEMMA PlaceBounds ==
  ASSUME Parsed, NEW k \in Places(tree)
  PROVE  /\ Len(tree) \in Nat /\ DOMAIN tree = 1..Len(tree) /\ k[1] \in DOMAIN tree
         /\ Len(tree[k[1]].entries) \in Nat /\ k[2] \in 0..Len(tree[k[1]].entries)
         /\ k = <<k[1], k[2]>> /\ Len(BulletsAt(tree, k)) \in Nat
<1>1. TreeListed(tree)
  BY ParsedIsListed
<1>2. PICK s \in DOMAIN tree : \E e \in 0..Len(tree[s].entries) : k = <<s, e>>
  BY DEF Places
<1>3. PICK e \in 0..Len(tree[s].entries) : k = <<s, e>>
  BY <1>2
<1>4. k[1] = s /\ k[2] = e
  BY <1>3
<1>5. Len(tree) \in Nat /\ DOMAIN tree = 1..Len(tree) /\ Len(tree[s].entries) \in Nat
  BY <1>1 DEF TreeListed, Listed, IsSeq
<1> QED BY <1>3, <1>4, <1>5, PlaceIsListed

\* Every section and every entry has its heading.
LEMMA HeadingIsPart ==
  ASSUME Parsed, NEW s \in DOMAIN tree, NEW e \in 0..Len(tree[s].entries)
  PROVE  <<s, e>> \in Places(tree) /\ IsPart(<<s, e>>, 0)
<1>1. <<s, e>> \in Places(tree)
  BY DEF Places
<1>2. Len(BulletsAt(tree, <<s, e>>)) \in Nat
  BY <1>1, PlaceIsListed
<1>3. PICK n \in Nat : n = Len(BulletsAt(tree, <<s, e>>))
  BY <1>2
<1>4. 0 \in 0..n
  BY <1>3
<1> QED BY <1>1, <1>3, <1>4 DEF IsPart

\* Every order in force sends places and members to each other.
LEMMA Ordered ==
  ASSUME Ready
  PROVE  /\ Bijective(sectionOrder, Len(tree))
         /\ \A s \in DOMAIN tree : Bijective(entryOrder[s], Len(tree[s].entries))
         /\ \A k \in DOMAIN group : Bijective(group[k].order, Len(BulletsAt(tree, k)))
<1>1. TreeListed(tree)
  BY ParsedIsListed DEF Ready
<1>2. Bijective(sectionOrder, Len(tree))
  <2>1. Len(tree) \in Nat
    BY <1>1 DEF TreeListed, Listed, IsSeq
  <2> QED BY <2>1, OrderIsBijective DEF Ready, OrdersOk, SectionsOrdered
<1>3. ASSUME NEW s \in DOMAIN tree PROVE Bijective(entryOrder[s], Len(tree[s].entries))
  <2>1. Len(tree[s].entries) \in Nat
    BY <1>1 DEF TreeListed, Listed, IsSeq
  <2> QED BY <2>1, OrderIsBijective DEF Ready, OrdersOk, EntriesOrdered
<1>4. ASSUME NEW k \in DOMAIN group PROVE Bijective(group[k].order, Len(BulletsAt(tree, k)))
  <2>1. k \in Places(tree) /\ IsOrder(group[k].order, Len(BulletsAt(tree, k)))
    BY DEF Ready, OrdersOk, GroupsOrdered, GroupOrdered
  <2>2. Len(BulletsAt(tree, k)) \in Nat
    BY <2>1, PlaceIsListed DEF Ready
  <2> QED BY <2>1, <2>2, OrderIsBijective
<1> QED BY <1>2, <1>3, <1>4

\* Where there is a bullet there is a group.
LEMMA BulletHasGroup ==
  ASSUME Ready, NEW k, NEW i, IsPart(k, i), i # 0
  PROVE  k \in DOMAIN group /\ i \in 1..Len(BulletsAt(tree, k))
<1>1. k \in Places(tree) /\ i \in 0..Len(BulletsAt(tree, k)) /\ Len(BulletsAt(tree, k)) \in Nat
  BY PlaceBounds DEF IsPart, Ready
<1>2. PICK n \in Nat : n = Len(BulletsAt(tree, k))
  BY <1>1
<1>3. i \in 1..n
  BY <1>1, <1>2
<1>4. BulletsAt(tree, k) # <<>>
  <2>1. Len(<<>>) = 0
    OBVIOUS
  <2> QED BY <1>2, <1>3, <2>1
<1> QED BY <1>1, <1>2, <1>3, <1>4 DEF Ready, Grouped

\* Sections at one place are one section.
LEMMA SameSection ==
  ASSUME Ready, NEW s \in DOMAIN tree, NEW t \in DOMAIN tree,
         PlaceIn(sectionOrder, s) = PlaceIn(sectionOrder, t)
  PROVE  s = t
<1>1. Bijective(sectionOrder, Len(tree)) /\ DOMAIN tree = 1..Len(tree)
  BY Ordered, ParsedIsListed DEF Ready, TreeListed, Listed, IsSeq
<1> QED BY <1>1 DEF Bijective

\* Entries at one place of one section are one entry.
LEMMA SameEntry ==
  ASSUME Ready, NEW k \in Places(tree), NEW l \in Places(tree),
         PlaceIn(sectionOrder, k[1]) = PlaceIn(sectionOrder, l[1]),
         PlaceIn(entryOrder[k[1]], k[2]) = PlaceIn(entryOrder[l[1]], l[2])
  PROVE  k = l
<1>1. k[1] = l[1]
  BY PlaceBounds, SameSection DEF Ready
<1>2. PICK n \in Nat : n = Len(tree[k[1]].entries)
  BY PlaceBounds DEF Ready
<1>3. k[2] \in 0..n /\ l[2] \in 0..n /\ k = <<k[1], k[2]>> /\ l = <<l[1], l[2]>>
  BY <1>1, <1>2, PlaceBounds DEF Ready
<1>4. Bijective(entryOrder[k[1]], n)
  BY <1>2, PlaceBounds, Ordered DEF Ready
<1>5. k[2] = l[2]
  BY <1>1, <1>3, <1>4, PlacesDiffer
<1> QED BY <1>1, <1>3, <1>5

\* Two parts are pending at the same place only if they are one.
LEMMA SamePart ==
  ASSUME Ready, NEW k, NEW i, IsPart(k, i), NEW l, NEW j, IsPart(l, j),
         PlaceIn(sectionOrder, k[1]) = PlaceIn(sectionOrder, l[1]),
         PlaceIn(entryOrder[k[1]], k[2]) = PlaceIn(entryOrder[l[1]], l[2]),
         NumberAt(k, i) = NumberAt(l, j)
  PROVE  k = l /\ i = j
<1>1. k = l
  BY SameEntry DEF IsPart
<1>2. PICK n \in Nat : n = Len(BulletsAt(tree, k))
  BY PlaceBounds DEF IsPart, Ready
<1>3. i \in 0..n /\ j \in 0..n
  BY <1>1, <1>2 DEF IsPart
<1>4. CASE i = 0 /\ j = 0
  BY <1>1, <1>4
<1>5. CASE i # 0 \/ j # 0
  <2>1. k \in DOMAIN group
    BY <1>1, <1>5, BulletHasGroup
  <2>2. Bijective(group[k].order, n)
    BY <1>2, <2>1, Ordered
  <2>3. ASSUME NEW m PROVE NumberAt(k, m) = PlaceIn(group[k].order, m)
    BY <2>2 DEF NumberAt, Bijective
  <2>4. PlaceIn(group[k].order, i) = PlaceIn(group[k].order, j)
    BY <1>1, <2>3
  <2>5. i = j
    BY <1>3, <2>2, <2>4, PlacesDiffer
  <2> QED BY <1>1, <2>5
<1> QED BY <1>4, <1>5

\* The abstract content has the sections, entries and bullets of the tree.
LEMMA IntentSections == ASSUME Ready PROVE Intent!Sections = 1..Len(tree)
<1>1. Bijective(sectionOrder, Len(tree)) /\ DOMAIN tree = 1..Len(tree)
  BY Ordered, ParsedIsListed DEF Ready, TreeListed, Listed, IsSeq
<1>2. ASSUME NEW l \in Pending PROVE l.section \in 1..Len(tree)
  <2>1. PICK k, i : IsPart(k, i) /\ l = PendingAt(k, i)
    BY PendingLines DEF Ready
  <2>2. l.section = PlaceIn(sectionOrder, k[1])
    BY <2>1, LineOf
  <2>3. k[1] \in 1..Len(tree)
    BY <1>1, <2>1, PlaceBounds DEF IsPart, Ready
  <2> QED BY <1>1, <2>2, <2>3 DEF Bijective
<1>3. ASSUME NEW m \in 1..Len(tree) PROVE \E l \in Pending : l.section = m
  <2>1. PICK s \in DOMAIN tree : PlaceIn(sectionOrder, s) = m
    BY <1>1 DEF Bijective
  <2>2. PICK n \in Nat : n = Len(tree[s].entries)
    BY <2>1, ParsedIsListed DEF Ready, TreeListed, Listed, IsSeq
  <2>3. 0 \in 0..Len(tree[s].entries)
    BY <2>2
  <2>4. IsPart(<<s, 0>>, 0)
    BY <2>3, HeadingIsPart DEF Ready
  <2>5. PendingAt(<<s, 0>>, 0) \in Pending
    BY <2>4, PendingLines DEF Ready
  <2>6. PendingAt(<<s, 0>>, 0).section = m
    BY <2>1, LineOf
  <2> QED BY <2>5, <2>6
<1> QED BY <1>2, <1>3 DEF Intent!Sections

\* So are the entries of each of its sections.
LEMMA IntentEntries ==
  ASSUME Ready, NEW s \in DOMAIN tree
  PROVE  Intent!Entries(PlaceIn(sectionOrder, s)) = 1..Len(tree[s].entries)
<1>1. PICK n \in Nat : n = Len(tree[s].entries)
  BY ParsedIsListed DEF Ready, TreeListed, Listed, IsSeq
<1>2. Bijective(entryOrder[s], n)
  BY <1>1, Ordered
<1>3. ASSUME NEW l \in Pending, l.section = PlaceIn(sectionOrder, s), l.entry # 0
      PROVE  l.entry \in 1..n
  <2>1. PICK k, i : IsPart(k, i) /\ l = PendingAt(k, i)
    BY PendingLines DEF Ready
  <2>2. l.section = PlaceIn(sectionOrder, k[1]) /\ l.entry = PlaceIn(entryOrder[k[1]], k[2])
    BY <2>1, LineOf
  <2>3. k[1] = s
    BY <1>3, <2>1, <2>2, PlaceBounds, SameSection DEF IsPart, Ready
  <2>4. k[2] \in 0..n
    BY <1>1, <2>1, <2>3, PlaceBounds DEF IsPart, Ready
  <2>5. k[2] # 0
    BY <1>2, <1>3, <2>2, <2>3 DEF Bijective
  <2>6. k[2] \in 1..n
    BY <2>4, <2>5
  <2> QED BY <1>2, <2>2, <2>3, <2>6 DEF Bijective
<1>4. ASSUME NEW m \in 1..n
      PROVE  m # 0 /\ \E l \in Pending : l.section = PlaceIn(sectionOrder, s) /\ l.entry = m
  <2>1. PICK e \in 1..n : PlaceIn(entryOrder[s], e) = m
    BY <1>2 DEF Bijective
  <2>2. e \in 0..Len(tree[s].entries)
    BY <1>1
  <2>3. IsPart(<<s, e>>, 0)
    BY <2>2, HeadingIsPart DEF Ready
  <2>4. PendingAt(<<s, e>>, 0) \in Pending
    BY <2>3, PendingLines DEF Ready
  <2>5. PendingAt(<<s, e>>, 0).section = PlaceIn(sectionOrder, s) /\ PendingAt(<<s, e>>, 0).entry = m
    BY <2>1, LineOf
  <2>6. m # 0
    OBVIOUS
  <2> QED BY <2>4, <2>5, <2>6
<1> QED BY <1>1, <1>3, <1>4 DEF Intent!Entries

\* The bullets of a group are the lines under its place.
LEMMA IntentUnder ==
  ASSUME Ready, NEW k \in DOMAIN group, NEW s, s = PlaceIn(sectionOrder, k[1]),
         NEW e, e = PlaceIn(entryOrder[k[1]], k[2])
  PROVE  /\ \A l, i : IsPart(l, i) => (PendingAt(l, i) \in Intent!Under(s, e) <=> l = k /\ i # 0)
         /\ Intent!Numbers(s, e) = 1..Len(BulletsAt(tree, k))
         /\ s \in Intent!Sections /\ e \in Intent!Entries(s) \cup {0}
<1>0. k \in Places(tree)
  BY DEF Ready, Grouped
<1>1. PICK n \in Nat : n = Len(BulletsAt(tree, k))
  BY <1>0, PlaceBounds DEF Ready
<1>2. Bijective(group[k].order, n)
  BY <1>1, Ordered
<1>3. ASSUME NEW l, NEW i, IsPart(l, i)
      PROVE  PendingAt(l, i) \in Intent!Under(s, e) <=> l = k /\ i # 0
  <2>1. PICK p : p = PendingAt(l, i)
    OBVIOUS
  <2>2. /\ p \in Pending /\ p.section = PlaceIn(sectionOrder, l[1])
        /\ p.entry = PlaceIn(entryOrder[l[1]], l[2]) /\ p.number = NumberAt(l, i)
    BY <1>3, <2>1, LineOf, PendingLines DEF Ready
  <2>3. p \in Intent!Under(s, e) <=> p.section = s /\ p.entry = e /\ p.number > 0
    BY <2>2 DEF Intent!Under, Intent!IsBullet
  <2>4. l \in Places(tree)
    BY <1>3 DEF IsPart
  <2>5. p.section = s /\ p.entry = e <=> l = k
    BY <1>0, <2>2, <2>4, SameEntry
  <2>6. ASSUME l = k PROVE p.number > 0 <=> i # 0
    <3>1. CASE i = 0
      BY <2>2, <3>1 DEF NumberAt
    <3>2. CASE i # 0
      <4>1. i \in 1..n
        BY <1>1, <1>3, <2>6, <3>2, BulletHasGroup
      <4>2. p.number \in 1..n
        BY <1>2, <2>2, <2>6, <3>2, <4>1 DEF NumberAt, Bijective
      <4> QED BY <3>2, <4>2
    <3> QED BY <3>1, <3>2
  <2> QED BY <2>1, <2>3, <2>5, <2>6
<1>4. ASSUME NEW p \in Intent!Under(s, e) PROVE p.number \in 1..n
  <2>1. p \in Pending
    BY DEF Intent!Under
  <2>2. PICK l, i : IsPart(l, i) /\ p = PendingAt(l, i)
    BY <2>1, PendingLines DEF Ready
  <2>3. l = k /\ i # 0
    BY <1>3, <2>2
  <2>4. i \in 1..n
    BY <1>1, <2>2, <2>3, BulletHasGroup
  <2>5. p.number = PlaceIn(group[k].order, i)
    BY <2>2, <2>3, LineOf DEF NumberAt
  <2> QED BY <1>2, <2>4, <2>5 DEF Bijective
<1>5. ASSUME NEW m \in 1..n PROVE \E p \in Intent!Under(s, e) : p.number = m
  <2>1. PICK i \in 1..n : PlaceIn(group[k].order, i) = m
    BY <1>2 DEF Bijective
  <2>2. i # 0 /\ i \in 0..n
    OBVIOUS
  <2>3. IsPart(k, i)
    BY <1>0, <1>1, <2>2 DEF IsPart
  <2>4. PendingAt(k, i) \in Intent!Under(s, e)
    BY <1>3, <2>2, <2>3
  <2>5. PendingAt(k, i).number = m
    BY <2>1, <2>2, LineOf DEF NumberAt
  <2> QED BY <2>4, <2>5
<1>6. s \in Intent!Sections /\ e \in Intent!Entries(s) \cup {0}
  <2>1. k[1] \in DOMAIN tree /\ DOMAIN tree = 1..Len(tree)
    BY <1>0, PlaceBounds DEF Ready
  <2>2. PICK m \in Nat : m = Len(tree[k[1]].entries)
    BY <1>0, PlaceBounds DEF Ready
  <2>3. k[2] \in 0..m /\ Bijective(entryOrder[k[1]], m)
    BY <1>0, <2>1, <2>2, PlaceBounds, Ordered DEF Ready
  <2>4. e \in 0..m
    <3>1. CASE k[2] = 0
      BY <2>3, <3>1 DEF Bijective
    <3>2. CASE k[2] # 0
      <4>1. k[2] \in 1..m
        BY <2>3, <3>2
      <4> QED BY <2>3, <4>1 DEF Bijective
    <3> QED BY <3>1, <3>2
  <2>5. Intent!Entries(s) = 1..m
    BY <2>1, <2>2, IntentEntries
  <2>6. s \in 1..Len(tree)
    BY <2>1, Ordered DEF Bijective
  <2>7. s \in Intent!Sections
    BY <2>6, IntentSections
  <2>8. e = 0 \/ e \in 1..m
    BY <2>4
  <2> QED BY <2>5, <2>7, <2>8
<1> QED BY <1>1, <1>3, <1>4, <1>5, <1>6 DEF Intent!Numbers

\* What a line says does not depend on the orders.
LEMMA TextsStay ==
  ASSUME UNCHANGED <<doc, tree>>, NEW k, NEW i
  PROVE  WasAt(k, i)' = WasAt(k, i) /\ Original(k, i)' = Original(k, i) /\ TitleAt(k)' = TitleAt(k)
BY DEF WasAt, Original, TitleAt, BulletsAt, Text, src

\* Nor do the fields that say what becomes of it, where nothing is pending anew.
LEMMA SameSaying ==
  ASSUME UNCHANGED <<doc, tree>>, NEW k, NEW i,
         i # 0 => group'[k].rewrites = group[k].rewrites /\ group'[k].dropped = group[k].dropped
  PROVE  WasAt(k, i)' = WasAt(k, i) /\ NowAt(k, i)' = NowAt(k, i) /\ GoneAt(k, i)' = GoneAt(k, i)
<1>1. Original(k, i)' = Original(k, i) /\ TitleAt(k)' = TitleAt(k)
  BY TextsStay
<1>2. CASE i = 0
  BY <1>1, <1>2 DEF WasAt, NowAt, GoneAt
<1>3. CASE i # 0
  BY <1>1, <1>3 DEF WasAt, NowAt, GoneAt, Now
<1> QED BY <1>2, <1>3

\* Nothing pending changes: no line does.
LEMMA LinesStay ==
  ASSUME UNCHANGED <<doc, tree, group, sectionOrder, entryOrder>>
  PROVE  UNCHANGED Pending
BY DEF Pending, PendingAt, LineAt, TitleAt, Original, Now, BulletsAt, Text, src

\* reorder_sections: the lines get their section by a permutation, and keep the rest.
LEMMA SectionsPermuted ==
  ASSUME Ready, OrdersOk', NEW order, ReorderSections(order), IsPermutation(order, Ids(tree))
  PROVE  Intent!PermuteSections
<1>1. UNCHANGED <<doc, tree, group, entryOrder>>
  BY DEF ReorderSections, NextEdit
<1>2. PICK n \in Nat : n = Len(tree)
  BY ParsedIsListed DEF Ready, TreeListed, Listed, IsSeq
<1>3. DOMAIN tree = 1..n
  BY <1>2, ParsedIsListed DEF Ready, TreeListed, Listed, IsSeq
<1>4. Bijective(sectionOrder, n) /\ Bijective(sectionOrder', n)
  <2>1. sectionOrder' # <<>> => IsOrder(sectionOrder', n)
    BY <1>1, <1>2 DEF OrdersOk, SectionsOrdered
  <2> QED BY <1>2, <2>1, Ordered, OrderIsBijective
<1>5. PICK p : p = Shift(sectionOrder, sectionOrder', n)
  OBVIOUS
<1>6. p \in Intent!Bijections(1..n) /\ \A i \in 1..n : p[PlaceIn(sectionOrder, i)] = PlaceIn(sectionOrder', i)
  BY <1>4, <1>5, ShiftIsBijection
<1> DEFINE F(l) == [l EXCEPT !.section = p[@]]
<1>7. ASSUME NEW k, NEW i, IsPart(k, i) PROVE PendingAt(k, i)' = F(PendingAt(k, i))
  <2>1. k[1] \in 1..n
    BY <1>3, <1>7, PlaceBounds DEF IsPart, Ready
  <2>2. WasAt(k, i)' = WasAt(k, i) /\ NowAt(k, i)' = NowAt(k, i) /\ GoneAt(k, i)' = GoneAt(k, i)
    BY <1>1, SameSaying
  <2>3. NumberAt(k, i)' = NumberAt(k, i)
    BY <1>1 DEF NumberAt
  <2>4. p[PlaceIn(sectionOrder, k[1])] = PlaceIn(sectionOrder', k[1])
    BY <1>6, <2>1
  <2> HIDE DEF Ready
  <2> QED BY <1>1, <2>2, <2>3, <2>4, LineOf, NewLineOf
<1> HIDE DEF F
<1>8. Pending' = {F(l) : l \in Pending}
  <2>1. ASSUME NEW l \in Pending' PROVE \E m \in Pending : l = F(m)
    BY <1>1, <1>7, NewPendingLines, PendingLines DEF Ready
  <2>2. ASSUME NEW m \in Pending PROVE F(m) \in Pending'
    BY <1>1, <1>7, NewPendingLines, PendingLines DEF Ready
  <2> QED BY <2>1, <2>2
<1>9. Intent!Sections = 1..n
  BY <1>2, IntentSections
<1> QED BY <1>6, <1>8, <1>9 DEF F, Intent!PermuteSections

\* reorder_entries: the lines of one section get their entry by a permutation.
LEMMA EntriesPermuted ==
  ASSUME Ready, OrdersOk', NEW s \in DOMAIN tree, NEW order, ReorderEntries(s, order),
         IsPermutation(order, Ids(tree[s].entries))
  PROVE  Intent!PermuteEntries(PlaceIn(sectionOrder, s)) /\ PlaceIn(sectionOrder, s) \in Intent!Sections
<1>1. UNCHANGED <<doc, tree, group, sectionOrder>>
  BY DEF ReorderEntries, NextEdit
<1>2. PICK n \in Nat : n = Len(tree[s].entries)
  BY ParsedIsListed DEF Ready, TreeListed, Listed, IsSeq
<1>3. \A t : t # s => entryOrder'[t] = entryOrder[t]
  <2>1. PICK new : new = OrderOf(order, Ids(tree[s].entries))
    OBVIOUS
  <2>2. entryOrder' = [entryOrder EXCEPT ![s] = new]
    BY <2>1 DEF ReorderEntries
  <2>3. DOMAIN entryOrder = DOMAIN tree
    BY DEF Ready, OrdersOk, EntriesOrdered
  <2> QED BY <2>2, <2>3
<1>4. Bijective(entryOrder[s], n) /\ Bijective(entryOrder'[s], n)
  <2>1. entryOrder'[s] # <<>> => IsOrder(entryOrder'[s], n)
    BY <1>1, <1>2 DEF OrdersOk, EntriesOrdered
  <2> QED BY <1>2, <2>1, Ordered, OrderIsBijective
<1>5. PICK p : p = Shift(entryOrder[s], entryOrder'[s], n)
  OBVIOUS
<1>6. p \in Intent!Bijections(1..n) /\ \A i \in 1..n : p[PlaceIn(entryOrder[s], i)] = PlaceIn(entryOrder'[s], i)
  BY <1>4, <1>5, ShiftIsBijection
<1>7. PICK a : a = PlaceIn(sectionOrder, s)
  OBVIOUS
<1> DEFINE F(l) == IF l.section = a /\ l.entry > 0 THEN [l EXCEPT !.entry = p[@]] ELSE l
<1>8. ASSUME NEW k, NEW i, IsPart(k, i) PROVE PendingAt(k, i)' = F(PendingAt(k, i))
  <2>1. WasAt(k, i)' = WasAt(k, i) /\ NowAt(k, i)' = NowAt(k, i) /\ GoneAt(k, i)' = GoneAt(k, i)
    BY <1>1, SameSaying
  <2>2. NumberAt(k, i)' = NumberAt(k, i)
    BY <1>1 DEF NumberAt
  <2>3. PlaceIn(sectionOrder', k[1]) = PlaceIn(sectionOrder, k[1])
    BY <1>1
  <2>4. PICK l : l = PendingAt(k, i)
    OBVIOUS
  <2>5. /\ l = [section |-> PlaceIn(sectionOrder, k[1]), entry |-> PlaceIn(entryOrder[k[1]], k[2]),
                number |-> NumberAt(k, i), was |-> WasAt(k, i), now |-> NowAt(k, i), gone |-> GoneAt(k, i)]
        /\ l.section = PlaceIn(sectionOrder, k[1]) /\ l.entry = PlaceIn(entryOrder[k[1]], k[2])
    BY <2>4, LineOf
  <2>6. PendingAt(k, i)' =
          [section |-> PlaceIn(sectionOrder, k[1]), entry |-> PlaceIn(entryOrder'[k[1]], k[2]),
           number |-> NumberAt(k, i), was |-> WasAt(k, i), now |-> NowAt(k, i), gone |-> GoneAt(k, i)]
    BY <2>1, <2>2, <2>3, NewLineOf
  <2>7. CASE k[1] = s /\ k[2] # 0
    <3>1. k[2] \in 0..n
      BY <1>2, <1>8, <2>7, PlaceBounds DEF IsPart, Ready
    <3>2. k[2] \in 1..n
      BY <2>7, <3>1
    <3>3. l.section = a /\ l.entry \in 1..n
      BY <1>4, <1>7, <2>5, <2>7, <3>2 DEF Bijective
    <3>4. l.entry > 0
      BY <3>3
    <3>5. p[l.entry] = PlaceIn(entryOrder'[k[1]], k[2])
      BY <1>6, <2>5, <2>7, <3>2
    <3>6. F(l) = [l EXCEPT !.entry = p[l.entry]]
      BY <3>3, <3>4
    <3> HIDE DEF F
    <3> QED BY <2>4, <2>5, <2>6, <3>5, <3>6
  <2>8. CASE ~(k[1] = s /\ k[2] # 0)
    <3>1. ~(l.section = a /\ l.entry > 0)
      <4>1. CASE k[1] # s
        <5>1. k[1] \in DOMAIN tree
          BY <1>8, PlaceBounds DEF IsPart, Ready
        <5> QED BY <1>7, <2>5, <4>1, <5>1, SameSection
      <4>2. CASE k[1] = s /\ k[2] = 0
        <5>1. l.entry = 0
          BY <1>4, <2>5, <4>2 DEF Bijective
        <5> QED BY <5>1
      <4> QED BY <2>8, <4>1, <4>2
    <3>2. PlaceIn(entryOrder'[k[1]], k[2]) = PlaceIn(entryOrder[k[1]], k[2])
      <4>1. CASE k[1] # s
        BY <1>3, <4>1
      <4>2. CASE k[1] = s /\ k[2] = 0
        BY <1>4, <4>2 DEF Bijective
      <4> QED BY <2>8, <4>1, <4>2
    <3> QED BY <2>4, <2>5, <2>6, <3>1, <3>2
  <2> QED BY <2>7, <2>8
<1> HIDE DEF F
<1>9. Pending' = {F(l) : l \in Pending}
  <2>1. ASSUME NEW l \in Pending' PROVE \E m \in Pending : l = F(m)
    BY <1>1, <1>8, NewPendingLines, PendingLines DEF Ready
  <2>2. ASSUME NEW m \in Pending PROVE F(m) \in Pending'
    BY <1>1, <1>8, NewPendingLines, PendingLines DEF Ready
  <2> QED BY <2>1, <2>2
<1>10. Intent!Entries(a) = 1..n
  BY <1>2, <1>7, IntentEntries
<1>11. a \in Intent!Sections
  <2>1. PICK m \in Nat : m = Len(tree)
    BY ParsedIsListed DEF Ready, TreeListed, Listed, IsSeq
  <2>2. s \in 1..m
    BY <2>1, ParsedIsListed DEF Ready, TreeListed, Listed, IsSeq
  <2>3. a \in 1..m
    BY <1>7, <2>1, <2>2, Ordered DEF Bijective
  <2> QED BY <2>1, <2>3, IntentSections
<1>12. Intent!PermuteEntries(a)
  BY <1>6, <1>9, <1>10 DEF F, Intent!PermuteEntries
<1> QED BY <1>7, <1>11, <1>12

\* reorder_bullets: the bullets of one group get their number by a permutation.
LEMMA BulletsPermuted ==
  ASSUME Ready, OrdersOk', NEW k \in DOMAIN group, NEW order, ReorderBullets(k, order),
         IsPermutation(order, KnownIds(k))
  PROVE  \E s \in Intent!Sections : \E e \in Intent!Entries(s) \cup {0} : Intent!PermuteBullets(s, e)
<1>1. UNCHANGED <<doc, tree, sectionOrder, entryOrder>>
  BY DEF ReorderBullets, NextEdit
<1>0. k \in Places(tree)
  BY DEF Ready, Grouped
<1>2. PICK n \in Nat : n = Len(BulletsAt(tree, k))
  BY <1>0, PlaceBounds DEF Ready
<1>3. PICK new : new = OrderOf(order, KnownIds(k))
  OBVIOUS
<1>4. group' = [group EXCEPT ![k].order = new]
  BY <1>3 DEF ReorderBullets
<1>5. /\ \A l : l # k => group'[l] = group[l]
      /\ \A l : group'[l].rewrites = group[l].rewrites /\ group'[l].dropped = group[l].dropped
      /\ k \in DOMAIN group'
  <2>1. DOMAIN group[k] = {"order", "dropped", "rewrites"}
    BY DEF Ready, OrdersOk, Shape
  <2>2. PICK g : g = [group[k] EXCEPT !.order = new]
    OBVIOUS
  <2>3. group' = [group EXCEPT ![k] = g] /\ g.rewrites = group[k].rewrites /\ g.dropped = group[k].dropped
    BY <1>4, <2>1, <2>2
  <2>4. \A l : l # k => group'[l] = group[l]
    BY <2>3
  <2>5. group'[k] = g /\ k \in DOMAIN group'
    BY <2>3
  <2> QED BY <2>3, <2>4, <2>5
<1>6. Bijective(group[k].order, n) /\ Bijective(group'[k].order, n)
  <2>1. IsOrder(group'[k].order, Len(BulletsAt(tree', k)))
    BY <1>5 DEF OrdersOk, GroupsOrdered, GroupOrdered
  <2>2. IsOrder(group'[k].order, n)
    BY <1>1, <1>2, <2>1
  <2> QED BY <1>2, <2>2, Ordered, OrderIsBijective
<1>7. PICK p : p = Shift(group[k].order, group'[k].order, n)
  OBVIOUS
<1>8. /\ p \in Intent!Bijections(1..n)
      /\ \A i \in 1..n : p[PlaceIn(group[k].order, i)] = PlaceIn(group'[k].order, i)
  BY <1>6, <1>7, ShiftIsBijection
<1>9. PICK s, e : s = PlaceIn(sectionOrder, k[1]) /\ e = PlaceIn(entryOrder[k[1]], k[2])
  OBVIOUS
<1>10. /\ \A l, i : IsPart(l, i) => (PendingAt(l, i) \in Intent!Under(s, e) <=> l = k /\ i # 0)
       /\ Intent!Numbers(s, e) = 1..n
       /\ s \in Intent!Sections /\ e \in Intent!Entries(s) \cup {0}
  BY <1>2, <1>9, IntentUnder
<1> DEFINE F(l) == IF l \in Intent!Under(s, e) THEN [l EXCEPT !.number = p[@]] ELSE l
<1>11. ASSUME NEW q, NEW i, IsPart(q, i) PROVE PendingAt(q, i)' = F(PendingAt(q, i))
  <2>1. WasAt(q, i)' = WasAt(q, i) /\ NowAt(q, i)' = NowAt(q, i) /\ GoneAt(q, i)' = GoneAt(q, i)
    BY <1>1, <1>5, SameSaying
  <2>2. PICK l : l = PendingAt(q, i)
    OBVIOUS
  <2>3. /\ l = [section |-> PlaceIn(sectionOrder, q[1]), entry |-> PlaceIn(entryOrder[q[1]], q[2]),
                number |-> NumberAt(q, i), was |-> WasAt(q, i), now |-> NowAt(q, i), gone |-> GoneAt(q, i)]
        /\ l.number = NumberAt(q, i)
    BY <2>2, LineOf
  <2>4. PendingAt(q, i)' =
          [section |-> PlaceIn(sectionOrder, q[1]), entry |-> PlaceIn(entryOrder[q[1]], q[2]),
           number |-> NumberAt(q, i)', was |-> WasAt(q, i), now |-> NowAt(q, i), gone |-> GoneAt(q, i)]
    BY <1>1, <2>1, NewLineOf
  <2>5. l \in Intent!Under(s, e) <=> q = k /\ i # 0
    BY <1>10, <1>11, <2>2
  <2>6. CASE q = k /\ i # 0
    <3>1. i \in 1..n
      BY <1>2, <1>11, <2>6, BulletHasGroup
    <3>2. NumberAt(q, i) = PlaceIn(group[k].order, i) /\ NumberAt(q, i)' = PlaceIn(group'[k].order, i)
      BY <2>6 DEF NumberAt
    <3>3. p[l.number] = NumberAt(q, i)'
      BY <1>8, <2>3, <3>1, <3>2
    <3>4. F(l) = [l EXCEPT !.number = p[l.number]]
      BY <2>5, <2>6
    <3> HIDE DEF F
    <3> QED BY <2>2, <2>3, <2>4, <3>3, <3>4
  <2>7. CASE ~(q = k /\ i # 0)
    <3>1. NumberAt(q, i)' = NumberAt(q, i)
      <4>1. CASE q # k
        BY <1>5, <4>1 DEF NumberAt
      <4>2. CASE i = 0
        BY <4>2 DEF NumberAt
      <4> QED BY <2>7, <4>1, <4>2
    <3>2. F(l) = l
      BY <2>5, <2>7
    <3> HIDE DEF F
    <3> QED BY <2>2, <2>3, <2>4, <3>1, <3>2
  <2> QED BY <2>6, <2>7
<1> HIDE DEF F
<1>12. Pending' = {F(l) : l \in Pending}
  <2>1. ASSUME NEW l \in Pending' PROVE \E m \in Pending : l = F(m)
    BY <1>1, <1>11, NewPendingLines, PendingLines DEF Ready
  <2>2. ASSUME NEW m \in Pending PROVE F(m) \in Pending'
    BY <1>1, <1>11, NewPendingLines, PendingLines DEF Ready
  <2> QED BY <2>1, <2>2
<1>13. Intent!PermuteBullets(s, e)
  BY <1>8, <1>10, <1>12 DEF F, Intent!PermuteBullets
<1> QED BY <1>10, <1>13

\* One line changes, and the others are other lines.
LEMMA OneLine ==
  ASSUME Ready, UNCHANGED tree, NEW k, NEW i, IsPart(k, i),
         \A l, j : IsPart(l, j) /\ ~(l = k /\ j = i) => PendingAt(l, j)' = PendingAt(l, j)
  PROVE  /\ PendingAt(k, i) \in Pending
         /\ Pending' = (Pending \ {PendingAt(k, i)}) \cup {PendingAt(k, i)'}
<1>1. PICK old : old = PendingAt(k, i)
  OBVIOUS
<1>2. PICK new : new = PendingAt(k, i)'
  OBVIOUS
<1>3. ASSUME NEW l, NEW j, IsPart(l, j), ~(l = k /\ j = i) PROVE PendingAt(l, j) # old
  <2>1. PICK m : m = PendingAt(l, j)
    OBVIOUS
  <2>2. /\ m.section = PlaceIn(sectionOrder, l[1]) /\ m.entry = PlaceIn(entryOrder[l[1]], l[2])
        /\ m.number = NumberAt(l, j)
    BY <2>1, LineOf
  <2>3. /\ old.section = PlaceIn(sectionOrder, k[1]) /\ old.entry = PlaceIn(entryOrder[k[1]], k[2])
        /\ old.number = NumberAt(k, i)
    BY <1>1, LineOf
  <2>4. m # old
    BY <1>3, <2>2, <2>3, SamePart
  <2> QED BY <2>1, <2>4
<1>4. old \in Pending /\ new \in Pending'
  BY <1>1, <1>2, PendingLines, NewPendingLines DEF Ready
<1>5. ASSUME NEW m \in Pending' PROVE m \in (Pending \ {old}) \cup {new}
  <2>1. PICK l, j : IsPart(l, j) /\ m = PendingAt(l, j)'
    BY NewPendingLines DEF Ready
  <2>2. CASE l = k /\ j = i
    BY <1>2, <2>1, <2>2
  <2>3. CASE ~(l = k /\ j = i)
    <3>1. m = PendingAt(l, j)
      BY <2>1, <2>3
    <3>2. m # old
      BY <1>3, <2>1, <2>3, <3>1
    <3>3. m \in Pending
      BY <2>1, <3>1, PendingLines DEF Ready
    <3> QED BY <3>2, <3>3
  <2> QED BY <2>2, <2>3
<1>6. ASSUME NEW m \in Pending, m # old PROVE m \in Pending'
  <2>1. PICK l, j : IsPart(l, j) /\ m = PendingAt(l, j)
    BY PendingLines DEF Ready
  <2>2. ~(l = k /\ j = i)
    BY <1>1, <1>6, <2>1
  <2>3. m = PendingAt(l, j)'
    BY <2>1, <2>2
  <2>4. PendingAt(l, j)' \in Pending'
    BY <2>1, NewPendingLines DEF Ready
  <2> QED BY <2>3, <2>4
<1>7. Pending' = (Pending \ {old}) \cup {new}
  BY <1>4, <1>5, <1>6
<1> QED BY <1>1, <1>2, <1>4, <1>7

\* The bullet an edit names is a part of the group that has it.
LEMMA NamedPart ==
  ASSUME Ready, NEW id, NEW k \in GroupOf(id), NEW i, i = IndexOf(KnownIds(k), id)
  PROVE  k \in DOMAIN group /\ IsPart(k, i) /\ i # 0 /\ NumberAt(k, i) > 0
<1>1. k \in DOMAIN group /\ i # 0
  BY DEF GroupOf
<1>2. k \in Places(tree)
  BY <1>1 DEF Ready, Grouped
<1>3. PICK n \in Nat : n = Len(BulletsAt(tree, k))
  BY <1>2, PlaceBounds DEF Ready
<1>4. i \in 1..n
  <2>1. i \in 1..Len(KnownIds(k))
    BY <1>1, FoundWithin
  <2>2. Listed(BulletsAt(tree, k))
    BY <1>2, PlaceIsListed DEF Ready
  <2>3. Len(KnownIds(k)) = n
    BY <1>3, <2>2, IdsOf DEF KnownIds, Listed
  <2> QED BY <2>1, <2>3
<1>5. i \in 0..n
  BY <1>4
<1>6. NumberAt(k, i) \in 1..n
  BY <1>1, <1>3, <1>4, Ordered DEF NumberAt, Bijective
<1>7. NumberAt(k, i) > 0
  BY <1>6
<1> QED BY <1>1, <1>2, <1>3, <1>5, <1>7 DEF IsPart

\* rewrite_bullet: one bullet says another text, admissible for what it said in the document.
LEMMA Reworded ==
  ASSUME Ready, UNCHANGED <<doc, tree, sectionOrder, entryOrder>>, NEW id, NEW text \in NewTexts,
         NEW k \in GroupOf(id), RewriteAllowed(k, IndexOf(KnownIds(k), id), text),
         group' = [group EXCEPT ![k].rewrites = Assigned(@, IndexOf(KnownIds(k), id), EscapeTex(text))]
  PROVE  Intent!Reword
<1>1. PICK i : i = IndexOf(KnownIds(k), id)
  OBVIOUS
<1>2. PICK new : new = EscapeTex(text)
  OBVIOUS
<1>3. k \in DOMAIN group /\ IsPart(k, i) /\ i # 0 /\ NumberAt(k, i) > 0
  BY <1>1, NamedPart
<1>4. /\ \A l : l # k => group'[l] = group[l]
      /\ group'[k].rewrites = Assigned(group[k].rewrites, i, new)
      /\ group'[k].order = group[k].order /\ group'[k].dropped = group[k].dropped
  <2>1. DOMAIN group[k] = {"order", "dropped", "rewrites"}
    BY <1>3 DEF Ready, OrdersOk, Shape
  <2>2. PICK r : r = Assigned(group[k].rewrites, i, new)
    OBVIOUS
  <2>3. PICK g : g = [group[k] EXCEPT !.rewrites = r]
    OBVIOUS
  <2>4. group' = [group EXCEPT ![k] = g]
    BY <1>1, <1>2, <2>2, <2>3
  <2>5. g.rewrites = r /\ g.order = group[k].order /\ g.dropped = group[k].dropped
    BY <2>1, <2>3
  <2>6. group'[k] = g /\ \A l : l # k => group'[l] = group[l]
    BY <1>3, <2>4
  <2> QED BY <2>2, <2>5, <2>6
<1>5. ASSUME NEW j PROVE /\ j \in DOMAIN group'[k].rewrites <=> j = i \/ j \in DOMAIN group[k].rewrites
                         /\ j \in DOMAIN group'[k].rewrites =>
                              group'[k].rewrites[j] = IF j = i THEN new ELSE group[k].rewrites[j]
  BY <1>4 DEF Assigned
<1>6. ASSUME NEW l, NEW j
      PROVE  /\ NumberAt(l, j)' = NumberAt(l, j) /\ GoneAt(l, j)' = GoneAt(l, j)
             /\ WasAt(l, j)' = WasAt(l, j)
  <2>1. group'[l].order = group[l].order /\ group'[l].dropped = group[l].dropped
    BY <1>4
  <2>2. GoneAt(l, j)' = GoneAt(l, j)
    <3>1. CASE j = 0
      BY <3>1 DEF GoneAt
    <3>2. CASE j # 0
      BY <2>1, <3>2 DEF GoneAt
    <3> QED BY <3>1, <3>2
  <2>3. NumberAt(l, j)' = NumberAt(l, j)
    BY <2>1 DEF NumberAt
  <2> QED BY <2>2, <2>3, TextsStay
<1>7. ASSUME NEW l, NEW j, ~(l = k /\ j = i) PROVE NowAt(l, j)' = NowAt(l, j)
  <2>1. Original(l, j)' = Original(l, j) /\ TitleAt(l)' = TitleAt(l)
    BY TextsStay
  <2>2. CASE l # k
    BY <1>4, <2>1, <2>2 DEF NowAt, Now
  <2>3. CASE l = k /\ j # i
    BY <1>5, <2>1, <2>3 DEF NowAt, Now
  <2> QED BY <1>7, <2>2, <2>3
<1>8. NowAt(k, i)' = new
  BY <1>3, <1>5 DEF NowAt, Now
<1>9. ASSUME NEW l, NEW j, IsPart(l, j), ~(l = k /\ j = i) PROVE PendingAt(l, j)' = PendingAt(l, j)
  BY <1>6, <1>7, <1>9, LineOf, NewLineOf
<1>10. PICK line : line = PendingAt(k, i)
  OBVIOUS
<1>11. line \in Pending /\ Pending' = (Pending \ {line}) \cup {PendingAt(k, i)'}
  BY <1>3, <1>9, <1>10, OneLine
<1>12. line.number > 0 /\ line.was = Original(k, i)
  BY <1>3, <1>10, LineOf DEF WasAt
<1>13. PendingAt(k, i)' = [line EXCEPT !.now = new]
  <2>1. line = [section |-> PlaceIn(sectionOrder, k[1]), entry |-> PlaceIn(entryOrder[k[1]], k[2]),
                number |-> NumberAt(k, i), was |-> WasAt(k, i), now |-> NowAt(k, i), gone |-> GoneAt(k, i)]
    BY <1>10, LineOf
  <2>2. PendingAt(k, i)' =
          [section |-> PlaceIn(sectionOrder, k[1]), entry |-> PlaceIn(entryOrder[k[1]], k[2]),
           number |-> NumberAt(k, i), was |-> WasAt(k, i), now |-> new, gone |-> GoneAt(k, i)]
    BY <1>6, <1>8, NewLineOf
  <2> QED BY <2>1, <2>2
<1>14. Admissible(line.was, new)
  BY <1>1, <1>2, <1>12 DEF Admissible, RewriteAllowed
<1>15. new \in {EscapeTex(t) : t \in NewTexts}
  BY <1>2
<1> QED BY <1>11, <1>12, <1>13, <1>14, <1>15 DEF Intent!Reword, Intent!IsBullet, Intent!Replace

\* drop_bullet: one bullet is gone, and keeps its number.
LEMMA Dropped ==
  ASSUME Ready, UNCHANGED <<doc, tree, sectionOrder, entryOrder>>, NEW id, NEW k \in GroupOf(id),
         group' = [group EXCEPT ![k].dropped = @ \cup {IndexOf(KnownIds(k), id)}]
  PROVE  Intent!DropOne
<1>1. PICK i : i = IndexOf(KnownIds(k), id)
  OBVIOUS
<1>2. k \in DOMAIN group /\ IsPart(k, i) /\ i # 0 /\ NumberAt(k, i) > 0
  BY <1>1, NamedPart
<1>3. /\ \A l : l # k => group'[l] = group[l]
      /\ group'[k].dropped = group[k].dropped \cup {i}
      /\ group'[k].order = group[k].order /\ group'[k].rewrites = group[k].rewrites
  <2>1. DOMAIN group[k] = {"order", "dropped", "rewrites"}
    BY <1>2 DEF Ready, OrdersOk, Shape
  <2>2. PICK r : r = group[k].dropped \cup {i}
    OBVIOUS
  <2>3. PICK g : g = [group[k] EXCEPT !.dropped = r]
    OBVIOUS
  <2>4. group' = [group EXCEPT ![k] = g]
    BY <1>1, <2>2, <2>3
  <2>5. g.dropped = r /\ g.order = group[k].order /\ g.rewrites = group[k].rewrites
    BY <2>1, <2>3
  <2>6. group'[k] = g /\ \A l : l # k => group'[l] = group[l]
    BY <1>2, <2>4
  <2> QED BY <2>2, <2>5, <2>6
<1>4. ASSUME NEW l, NEW j
      PROVE  /\ NumberAt(l, j)' = NumberAt(l, j) /\ NowAt(l, j)' = NowAt(l, j)
             /\ WasAt(l, j)' = WasAt(l, j)
  <2>1. group'[l].order = group[l].order /\ group'[l].rewrites = group[l].rewrites
    BY <1>3
  <2>2. Original(l, j)' = Original(l, j) /\ TitleAt(l)' = TitleAt(l) /\ WasAt(l, j)' = WasAt(l, j)
    BY TextsStay
  <2> QED BY <2>1, <2>2 DEF NumberAt, NowAt, Now
<1>5. ASSUME NEW l, NEW j, ~(l = k /\ j = i) PROVE GoneAt(l, j)' = GoneAt(l, j)
  <2>0. CASE j = 0
    BY <2>0 DEF GoneAt
  <2>1. CASE j # 0 /\ l # k
    <3>1. group'[l].dropped = group[l].dropped
      BY <1>3, <2>1
    <3> QED BY <2>1, <3>1 DEF GoneAt
  <2>2. CASE j # 0 /\ l = k /\ j # i
    <3>1. j \in group'[l].dropped <=> j \in group[l].dropped
      BY <1>3, <2>2
    <3>2. (j \in group'[l].dropped) = (j \in group[l].dropped)
      BY <3>1
    <3> QED BY <2>2, <3>2 DEF GoneAt
  <2> QED BY <1>5, <2>0, <2>1, <2>2
<1>6. PICK yes : yes = TRUE /\ GoneAt(k, i)' = yes
  BY <1>2, <1>3 DEF GoneAt
<1>7. ASSUME NEW l, NEW j, IsPart(l, j), ~(l = k /\ j = i) PROVE PendingAt(l, j)' = PendingAt(l, j)
  BY <1>4, <1>5, <1>7, LineOf, NewLineOf
<1>8. PICK line : line = PendingAt(k, i)
  OBVIOUS
<1>9. line \in Pending /\ Pending' = (Pending \ {line}) \cup {PendingAt(k, i)'}
  BY <1>2, <1>7, <1>8, OneLine
<1>10. line.number > 0
  BY <1>2, <1>8, LineOf
<1>11. PendingAt(k, i)' = [line EXCEPT !.gone = TRUE]
  <2>1. line = [section |-> PlaceIn(sectionOrder, k[1]), entry |-> PlaceIn(entryOrder[k[1]], k[2]),
                number |-> NumberAt(k, i), was |-> WasAt(k, i), now |-> NowAt(k, i), gone |-> GoneAt(k, i)]
    BY <1>8, LineOf
  <2>2. PendingAt(k, i)' =
          [section |-> PlaceIn(sectionOrder, k[1]), entry |-> PlaceIn(entryOrder[k[1]], k[2]),
           number |-> NumberAt(k, i), was |-> WasAt(k, i), now |-> NowAt(k, i), gone |-> yes]
    BY <1>4, <1>6, NewLineOf
  <2>3. PendingAt(k, i)' = [line EXCEPT !.gone = yes]
    BY <2>1, <2>2
  <2> QED BY <1>6, <2>3
<1> QED BY <1>9, <1>10, <1>11 DEF Intent!DropOne, Intent!IsBullet, Intent!Replace

\* One edit is one step of the intent, or it changes nothing that shows.
LEMMA EditIsIntended ==
  ASSUME Ready, OrdersOk', ApplyEdit
  PROVE  Intent!Edit \/ UNCHANGED Intent!intentVars
<1>1. out = <<>> /\ UNCHANGED <<doc, tree, out, reread>>
  BY DEF ApplyEdit, ReorderSections, ReorderEntries, ReorderEntriesNowhere, ReorderBullets,
         RewriteBullet, DropBullet, NextEdit
<1>3. (IF out = <<>> THEN <<>> ELSE <<ReadBack>>) = <<>> /\ (IF out = <<>> THEN <<>> ELSE <<ReadBack>>)' = <<>>
  BY <1>1
<1>4. ASSUME \/ Intent!PermuteSections \/ Intent!Reword \/ Intent!DropOne
             \/ \E s \in Intent!Sections : \/ Intent!PermuteEntries(s)
                                           \/ \E e \in Intent!Entries(s) \cup {0} : Intent!PermuteBullets(s, e)
      PROVE  Intent!Edit
  BY <1>3, <1>4 DEF Intent!Edit
<1>5. ASSUME UNCHANGED <<group, sectionOrder, entryOrder>> PROVE UNCHANGED Intent!intentVars
  <2>1. UNCHANGED Pending
    BY <1>1, <1>5, LinesStay
  <2> QED BY <1>3, <2>1 DEF Intent!intentVars
<1>6. ASSUME NEW order \in Orders(Ids(tree)), ReorderSections(order)
      PROVE  Intent!Edit \/ UNCHANGED Intent!intentVars
  <2>1. CASE IsPermutation(order, Ids(tree))
    BY <1>4, <1>6, <2>1, SectionsPermuted
  <2>2. CASE ~IsPermutation(order, Ids(tree))
    BY <1>5, <1>6, <2>2 DEF ReorderSections, Refuse
  <2> QED BY <2>1, <2>2
<1>7. ASSUME NEW s \in DOMAIN tree, NEW order, ReorderEntries(s, order)
      PROVE  Intent!Edit \/ UNCHANGED Intent!intentVars
  <2>1. CASE IsPermutation(order, Ids(tree[s].entries))
    BY <1>4, <1>7, <2>1, EntriesPermuted
  <2>2. CASE ~IsPermutation(order, Ids(tree[s].entries))
    BY <1>5, <1>7, <2>2 DEF ReorderEntries, Refuse
  <2> QED BY <2>1, <2>2
<1>8. CASE ReorderEntriesNowhere
  BY <1>5, <1>8 DEF ReorderEntriesNowhere, Refuse
<1>9. ASSUME NEW k, NEW order, ReorderBullets(k, order)
      PROVE  Intent!Edit \/ UNCHANGED Intent!intentVars
  <2>1. CASE k \in DOMAIN group /\ IsPermutation(order, KnownIds(k))
    BY <1>4, <1>9, <2>1, BulletsPermuted
  <2>2. CASE ~(k \in DOMAIN group /\ IsPermutation(order, KnownIds(k)))
    BY <1>5, <1>9, <2>2 DEF ReorderBullets, Refuse
  <2> QED BY <2>1, <2>2
<1>10. ASSUME NEW id, NEW text \in NewTexts, RewriteBullet(id, text)
       PROVE  Intent!Edit \/ UNCHANGED Intent!intentVars
  <2>1. CASE Refuse("rewrite_bullet", id)
    BY <1>5, <2>1 DEF Refuse
  <2>2. ASSUME NEW k \in GroupOf(id), RewriteAllowed(k, IndexOf(KnownIds(k), id), text),
               group' = [group EXCEPT ![k].rewrites = Assigned(@, IndexOf(KnownIds(k), id), EscapeTex(text))],
               UNCHANGED <<sectionOrder, entryOrder>>
        PROVE  Intent!Edit
    BY <1>1, <1>4, <2>2, Reworded
  <2> QED BY <1>10, <2>1, <2>2 DEF RewriteBullet
<1>11. ASSUME NEW id, DropBullet(id)
       PROVE  Intent!Edit \/ UNCHANGED Intent!intentVars
  <2>1. CASE Refuse("drop_bullet", id)
    BY <1>5, <2>1 DEF Refuse
  <2>2. ASSUME NEW k \in GroupOf(id), group' = [group EXCEPT ![k].dropped = @ \cup {IndexOf(KnownIds(k), id)}],
               UNCHANGED <<sectionOrder, entryOrder>>
        PROVE  Intent!Edit
    BY <1>1, <1>4, <2>2, Dropped
  <2> QED BY <1>11, <2>1, <2>2 DEF DropBullet
<1> QED BY <1>6, <1>7, <1>8, <1>9, <1>10, <1>11 DEF ApplyEdit

\* Before the first edit every line says what the document says.
LEMMA IntentInit == Init /\ Parsed => Intent!Init
<1> SUFFICES ASSUME Init, Parsed PROVE Intent!Init
  OBVIOUS
<1>1. out = <<>> /\ group = CollectGroups(tree)
  BY DEF Init
<1>2. ASSUME NEW l \in Pending PROVE l.now = l.was /\ ~l.gone
  <2>1. PICK k, i : IsPart(k, i) /\ l = PendingAt(k, i)
    BY PendingLines
  <2>2. l.now = NowAt(k, i) /\ l.was = WasAt(k, i) /\ l.gone = GoneAt(k, i)
    BY <2>1, LineOf
  <2>3. CASE i = 0
    BY <2>2, <2>3 DEF NowAt, WasAt, GoneAt
  <2>4. CASE i # 0
    <3>1. k \in DOMAIN group
      <4>1. k \in Places(tree) /\ i \in 0..Len(BulletsAt(tree, k))
        BY <2>1 DEF IsPart
      <4>2. BulletsAt(tree, k) # <<>>
        <5>1. Len(<<>>) = 0
          OBVIOUS
        <5> QED BY <2>4, <4>1, <5>1
      <4> QED BY <1>1, <4>1, <4>2 DEF CollectGroups
    <3>2. group[k].rewrites = <<>> /\ group[k].dropped = {}
      BY <1>1, <3>1 DEF CollectGroups
    <3>3. Now(k, i) = Original(k, i)
      BY <3>2 DEF Now
    <3> QED BY <2>2, <2>4, <3>2, <3>3 DEF NowAt, WasAt, GoneAt
  <2> QED BY <2>3, <2>4
<1> QED BY <1>1, <1>2 DEF Intent!Init

\* The groups are those of the document's places that have bullets.
LEMMA GroupsStayGrouped == Grouped /\ [Next]_vars => Grouped'
<1> SUFFICES ASSUME Grouped, [Next]_vars PROVE Grouped'
  OBVIOUS
<1>1. UNCHANGED tree
  BY DEF Next, vars, ApplyEdit, NextEdit, ReorderSections, ReorderEntries, ReorderEntriesNowhere,
         ReorderBullets, RewriteBullet, DropBullet, Emit
<1>2. DOMAIN group' = DOMAIN group
  BY DEF Next, vars, ApplyEdit, ReorderSections, ReorderEntries, ReorderEntriesNowhere,
         ReorderBullets, RewriteBullet, DropBullet, Emit, Refuse
<1> QED BY <1>1, <1>2 DEF Grouped, Places, BulletsAt

\* For every document and plan, every edit that is accepted is an edit EditIntent allows of the
\* resume as it stands, and one that is refused changes nothing: sections, entries and bullets
\* are permuted, a bullet is reworded by an approved text or dropped, and nothing appears.
EditsAreIntended == [][ApplyEdit => Intent!Edit \/ UNCHANGED Intent!intentVars]_vars
THEOREM EditsImplementIntent == Spec => Intent!Init /\ EditsAreIntended
<1>1. Init => Parsed /\ Grouped
  BY DEF Init, Parsed, Grouped, CollectGroups
<1>2. Ready /\ OrdersOk' /\ [Next]_vars => [ApplyEdit => Intent!Edit \/ UNCHANGED Intent!intentVars]_vars
  BY EditIsIntended
<1>3. OrdersOk /\ Parsed /\ Grouped <=> Ready
  BY DEF Ready
<1> QED BY <1>1, <1>2, <1>3, IntentInit, OrdersInit, OrdersNext, GroupsStayGrouped, TreeStays, PTL
        DEF Spec, EditsAreIntended

(* ------------------------------ Rendering --------------------------------- *)

\* Replacements that follow each other in the source do not meet, whichever are dropped.
LEMMA QueuedApart ==
  ASSUME NEW edits, IsSeq(edits),
         \A n \in DOMAIN edits : edits[n].span[1] \in Nat /\ edits[n].span[2] \in Nat,
         \A m, n \in DOMAIN edits : m < n => edits[m].span[2] <= edits[n].span[1]
  PROVE  ~Collides(Queued(edits))
<1> DEFINE places == {n \in DOMAIN edits : Text(src, edits[n].span) # edits[n].text}
           at     == Ascending(places)
<1>1. PICK q : q = Queued(edits)
  OBVIOUS
<1>2. DOMAIN q = DOMAIN at /\ \A n \in DOMAIN at : q[n] = edits[at[n]]
  <2>1. q = [n \in DOMAIN at |-> edits[at[n]]]
    BY <1>1 DEF Queued, Only, Each
  <2> QED BY <2>1
<1>3. /\ IsSeq(at) /\ \A n \in DOMAIN at : at[n] \in places
      /\ \A m, n \in DOMAIN at : m < n => at[m] < at[n]
  <2>1. places \subseteq 1..Len(edits) /\ Len(edits) \in Nat
    BY DEF IsSeq
  <2>2. places \subseteq Nat
    BY <2>1
  <2>3. IsFiniteSet(places)
    <3>1. IsFiniteSet(1..Len(edits))
      BY <2>1, FS_Interval
    <3> QED BY <2>1, <3>1, FS_Subset
  <2> HIDE DEF places
  <2> QED BY <2>2, <2>3, AscendingSorts
<1>4. \A n \in DOMAIN at : at[n] \in DOMAIN edits
  BY <1>3
<1> HIDE DEF places, at
<1>5. ASSUME NEW m \in DOMAIN q, NEW n \in DOMAIN q, m < n
      PROVE  ~Overlaps(q[m].span, q[n].span) /\ ~Overlaps(q[n].span, q[m].span)
  <2>1. PICK i \in DOMAIN edits, j \in DOMAIN edits : i = at[m] /\ j = at[n]
    BY <1>2, <1>4
  <2>2. i < j
    BY <1>2, <1>3, <1>5, <2>1
  <2>3. PICK a, b : a = edits[i].span /\ b = edits[j].span
    OBVIOUS
  <2>4. a[1] \in Nat /\ a[2] \in Nat /\ b[1] \in Nat /\ b[2] \in Nat /\ a[2] <= b[1]
    BY <2>2, <2>3
  <2>5. ~Overlaps(a, b) /\ ~Overlaps(b, a)
    BY <2>4 DEF Overlaps
  <2> QED BY <1>2, <2>1, <2>3, <2>5
<1>6. ASSUME NEW m \in DOMAIN q, NEW n \in DOMAIN q, m # n
      PROVE  ~Overlaps(q[m].span, q[n].span)
  <2>1. m \in Nat /\ n \in Nat
    <3>1. DOMAIN q = 1..Len(at) /\ Len(at) \in Nat
      BY <1>2, <1>3 DEF IsSeq
    <3> QED BY <3>1
  <2>2. m < n \/ n < m
    BY <1>6, <2>1
  <2> QED BY <1>5, <2>2
<1> QED BY <1>1, <1>6 DEF Collides

\* The sections of the tree follow each other, and so do the replacements of sections.
LEMMA NothingCollides == ASSUME Parsed PROVE ~Collides(Queued(Replacements))
<1>1. PICK text : text = doc.source
  OBVIOUS
<1>2. /\ Readable(text, BuildMask(text))
      /\ IsSeq(doc.profile.lists) /\ doc.profile.entryArgs \in Nat
  BY <1>1, DocumentIsRead DEF Parsed
<1>3. tree = ParseMasked(text, BuildMask(text), doc.profile)
  BY <1>1 DEF Parsed, ParseResume
<1>4. /\ Chain(Spans(tree), Whole(text))
      /\ \A s \in DOMAIN tree : tree[s].span[1] \in Nat /\ tree[s].span[2] \in Nat
  BY <1>2, <1>3, SectionsFollow
<1>5. Listed(tree)
  BY ParsedIsListed DEF TreeListed
<1>6. DOMAIN Spans(tree) = DOMAIN tree /\ \A s \in DOMAIN tree : Spans(tree)[s] = tree[s].span
  BY DEF Spans, Each
<1>7. \A s, r \in DOMAIN tree : s < r => tree[s].span[2] <= tree[r].span[1]
  BY <1>4, <1>6 DEF Chain
<1>8. PICK edits : edits = Replacements
  OBVIOUS
<1>9. CASE sectionOrder # <<>>
  <2>1. PICK new : edits = <<new>>
    BY <1>8, <1>9 DEF Replacements
  <2>2. ASSUME NEW q, q = Queued(edits), NEW m \in DOMAIN q, NEW n \in DOMAIN q PROVE m = n
    <3> DEFINE places == {n2 \in DOMAIN edits : Text(src, edits[n2].span) # edits[n2].text}
    <3>1. DOMAIN q = DOMAIN Ascending(places)
      BY <2>2 DEF Queued, Only, Each
    <3>2. DOMAIN Ascending(places) = 1..Cardinality(places)
      BY DEF Ascending, InOrder
    <3>3. places \subseteq {1}
      BY <2>1
    <3>4. IsFiniteSet({1}) /\ Cardinality({1}) = 1
      BY FS_Singleton
    <3>5. Cardinality(places) \in Nat /\ Cardinality(places) <= 1
      <4>1. IsFiniteSet(places) /\ Cardinality(places) <= Cardinality({1})
        BY <3>3, <3>4, FS_Subset
      <4>2. Cardinality(places) \in Nat
        BY <4>1, FS_CardinalityType
      <4> QED BY <3>4, <4>1, <4>2
    <3> HIDE DEF places
    <3>6. PICK c \in Nat : c = Cardinality(places) /\ c <= 1
      BY <3>5
    <3>7. m \in 1..c /\ n \in 1..c
      BY <2>2, <3>1, <3>2, <3>6
    <3> QED BY <3>6, <3>7
  <2> QED BY <1>8, <2>2 DEF Collides
<1>10. CASE sectionOrder = <<>>
  <2> DEFINE touched == {s \in DOMAIN tree : EntriesTouched(s) \/ Mutated(<<s, 0>>)}
             at      == Ascending(touched)
  <2>1. edits = [n \in DOMAIN at |-> [span |-> tree[at[n]].span, text |-> SectionText(at[n])]]
    BY <1>8, <1>10 DEF Replacements, Each
  <2>2. /\ IsSeq(at) /\ \A n \in DOMAIN at : at[n] \in touched
        /\ \A m, n \in DOMAIN at : m < n => at[m] < at[n]
    <3>1. touched \subseteq 1..Len(tree) /\ Len(tree) \in Nat
      BY <1>5 DEF Listed, IsSeq
    <3>2. touched \subseteq Nat
      BY <3>1
    <3>3. IsFiniteSet(touched)
      <4>1. IsFiniteSet(1..Len(tree))
        BY <3>1, FS_Interval
      <4> QED BY <3>1, <4>1, FS_Subset
    <3> HIDE DEF touched
    <3> QED BY <3>2, <3>3, AscendingSorts
  <2>3. \A n \in DOMAIN at : at[n] \in DOMAIN tree
    BY <2>2
  <2> HIDE DEF touched, at
  <2>4. DOMAIN edits = DOMAIN at /\ \A n \in DOMAIN edits : edits[n].span = tree[at[n]].span
    BY <2>1
  <2>5. IsSeq(edits)
    <3>1. DOMAIN edits = 1..Len(at) /\ Len(at) \in Nat
      BY <2>2, <2>4 DEF IsSeq
    <3>2. edits = [n \in 1..Len(at) |-> edits[n]]
      BY <2>1, <3>1
    <3> QED BY <3>1, <3>2, AsSequence
  <2>6. \A n \in DOMAIN edits : edits[n].span[1] \in Nat /\ edits[n].span[2] \in Nat
    BY <1>4, <2>3, <2>4
  <2>7. \A m, n \in DOMAIN edits : m < n => edits[m].span[2] <= edits[n].span[1]
    BY <1>7, <2>2, <2>3, <2>4
  <2> QED BY <1>8, <2>5, <2>6, <2>7, QueuedApart
<1> QED BY <1>9, <1>10

\* Rendering puts the same members in the same order between the same separators.
LEMMA GroupsRenderAlike ==
  ASSUME UNCHANGED doc, NEW spans, NEW order, NEW texts
  PROVE  RenderGroup(spans, order, texts)' = RenderGroup(spans, order, texts)
BY DEF RenderGroup, src

\* The replacements are made from the document and what is pending, and nothing else.
LEMMA ReplacementsStay ==
  ASSUME UNCHANGED <<doc, tree, group, sectionOrder, entryOrder>>
  PROVE  UNCHANGED Render(Queued(Replacements))
<1>1. \A k, i : BulletText(k, i)' = BulletText(k, i)
  BY DEF BulletText, BulletsAt, src
<1>2. ASSUME NEW k PROVE GroupText(k)' = GroupText(k)
  <2>1. BulletsAt(tree, k)' = BulletsAt(tree, k) /\ Kept(k)' = Kept(k)
    BY DEF BulletsAt, Kept
  <2>2. [i \in DOMAIN BulletsAt(tree, k) |-> BulletText(k, i)]' =
          [i \in DOMAIN BulletsAt(tree, k) |-> BulletText(k, i)]
    BY <1>1, <2>1
  <2> QED BY <2>1, <2>2, GroupsRenderAlike DEF GroupText
<1>3. \A k : Region(k)' = Region(k) /\ Mutated(k)' = Mutated(k)
  BY DEF Region, BulletsAt, Mutated
<1>4. \A s, e : EntryText(s, e)' = EntryText(s, e)
  BY <1>2, <1>3 DEF EntryText, WithGroup, src
<1>5. \A s : EntriesTouched(s)' = EntriesTouched(s)
  BY <1>3 DEF EntriesTouched
<1>6. ASSUME NEW s PROVE SectionText(s)' = SectionText(s)
  <2> DEFINE members == Spans(tree[s].entries)
             order   == IF entryOrder[s] = <<>> THEN Identity(Len(members)) ELSE entryOrder[s]
             texts   == [e \in DOMAIN members |-> EntryText(s, e)]
             rebuilt == RenderGroup(members, order, texts)
             text    == IF members # <<>> /\ EntriesTouched(s)
                        THEN Splice(Text(src, tree[s].span), tree[s].span[1], Covering(members), rebuilt)
                        ELSE Text(src, tree[s].span)
  <2>1. members' = members /\ order' = order /\ src' = src
    BY DEF src
  <2>2. texts' = texts
    BY <1>4, <2>1
  <2>3. rebuilt' = rebuilt
    BY <2>1, <2>2, GroupsRenderAlike
  <2>4. SectionText(s) = WithGroup(text, tree[s].span[1], <<s, 0>>)
    BY DEF SectionText
  <2>5. SectionText(s)' = WithGroup(text, tree[s].span[1], <<s, 0>>)'
    BY DEF SectionText
  <2> HIDE DEF members, order, texts, rebuilt
  <2>6. text' = text
    BY <1>5, <2>1, <2>3
  <2> HIDE DEF text
  <2>7. WithGroup(text, tree[s].span[1], <<s, 0>>)' = WithGroup(text, tree[s].span[1], <<s, 0>>)
    BY <1>2, <1>3, <2>6 DEF WithGroup
  <2> QED BY <2>4, <2>5, <2>7
<1>7. UNCHANGED Replacements
  <2> DEFINE texts == [s \in DOMAIN tree |-> SectionText(s)]
             whole == RenderGroup(Spans(tree), sectionOrder, texts)
  <2>1. texts' = texts
    BY <1>6
  <2>2. whole' = whole
    BY <2>1, GroupsRenderAlike
  <2>3. CASE sectionOrder # <<>>
    <3>1. Replacements = << [span |-> Covering(Spans(tree)), text |-> whole] >>
      BY <2>3 DEF Replacements
    <3>2. Replacements' = << [span |-> Covering(Spans(tree)), text |-> whole'] >>
      BY <2>3 DEF Replacements
    <3> QED BY <2>2, <3>1, <3>2
  <2>4. CASE sectionOrder = <<>>
    <3>1. PICK touched : touched = {s \in DOMAIN tree : EntriesTouched(s) \/ Mutated(<<s, 0>>)}
      OBVIOUS
    <3>2. PICK at : at = Ascending(touched)
      OBVIOUS
    <3>3. ASSUME NEW s
          PROVE  (EntriesTouched(s) \/ Mutated(<<s, 0>>))' <=> EntriesTouched(s) \/ Mutated(<<s, 0>>)
      BY <1>3, <1>5
    <3>4. touched = {s \in DOMAIN tree : EntriesTouched(s) \/ Mutated(<<s, 0>>)}'
      BY <3>1, <3>3
    <3>5. Replacements = [n \in DOMAIN at |-> [span |-> tree[at[n]].span, text |-> SectionText(at[n])]]
      BY <2>4, <3>1, <3>2 DEF Replacements, Each
    <3>6. Replacements' = [n \in DOMAIN at |-> [span |-> tree[at[n]].span, text |-> SectionText(at[n])']]
      BY <2>4, <3>2, <3>4 DEF Replacements, Each
    <3> QED BY <1>6, <3>5, <3>6
  <2> QED BY <2>3, <2>4
<1> QED BY <1>7 DEF Queued, Render, src

\* Sections are reordered only where there are sections.
LEMMA OrderedSections ==
  ASSUME Parsed, NEW order \in Orders(Ids(tree)), IsPermutation(order, Ids(tree))
  PROVE  Len(tree) \in Nat \ {0}
<1>1. Listed(tree) /\ Len(tree) \in Nat /\ DOMAIN tree = 1..Len(tree)
  BY ParsedIsListed DEF TreeListed, Listed, IsSeq
<1>2. SUFFICES ASSUME Len(tree) = 0 PROVE FALSE
  BY <1>1
<1>3. Ids(tree) = <<>>
  <2>1. DOMAIN tree = {}
    BY <1>1, <1>2
  <2> QED BY <2>1 DEF Ids, Each
<1>4. PICK bogus : order = <<bogus>>
  BY <1>3 DEF Orders
<1>5. Len(order) = 1 /\ Len(Ids(tree)) = 0
  <2>1. Len(<<bogus>>) = 1 /\ Len(<<>>) = 0
    OBVIOUS
  <2> QED BY <1>3, <1>4, <2>1
<1>6. Len(order) = Len(Ids(tree))
  BY Zenon DEF IsPermutation
<1>7. Len(order) # Len(Ids(tree))
  <2>1. 1 # 0
    OBVIOUS
  <2> QED BY <1>5, <2>1, Zenon
<1> QED BY <1>6, <1>7

\* When sections are pending in an order there are some.
SectionsToOrder == sectionOrder # <<>> => Len(tree) \in Nat \ {0}

LEMMA SectionsStayToOrder == Parsed /\ SectionsToOrder /\ [Next]_vars => SectionsToOrder'
<1> SUFFICES ASSUME Parsed, SectionsToOrder, [Next]_vars PROVE SectionsToOrder'
  OBVIOUS
<1>1. UNCHANGED tree
  BY DEF Next, vars, ApplyEdit, NextEdit, ReorderSections, ReorderEntries, ReorderEntriesNowhere,
         ReorderBullets, RewriteBullet, DropBullet, Emit
<1>2. CASE UNCHANGED sectionOrder
  BY <1>1, <1>2 DEF SectionsToOrder
<1>3. ASSUME NEW order \in Orders(Ids(tree)), ReorderSections(order) PROVE SectionsToOrder'
  <2>1. CASE IsPermutation(order, Ids(tree))
    BY <1>1, <2>1, OrderedSections DEF SectionsToOrder
  <2>2. CASE ~IsPermutation(order, Ids(tree))
    BY <1>2, <1>3, <2>2 DEF ReorderSections, Refuse
  <2> QED BY <2>1, <2>2
<1> QED BY <1>2, <1>3 DEF Next, vars, ApplyEdit, ReorderEntries, ReorderEntriesNowhere,
                          ReorderBullets, RewriteBullet, DropBullet, Emit, Refuse

\* The replacements are of places in the source.
LEMMA ReplacementsWithin ==
  ASSUME Parsed, SectionsToOrder
  PROVE  \A n \in DOMAIN Replacements : Contains2(Whole(src), Replacements[n].span)
<1>1. PICK text : text = doc.source
  OBVIOUS
<1>2. /\ Readable(text, BuildMask(text))
      /\ IsSeq(doc.profile.lists) /\ doc.profile.entryArgs \in Nat
  BY <1>1, DocumentIsRead DEF Parsed
<1>3. tree = ParseMasked(text, BuildMask(text), doc.profile)
  BY <1>1 DEF Parsed, ParseResume
<1>4. Chain(Spans(tree), Whole(text))
  BY <1>2, <1>3, SectionsFollow
<1>5. DOMAIN Spans(tree) = DOMAIN tree /\ \A s \in DOMAIN tree : Spans(tree)[s] = tree[s].span
  BY DEF Spans, Each
<1>6. \A s \in DOMAIN tree : Contains2(Whole(text), tree[s].span)
  BY <1>4, <1>5 DEF Chain
<1>7. Listed(tree) /\ Len(tree) \in Nat /\ DOMAIN tree = 1..Len(tree)
  BY ParsedIsListed DEF TreeListed, Listed, IsSeq
<1>8. PICK edits : edits = Replacements
  OBVIOUS
<1>9. CASE sectionOrder # <<>>
  <2>1. PICK new : edits = <<new>> /\ new.span = Covering(Spans(tree))
    <3> DEFINE it(text2) == [span |-> Covering(Spans(tree)), text |-> text2]
    <3>1. PICK whole : edits = <<it(whole)>>
      BY <1>8, <1>9 DEF Replacements
    <3>2. it(whole).span = Covering(Spans(tree))
      OBVIOUS
    <3> QED BY <3>1, <3>2
  <2>2. PICK n \in Nat : n = Len(tree) /\ n # 0
    BY <1>9 DEF SectionsToOrder
  <2>3. Len(Spans(tree)) = n
    <3>1. DOMAIN Spans(tree) = 1..n /\ Spans(tree) = [s \in 1..n |-> Spans(tree)[s]]
      BY <1>5, <1>7, <2>2 DEF Spans, Each
    <3> QED BY <2>2, <3>1, AsSequence
  <2>4. 1 \in DOMAIN tree /\ n \in DOMAIN tree
    BY <1>7, <2>2
  <2>5. Covering(Spans(tree)) = <<tree[1].span[1], tree[n].span[2]>>
    BY <1>5, <2>3, <2>4 DEF Covering
  <2>6. Contains2(Whole(text), Covering(Spans(tree)))
    BY <1>6, <2>4, <2>5 DEF Contains2
  <2> QED BY <1>1, <1>8, <2>1, <2>6 DEF src
<1>10. CASE sectionOrder = <<>>
  <2> DEFINE touched == {s \in DOMAIN tree : EntriesTouched(s) \/ Mutated(<<s, 0>>)}
             at      == Ascending(touched)
  <2>1. edits = [n \in DOMAIN at |-> [span |-> tree[at[n]].span, text |-> SectionText(at[n])]]
    BY <1>8, <1>10 DEF Replacements, Each
  <2>2. \A n \in DOMAIN at : at[n] \in touched
    <3>1. touched \subseteq 1..Len(tree) /\ IsFiniteSet(1..Len(tree))
      BY <1>7, FS_Interval
    <3> HIDE DEF touched
    <3>2. IsFiniteSet(touched)
      BY <3>1, FS_Subset
    <3>3. touched \subseteq Nat
      BY <1>7, <3>1
    <3> QED BY <3>2, <3>3, AscendingSorts
  <2>3. \A n \in DOMAIN at : at[n] \in DOMAIN tree
    BY <2>2
  <2> HIDE DEF touched, at
  <2> QED BY <1>1, <1>6, <1>8, <2>1, <2>3 DEF src
<1> QED BY <1>9, <1>10

\* For every document and plan, rendering never raises: the replacements that apply.py hands to
\* the edit buffer are of places in the source and no two of them overlap (editbuffer.py:44-53),
\* in any state of the plan, and what comes out is the source with the replacements put in.
RenderingSucceeds ==
  /\ \A n \in DOMAIN Replacements : Contains2(Whole(src), Replacements[n].span)
  /\ ~Collides(Queued(Replacements))
  /\ out # <<>> => out = <<Render(Queued(Replacements))>>
THEOREM EditsNeverCollide == Spec => []RenderingSucceeds
<1>1. Init => Parsed /\ SectionsToOrder /\ out = <<>>
  BY DEF Init, Parsed, SectionsToOrder
<1>2. Parsed' /\ SectionsToOrder' /\ RenderingSucceeds /\ [Next]_vars => RenderingSucceeds'
  <2> SUFFICES ASSUME Parsed', SectionsToOrder', RenderingSucceeds, [Next]_vars PROVE RenderingSucceeds'
    OBVIOUS
  <2>1. /\ ~Collides(Queued(Replacements))'
        /\ (\A n \in DOMAIN Replacements : Contains2(Whole(src), Replacements[n].span))'
    BY NothingCollides, ReplacementsWithin, PTL
  <2>2. CASE UNCHANGED vars
    <3>1. UNCHANGED Render(Queued(Replacements)) /\ UNCHANGED out
      BY <2>2, ReplacementsStay DEF vars
    <3> QED BY <2>1, <3>1 DEF RenderingSucceeds
  <2>3. CASE ApplyEdit
    <3>1. out' = <<>>
      BY <2>3 DEF ApplyEdit, NextEdit, ReorderSections, ReorderEntries, ReorderEntriesNowhere,
                  ReorderBullets, RewriteBullet, DropBullet
    <3> QED BY <2>1, <3>1 DEF RenderingSucceeds
  <2>4. CASE Emit
    <3>1. out' = <<Render(Queued(Replacements))>>
      BY <2>4 DEF Emit, RenderingSucceeds
    <3>2. UNCHANGED Render(Queued(Replacements))
      BY <2>4, ReplacementsStay DEF Emit
    <3> QED BY <2>1, <3>1, <3>2 DEF RenderingSucceeds
  <2> QED BY <2>2, <2>3, <2>4 DEF Next
<1>3. Init => RenderingSucceeds
  BY <1>1, NothingCollides, ReplacementsWithin DEF RenderingSucceeds
<1> QED BY <1>1, <1>2, <1>3, SectionsStayToOrder, TreeStays, PTL DEF Spec

(* -------------------------------- Counting -------------------------------- *)

\* Renaming the members of a finite set does not change how many there are.
LEMMA Renamed ==
  ASSUME NEW S, IsFiniteSet(S), NEW f, DOMAIN f = S, f = [x \in S |-> f[x]],
         \A x, y \in S : f[x] = f[y] => x = y, NEW T, T = {f[x] : x \in S}
  PROVE  IsFiniteSet(T) /\ Cardinality(T) = Cardinality(S)
<1>1. f \in [S -> T]
  OBVIOUS
<1>2. f \in Injection(S, T)
  BY <1>1 DEF Injection, IsInjective
<1>3. f \in Surjection(S, T)
  BY <1>1 DEF Surjection
<1>4. ExistsBijection(S, T)
  BY <1>2, <1>3 DEF ExistsBijection, Bijection
<1> QED BY <1>4, FS_Bijection

\* The places of a lexeme in a sequence.
At(s, x) == {i \in DOMAIN s : s[i] = x}

\* A sequence has a lexeme at finitely many places.
LEMMA AtIsFinite ==
  ASSUME NEW S, NEW s \in Seq(S), NEW x
  PROVE  At(s, x) \subseteq 1..Len(s) /\ IsFiniteSet(At(s, x)) /\ Cardinality(At(s, x)) \in Nat
<1>1. At(s, x) \subseteq 1..Len(s) /\ Len(s) \in Nat
  BY DEF At
<1>2. IsFiniteSet(1..Len(s))
  BY <1>1, FS_Interval
<1>3. IsFiniteSet(At(s, x))
  BY <1>1, <1>2, FS_Subset
<1> QED BY <1>1, <1>3, FS_CardinalityType

\* A lexeme is in two texts put together as often as in both of them.
LEMMA CountJoined ==
  ASSUME NEW S, NEW s \in Seq(S), NEW t \in Seq(S), NEW x
  PROVE  /\ Count(s \o t, x) = Count(s, x) + Count(t, x)
         /\ Count(s, x) \in Nat /\ Count(t, x) \in Nat
<1> DEFINE B == At(t, x)
           f == [j \in B |-> Len(s) + j]
           C == {f[j] : j \in B}
<1>1. PICK n \in Nat, m \in Nat : n = Len(s) /\ m = Len(t)
  OBVIOUS
<1>2. /\ s \o t \in Seq(S) /\ Len(s \o t) = n + m
      /\ \A i \in 1..(n + m) : (s \o t)[i] = IF i <= n THEN s[i] ELSE t[i - n]
  BY <1>1, ConcatProperties
<1>3. /\ At(s, x) \subseteq 1..n /\ IsFiniteSet(At(s, x)) /\ Cardinality(At(s, x)) \in Nat
      /\ B \subseteq 1..m /\ IsFiniteSet(B) /\ Cardinality(B) \in Nat
  BY <1>1, AtIsFinite
<1>4. IsFiniteSet(C) /\ Cardinality(C) = Cardinality(B)
  <2>1. f = [j \in B |-> f[j]] /\ DOMAIN f = B
    OBVIOUS
  <2>2. \A i, j \in B : f[i] = f[j] => i = j
    BY <1>1, <1>3
  <2>3. C = {f[j] : j \in B}
    OBVIOUS
  <2>4. IsFiniteSet(B)
    BY <1>3
  <2> HIDE DEF f, C, B
  <2> QED BY <2>1, <2>2, <2>3, <2>4, Renamed
<1>5. At(s \o t, x) = At(s, x) \cup C
  <2>1. DOMAIN (s \o t) = 1..(n + m)
    BY <1>2
  <2>2. DOMAIN s = 1..n /\ DOMAIN t = 1..m
    BY <1>1
  <2>3. ASSUME NEW i \in At(s \o t, x) PROVE i \in At(s, x) \cup C
    <3>1. i \in 1..(n + m) /\ (s \o t)[i] = x
      BY <2>1, <2>3 DEF At
    <3>2. CASE i <= n
      BY <1>2, <2>2, <3>1, <3>2 DEF At
    <3>3. CASE i > n
      <4>1. i - n \in 1..m /\ t[i - n] = x
        BY <1>2, <3>1, <3>3
      <4>2. i - n \in B /\ f[i - n] = i
        BY <1>1, <2>2, <3>1, <4>1 DEF At
      <4> QED BY <4>2
    <3> QED BY <3>1, <3>2, <3>3
  <2>4. ASSUME NEW i \in At(s, x) PROVE i \in At(s \o t, x)
    BY <1>2, <2>1, <2>2, <2>4 DEF At
  <2>5. ASSUME NEW j \in B PROVE f[j] \in At(s \o t, x)
    <3>1. j \in 1..m /\ t[j] = x
      BY <2>2 DEF At
    <3>2. f[j] \in 1..(n + m) /\ ~(f[j] <= n) /\ f[j] - n = j
      BY <1>1, <3>1
    <3> QED BY <1>2, <2>1, <3>1, <3>2 DEF At
  <2> QED BY <2>3, <2>4, <2>5
<1>6. At(s, x) \cap C = {}
  BY <1>1, <1>3
<1>7. Cardinality(At(s \o t, x)) = Cardinality(At(s, x)) + Cardinality(C)
  <2> HIDE DEF C, B
  <2>1. Cardinality(At(s, x) \cap C) = 0
    BY <1>6, FS_EmptySet
  <2>2. Cardinality(At(s, x) \cup C) = Cardinality(At(s, x)) + Cardinality(C) - Cardinality(At(s, x) \cap C)
    BY <1>3, <1>4, FS_Union
  <2> QED BY <1>3, <1>4, <1>5, <2>1, <2>2
<1>8. \A r : Count(r, x) = Cardinality(At(r, x))
  BY DEF Count, At
<1> QED BY <1>3, <1>4, <1>7, <1>8

\* Nothing is in no text.
LEMMA CountNone == ASSUME NEW x PROVE Count(<<>>, x) = 0
<1>1. {i \in DOMAIN <<>> : <<>>[i] = x} = {}
  OBVIOUS
<1> QED BY <1>1, FS_EmptySet DEF Count

\* Every piece is put together from two texts.
Zipped(S, n, P, g, t) == \A i \in 1..n : g[i] \in Seq(S) /\ t[i] \in Seq(S) /\ P[i] = g[i] \o t[i]

\* When every piece is put together from two, so is what they come to, as far as counts go.
LEMMA CountSplit ==
  ASSUME NEW S, NEW n \in Nat, NEW P, NEW g, NEW t, Zipped(S, n, P, g, t), NEW x
  PROVE  Count(Glue(P, 1, n + 1), x) = Count(Glue(g, 1, n + 1), x) + Count(Glue(t, 1, n + 1), x)
<1>0. \A i \in 1..n : g[i] \in Seq(S) /\ t[i] \in Seq(S) /\ P[i] = g[i] \o t[i]
  BY DEF Zipped
<1> DEFINE Q == {k \in Int : Count(Glue(P, 1, k), x) = Count(Glue(g, 1, k), x) + Count(Glue(t, 1, k), x)}
<1>1. 1 \in Q
  <2>1. Glue(P, 1, 1) = <<>> /\ Glue(g, 1, 1) = <<>> /\ Glue(t, 1, 1) = <<>>
    BY GlueNone
  <2> QED BY <2>1, CountNone
<1>2. ASSUME NEW k \in 1..((n + 1) - 1), k \in Q PROVE k + 1 \in Q
  <2>0. k \in Int /\ 1 \in Int /\ 1 <= k /\ k \in 1..n
    OBVIOUS
  <2>1. /\ Glue(P, 1, k + 1) = Glue(P, 1, k) \o P[k]
        /\ Glue(g, 1, k + 1) = Glue(g, 1, k) \o g[k]
        /\ Glue(t, 1, k + 1) = Glue(t, 1, k) \o t[k]
    BY <2>0, GlueStep
  <2>2. g[k] \in Seq(S) /\ t[k] \in Seq(S) /\ P[k] = g[k] \o t[k] /\ P[k] \in Seq(S)
    BY <1>0, <2>0, ConcatProperties
  <2>3. Glue(P, 1, k) \in Seq(S) /\ Glue(g, 1, k) \in Seq(S) /\ Glue(t, 1, k) \in Seq(S)
    <3>1. \A i \in 1..(k - 1) : g[i] \in Seq(S) /\ t[i] \in Seq(S) /\ P[i] \in Seq(S)
      <4>1. \A i \in 1..(k - 1) : i \in 1..n
        BY <2>0
      <4>2. \A i \in 1..n : g[i] \o t[i] \in Seq(S)
        BY <1>0, ConcatProperties
      <4> QED BY <1>0, <4>1, <4>2, Zenon
    <3> QED BY <2>0, <3>1, GlueType
  <2>4. /\ Count(Glue(P, 1, k) \o P[k], x) = Count(Glue(P, 1, k), x) + Count(P[k], x)
        /\ Count(Glue(P, 1, k), x) \in Nat
    <3>1. Glue(P, 1, k) \in Seq(S) /\ P[k] \in Seq(S)
      BY <2>2, <2>3
    <3> QED BY <3>1, CountJoined
  <2>5. /\ Count(Glue(g, 1, k) \o g[k], x) = Count(Glue(g, 1, k), x) + Count(g[k], x)
        /\ Count(Glue(g, 1, k), x) \in Nat
    BY <2>2, <2>3, CountJoined
  <2>6. /\ Count(Glue(t, 1, k) \o t[k], x) = Count(Glue(t, 1, k), x) + Count(t[k], x)
        /\ Count(Glue(t, 1, k), x) \in Nat
    BY <2>2, <2>3, CountJoined
  <2>7. Count(P[k], x) = Count(g[k], x) + Count(t[k], x) /\ Count(g[k], x) \in Nat /\ Count(t[k], x) \in Nat
    BY <2>2, CountJoined
  <2>8. Count(Glue(P, 1, k), x) = Count(Glue(g, 1, k), x) + Count(Glue(t, 1, k), x)
    BY <1>2
  <2>9. k + 1 \in Int
    OBVIOUS
  <2>10. PICK a \in Nat, b \in Nat, c \in Nat, d \in Nat :
           /\ a = Count(Glue(g, 1, k), x) /\ b = Count(Glue(t, 1, k), x)
           /\ c = Count(g[k], x) /\ d = Count(t[k], x)
    BY <2>5, <2>6, <2>7
  <2>11. Count(Glue(P, 1, k + 1), x) = (a + b) + (c + d)
    BY <2>1, <2>4, <2>7, <2>8, <2>10
  <2>12. Count(Glue(g, 1, k + 1), x) = a + c /\ Count(Glue(t, 1, k + 1), x) = b + d
    BY <2>1, <2>5, <2>6, <2>10
  <2> QED BY <2>9, <2>11, <2>12
<1>3. n + 1 \in Q
  <2> HIDE DEF Q
  <2>1. 1 \in Int /\ n + 1 \in Int /\ 1 <= n + 1
    OBVIOUS
  <2> QED BY <1>1, <1>2, <2>1, Upward
<1> QED BY <1>3

\* Where a lexeme is in the texts, each place with the number of the text.
InTexts(texts, n, x) == {p \in (1..n) \X Nat : p[2] \in DOMAIN texts[p[1]] /\ texts[p[1]][p[2]] = x}

\* Counting in texts that follow each other is counting places in them.
LEMMA CountTexts ==
  ASSUME NEW S, NEW n \in Nat, NEW texts, \A i \in 1..n : texts[i] \in Seq(S), NEW x
  PROVE  /\ Count(Glue(texts, 1, n + 1), x) = Cardinality(InTexts(texts, n, x))
         /\ IsFiniteSet(InTexts(texts, n, x))
<1> DEFINE Q == {k \in 0..n : /\ Count(Glue(texts, 1, k + 1), x) = Cardinality(InTexts(texts, k, x))
                              /\ IsFiniteSet(InTexts(texts, k, x))}
<1>1. 0 \in Q
  <2>1. Glue(texts, 1, 1) = <<>>
    BY GlueNone
  <2>2. InTexts(texts, 0, x) = {}
    BY DEF InTexts
  <2> QED BY <2>1, <2>2, CountNone, FS_EmptySet
<1>2. ASSUME NEW k \in 0..(n - 1), k \in Q PROVE k + 1 \in Q
  <2>1. PICK m \in 1..n : m = k + 1
    OBVIOUS
  <2> DEFINE A == InTexts(texts, k, x)
             B == At(texts[m], x)
             f == [j \in B |-> <<m, j>>]
             C == {f[j] : j \in B}
  <2>2. texts[m] \in Seq(S)
    OBVIOUS
  <2>3. B \subseteq 1..Len(texts[m]) /\ IsFiniteSet(B) /\ Cardinality(B) \in Nat
    BY <2>2, AtIsFinite
  <2>4. IsFiniteSet(C) /\ Cardinality(C) = Cardinality(B)
    <3>1. f = [j \in B |-> f[j]] /\ DOMAIN f = B
      OBVIOUS
    <3>2. \A i, j \in B : f[i] = f[j] => i = j
      OBVIOUS
    <3>3. C = {f[j] : j \in B}
      OBVIOUS
    <3> HIDE DEF f, C, B
    <3> QED BY <2>3, <3>1, <3>2, <3>3, Renamed
  <2>5. IsFiniteSet(A) /\ Count(Glue(texts, 1, k + 1), x) = Cardinality(A)
    BY <1>2
  <2>6. InTexts(texts, m, x) = A \cup C
    <3>1. ASSUME NEW p \in InTexts(texts, m, x) PROVE p \in A \cup C
      <4>1. p \in (1..m) \X Nat /\ p[2] \in DOMAIN texts[p[1]] /\ texts[p[1]][p[2]] = x
        BY <3>1 DEF InTexts
      <4>2. p = <<p[1], p[2]>> /\ p[1] \in 1..m /\ p[2] \in Nat
        BY <4>1
      <4>3. CASE p[1] = m
        <5>1. p[2] \in B /\ f[p[2]] = p
          BY <4>1, <4>2, <4>3 DEF At
        <5> QED BY <5>1
      <4>4. CASE p[1] # m
        <5>1. p[1] \in 1..k
          BY <2>1, <4>2, <4>4
        <5> QED BY <4>1, <4>2, <5>1 DEF InTexts
      <4> QED BY <4>3, <4>4
    <3>2. ASSUME NEW p \in A PROVE p \in InTexts(texts, m, x)
      <4>1. p \in (1..k) \X Nat /\ p[2] \in DOMAIN texts[p[1]] /\ texts[p[1]][p[2]] = x
        BY <3>2 DEF InTexts
      <4>2. p \in (1..m) \X Nat
        BY <2>1, <4>1
      <4> QED BY <4>1, <4>2 DEF InTexts
    <3>3. ASSUME NEW j \in B PROVE f[j] \in InTexts(texts, m, x)
      <4>1. j \in DOMAIN texts[m] /\ texts[m][j] = x /\ j \in Nat
        BY <2>2, <2>3 DEF At
      <4>2. f[j] = <<m, j>> /\ <<m, j>> \in (1..m) \X Nat
        BY <2>1, <4>1
      <4>3. <<m, j>>[1] = m /\ <<m, j>>[2] = j
        OBVIOUS
      <4>4. <<m, j>> \in InTexts(texts, m, x)
        BY <4>1, <4>2, <4>3 DEF InTexts
      <4> QED BY <4>2, <4>4
    <3> QED BY <3>1, <3>2, <3>3
  <2>7. A \cap C = {}
    <3>1. ASSUME NEW p \in A, p \in C PROVE FALSE
      <4>1. p[1] \in 1..k
        BY <3>1 DEF InTexts
      <4>2. PICK j \in B : p = <<m, j>>
        BY <3>1
      <4> QED BY <2>1, <4>1, <4>2
    <3> QED BY <3>1
  <2> HIDE DEF A, B, C, f
  <2>8. /\ IsFiniteSet(A \cup C) /\ Cardinality(A) \in Nat /\ Cardinality(C) \in Nat
        /\ Cardinality(A \cup C) = Cardinality(A) + Cardinality(C)
    <3>1. Cardinality(A \cap C) = 0
      BY <2>7, FS_EmptySet
    <3>2. IsFiniteSet(A \cup C)
            /\ Cardinality(A \cup C) = Cardinality(A) + Cardinality(C) - Cardinality(A \cap C)
      BY <2>4, <2>5, FS_Union
    <3>3. Cardinality(A) \in Nat /\ Cardinality(C) \in Nat
      BY <2>4, <2>5, FS_CardinalityType
    <3> QED BY <3>1, <3>2, <3>3
  <2>9. Count(Glue(texts, 1, m + 1), x) = Count(Glue(texts, 1, m), x) + Count(texts[m], x)
    <3>1. 1 \in Int /\ m \in Int /\ 1 <= m
      OBVIOUS
    <3>2. Glue(texts, 1, m + 1) = Glue(texts, 1, m) \o texts[m]
      BY <3>1, GlueStep
    <3>3. Glue(texts, 1, m) \in Seq(S)
      <4>1. \A i \in 1..(m - 1) : texts[i] \in Seq(S)
        OBVIOUS
      <4> QED BY <3>1, <4>1, GlueType
    <3>4. Count(Glue(texts, 1, m) \o texts[m], x) = Count(Glue(texts, 1, m), x) + Count(texts[m], x)
      BY <2>2, <3>3, CountJoined
    <3> QED BY <3>2, <3>4
  <2>10. Count(texts[m], x) = Cardinality(B)
    BY DEF Count, At, B
  <2>11. Cardinality(InTexts(texts, m, x)) = Cardinality(A) + Cardinality(B)
    BY <2>4, <2>6, <2>8
  <2>12. IsFiniteSet(InTexts(texts, m, x))
    BY <2>6, <2>8
  <2>13. Count(Glue(texts, 1, m + 1), x) = Cardinality(A) + Cardinality(B)
    BY <2>1, <2>5, <2>9, <2>10
  <2>14. m \in 0..n /\ m = k + 1
    BY <2>1
  <2> QED BY <2>11, <2>12, <2>13, <2>14
<1>3. n \in Q
  <2> HIDE DEF Q
  <2>1. \A k \in 0..n : k \in Q
    BY <1>1, <1>2, UpTo
  <2> QED BY <2>1
<1> QED BY <1>3

\* A permutation of 1..n.
Permutes(order, n) ==
  /\ \A i \in 1..n : order[i] \in 1..n
  /\ \A i, j \in 1..n : order[i] = order[j] => i = j
  /\ \A i \in 1..n : \E j \in 1..n : order[j] = i

\* The texts in another order.
Moved(texts, order, n) == [i \in 1..n |-> texts[order[i]]]

\* In whatever order texts are put together, every lexeme is there as often.
LEMMA CountInAnyOrder ==
  ASSUME NEW S, NEW n \in Nat, NEW texts, \A i \in 1..n : texts[i] \in Seq(S),
         NEW order, Permutes(order, n), NEW x
  PROVE  Count(Glue(Moved(texts, order, n), 1, n + 1), x) = Count(Glue(texts, 1, n + 1), x)
<1>0. PICK moved : moved = Moved(texts, order, n)
  OBVIOUS
<1> DEFINE A == InTexts(moved, n, x)
           B == InTexts(texts, n, x)
           f == [p \in A |-> <<order[p[1]], p[2]>>]
<1>1. \A i \in 1..n : moved[i] = texts[order[i]] /\ moved[i] \in Seq(S)
  BY <1>0 DEF Moved, Permutes
<1>2. IsFiniteSet(A) /\ Count(Glue(moved, 1, n + 1), x) = Cardinality(A)
  <2>1. \A i \in 1..n : moved[i] \in Seq(S)
    BY <1>1
  <2> QED BY <2>1, CountTexts
<1>3. Count(Glue(texts, 1, n + 1), x) = Cardinality(B)
  BY CountTexts
<1>4. \A p \in A : p = <<p[1], p[2]>> /\ p[1] \in 1..n /\ p[2] \in Nat
  <2>1. \A p \in (1..n) \X Nat : p = <<p[1], p[2]>> /\ p[1] \in 1..n /\ p[2] \in Nat
    OBVIOUS
  <2> QED BY <2>1 DEF InTexts
<1>5. \A p, q \in A : f[p] = f[q] => p = q
  <2> HIDE DEF A
  <2>1. ASSUME NEW p \in A, NEW q \in A, f[p] = f[q] PROVE p = q
    <3>1. <<order[p[1]], p[2]>> = <<order[q[1]], q[2]>>
      BY <2>1
    <3>2. order[p[1]] = order[q[1]] /\ p[2] = q[2]
      BY <3>1
    <3>3. p[1] = q[1]
      BY <1>4, <3>2 DEF Permutes
    <3> QED BY <1>4, <3>2, <3>3
  <2> QED BY <2>1
<1>6. B = {f[p] : p \in A}
  <2>1. ASSUME NEW p \in A PROVE f[p] \in B
    <3>1. p = <<p[1], p[2]>> /\ p[1] \in 1..n /\ p[2] \in Nat
      BY <1>4
    <3>2. p[2] \in DOMAIN moved[p[1]] /\ moved[p[1]][p[2]] = x
      BY DEF InTexts
    <3>3. PICK i, j : i = order[p[1]] /\ j = p[2] /\ f[p] = <<i, j>>
      OBVIOUS
    <3>4. i \in 1..n /\ j \in Nat /\ j \in DOMAIN texts[i] /\ texts[i][j] = x
      BY <1>1, <3>1, <3>2, <3>3 DEF Permutes
    <3>5. <<i, j>> \in (1..n) \X Nat /\ <<i, j>>[1] = i /\ <<i, j>>[2] = j
      BY <3>4
    <3>6. <<i, j>> \in B
      BY <3>4, <3>5 DEF InTexts
    <3> QED BY <3>3, <3>6
  <2>2. ASSUME NEW q \in B PROVE \E p \in A : f[p] = q
    <3>0. q \in (1..n) \X Nat
      BY DEF InTexts
    <3>1. q = <<q[1], q[2]>> /\ q[1] \in 1..n /\ q[2] \in Nat
      BY <3>0
    <3>2. q[2] \in DOMAIN texts[q[1]] /\ texts[q[1]][q[2]] = x
      BY DEF InTexts
    <3>3. PICK i \in 1..n : order[i] = q[1]
      BY <3>1 DEF Permutes
    <3>4. PICK j : j = q[2]
      OBVIOUS
    <3>5. <<i, j>> \in (1..n) \X Nat /\ <<i, j>>[1] = i /\ <<i, j>>[2] = j
      BY <3>1, <3>4
    <3>6. j \in DOMAIN moved[i] /\ moved[i][j] = x
      BY <1>1, <3>2, <3>3, <3>4
    <3>7. <<i, j>> \in A
      BY <3>5, <3>6 DEF InTexts
    <3>8. f[<<i, j>>] = <<order[<<i, j>>[1]], <<i, j>>[2]>>
      BY <3>7
    <3>9. f[<<i, j>>] = q
      BY <3>1, <3>3, <3>4, <3>5, <3>8
    <3> QED BY <3>7, <3>9
  <2> QED BY <2>1, <2>2
<1>7. Cardinality(B) = Cardinality(A)
  <2>1. f = [p \in A |-> f[p]] /\ DOMAIN f = A
    OBVIOUS
  <2>2. IsFiniteSet(A)
    BY <1>2
  <2> HIDE DEF A, B, f
  <2> QED BY <1>5, <1>6, <2>1, <2>2, Renamed
<1> QED BY <1>0, <1>2, <1>3, <1>7

(* -------------------------- The same text, or mixed ----------------------- *)

\* Two texts are the same; or, where order does not matter, have every lexeme as often.
Same(exact, s, t) == IF exact THEN s = t ELSE \A x : Count(s, x) = Count(t, x)

\* Texts that are alike can be joined to texts that are alike.
LEMMA SameJoined ==
  ASSUME NEW S, NEW exact \in BOOLEAN, NEW a \in Seq(S), NEW b \in Seq(S), NEW c \in Seq(S), NEW d \in Seq(S),
         Same(exact, a, b), Same(exact, c, d)
  PROVE  Same(exact, a \o c, b \o d)
<1>1. CASE exact
  BY <1>1 DEF Same
<1>2. CASE ~exact
  <2>1. ASSUME NEW x PROVE Count(a \o c, x) = Count(b \o d, x)
    <3>1. Count(a, x) = Count(b, x) /\ Count(c, x) = Count(d, x)
      BY <1>2 DEF Same
    <3>2. Count(a \o c, x) = Count(a, x) + Count(c, x)
      BY CountJoined
    <3>3. Count(b \o d, x) = Count(b, x) + Count(d, x)
      BY CountJoined
    <3> QED BY <3>1, <3>2, <3>3
  <2> QED BY <1>2, <2>1 DEF Same
<1> QED BY <1>1, <1>2

\* One piece is what it is.
LEMMA GlueOne ==
  ASSUME NEW S, NEW P, NEW a \in Int, P[a] \in Seq(S)
  PROVE  Glue(P, a, a + 1) = P[a]
<1>1. Glue(P, a, a + 1) = Glue(P, a, a) \o P[a]
  BY GlueStep
<1>2. Glue(P, a, a) = <<>>
  BY GlueNone
<1>3. <<>> \o P[a] = P[a]
  BY ConcatEmptySeq
<1> QED BY <1>1, <1>2, <1>3

(* ------------------------------ Spans replaced ---------------------------- *)

\* Spans of a text of n - 1 lexemes that do not meet.
SpansApart(R, K, n) ==
  /\ \A k \in K : R[k][1] \in Nat /\ R[k][2] \in Nat /\ 1 <= R[k][1] /\ R[k][1] < R[k][2] /\ R[k][2] <= n
  /\ \A k, l \in K : k # l => R[k][2] <= R[l][1] \/ R[l][2] <= R[k][1]

\* What differs only within spans, and in each of them comes to the same, comes to the same.
LEMMA AlikeOutside ==
  ASSUME NEW S, NEW exact \in BOOLEAN, NEW n \in Nat \ {0}, NEW P, NEW W,
         \A i \in 1..(n - 1) : P[i] \in Seq(S) /\ W[i] \in Seq(S),
         NEW R, NEW K, SpansApart(R, K, n),
         \A k \in K : Same(exact, Glue(P, R[k][1], R[k][2]), Glue(W, R[k][1], R[k][2])),
         \A i \in 1..(n - 1) : (\A k \in K : ~Within(i, R[k])) => P[i] = W[i]
  PROVE  Same(exact, Glue(P, 1, n), Glue(W, 1, n))
<1> DEFINE Cut(c) == \A k \in K : ~(R[k][1] < c /\ c < R[k][2])
           Q == {m \in Int : \A c \in 1..m : Cut(c) => Same(exact, Glue(P, 1, c), Glue(W, 1, c))}
<1>1. 1 \in Q
  <2>1. Glue(P, 1, 1) = <<>> /\ Glue(W, 1, 1) = <<>>
    BY GlueNone
  <2>2. \A c \in 1..1 : c = 1
    OBVIOUS
  <2> QED BY <2>1, <2>2 DEF Same
<1>2. ASSUME NEW m \in 1..(n - 1), m \in Q PROVE m + 1 \in Q
  <2>1. \A c \in 1..m : Cut(c) => Same(exact, Glue(P, 1, c), Glue(W, 1, c))
    BY <1>2
  <2> HIDE DEF Q
  <2>2. ASSUME Cut(m + 1) PROVE Same(exact, Glue(P, 1, m + 1), Glue(W, 1, m + 1))
    <3>1. CASE \E k \in K : Within(m, R[k])
      <4>1. PICK k \in K : Within(m, R[k])
        BY <3>1
      <4>2. PICK a \in Nat, b \in Nat : a = R[k][1] /\ b = R[k][2] /\ 1 <= a /\ a < b /\ b <= n
        BY DEF SpansApart
      <4>3. a <= m /\ b = m + 1
        <5>1. a <= m /\ m < b /\ ~(a < m + 1 /\ m + 1 < b)
          BY <2>2, <4>1, <4>2 DEF Within
        <5> QED BY <4>2, <5>1
      <4>4. Cut(a)
        <5>1. ASSUME NEW l \in K, R[l][1] < a, a < R[l][2] PROVE FALSE
          <6>1. l # k
            BY <4>2, <5>1
          <6>2. R[l][1] \in Nat /\ R[l][2] \in Nat
            BY DEF SpansApart
          <6>3. R[k][2] <= R[l][1] \/ R[l][2] <= R[k][1]
            BY <6>1 DEF SpansApart
          <6> QED BY <4>2, <5>1, <6>2, <6>3
        <5> QED BY <5>1
      <4>5. Same(exact, Glue(P, 1, a), Glue(W, 1, a))
        BY <2>1, <4>2, <4>3, <4>4
      <4>6. Same(exact, Glue(P, a, b), Glue(W, a, b))
        BY <4>2
      <4>7. \A i \in 1..(b - 1) : P[i] \in Seq(S) /\ W[i] \in Seq(S)
        BY <4>3
      <4>8. /\ Glue(P, 1, b) = Glue(P, 1, a) \o Glue(P, a, b)
            /\ Glue(W, 1, b) = Glue(W, 1, a) \o Glue(W, a, b)
        <5>1. 1 \in Int /\ a \in Int /\ b \in Int /\ 1 <= a /\ a <= b
          BY <4>2
        <5>2. \A i \in 1..(b - 1) : P[i] \in Seq(S)
          BY <4>7
        <5>3. \A i \in 1..(b - 1) : W[i] \in Seq(S)
          BY <4>7
        <5>4. Glue(P, 1, b) = Glue(P, 1, a) \o Glue(P, a, b)
          BY <5>1, <5>2, GlueJoin
        <5>5. Glue(W, 1, b) = Glue(W, 1, a) \o Glue(W, a, b)
          BY <5>1, <5>3, GlueJoin
        <5> QED BY <5>4, <5>5
      <4>9. /\ Glue(P, 1, a) \in Seq(S) /\ Glue(W, 1, a) \in Seq(S)
            /\ Glue(P, a, b) \in Seq(S) /\ Glue(W, a, b) \in Seq(S)
        <5>1. 1 \in Int /\ a \in Int /\ b \in Int /\ 1 <= a /\ a <= b
          BY <4>2
        <5>2. \A i \in 1..(a - 1) : P[i] \in Seq(S) /\ W[i] \in Seq(S)
          BY <4>2, <4>7
        <5>3. \A i \in a..(b - 1) : P[i] \in Seq(S) /\ W[i] \in Seq(S)
          BY <4>2, <4>7
        <5> QED BY <5>1, <5>2, <5>3, GlueType
      <4>10. Same(exact, Glue(P, 1, a) \o Glue(P, a, b), Glue(W, 1, a) \o Glue(W, a, b))
        BY <4>5, <4>6, <4>9, SameJoined
      <4> QED BY <4>3, <4>8, <4>10
    <3>2. CASE \A k \in K : ~Within(m, R[k])
      <4>1. P[m] = W[m] /\ P[m] \in Seq(S)
        BY <3>2
      <4>2. Cut(m)
        <5>1. ASSUME NEW k \in K, R[k][1] < m, m < R[k][2] PROVE FALSE
          <6>1. R[k][1] \in Nat
            BY DEF SpansApart
          <6>2. R[k][1] <= m
            BY <5>1, <6>1
          <6> QED BY <3>2, <5>1, <6>2 DEF Within
        <5> QED BY <5>1
      <4>3. Same(exact, Glue(P, 1, m), Glue(W, 1, m))
        BY <2>1, <4>2
      <4>4. Glue(P, 1, m + 1) = Glue(P, 1, m) \o P[m] /\ Glue(W, 1, m + 1) = Glue(W, 1, m) \o W[m]
        <5>1. 1 \in Int /\ m \in Int /\ 1 <= m
          OBVIOUS
        <5> QED BY <5>1, GlueStep
      <4>5. Glue(P, 1, m) \in Seq(S) /\ Glue(W, 1, m) \in Seq(S)
        <5>1. 1 \in Int /\ m \in Int /\ 1 <= m
          OBVIOUS
        <5>2. \A i \in 1..(m - 1) : P[i] \in Seq(S) /\ W[i] \in Seq(S)
          OBVIOUS
        <5> QED BY <5>1, <5>2, GlueType
      <4>6. Same(exact, P[m], W[m])
        BY <4>1 DEF Same
      <4>7. W[m] \in Seq(S)
        BY <4>1
      <4>8. Same(exact, Glue(P, 1, m) \o P[m], Glue(W, 1, m) \o W[m])
        BY <4>1, <4>3, <4>5, <4>6, <4>7, SameJoined
      <4> QED BY <4>4, <4>8
    <3> QED BY <3>1, <3>2
  <2>3. ASSUME NEW c \in 1..(m + 1), Cut(c) PROVE Same(exact, Glue(P, 1, c), Glue(W, 1, c))
    <3>1. c \in 1..m \/ c = m + 1
      OBVIOUS
    <3> QED BY <2>1, <2>2, <2>3, <3>1
  <2>4. m + 1 \in Int
    OBVIOUS
  <2> QED BY <2>3, <2>4 DEF Q
<1>3. n \in Q
  <2> HIDE DEF Q
  <2>1. 1 \in Int /\ n \in Int /\ 1 <= n
    OBVIOUS
  <2> QED BY <1>1, <1>2, <2>1, Upward
<1>4. Cut(n)
  <2>1. ASSUME NEW k \in K, n < R[k][2] PROVE FALSE
    <3>1. R[k][2] \in Nat /\ R[k][2] <= n
      BY DEF SpansApart
    <3> QED BY <2>1, <3>1
  <2> QED BY <2>1
<1>5. n \in 1..n
  OBVIOUS
<1> QED BY <1>3, <1>4, <1>5

\* A text in pieces: one lexeme each, but a text T[k] for every span R[k].
Spliced(text, R, T, K) ==
  [i \in 1..Len(text) |->
     IF \E k \in K : R[k][1] = i THEN T[CHOOSE k \in K : R[k][1] = i]
     ELSE IF \E k \in K : Within(i, R[k]) THEN <<>> ELSE <<text[i]>>]

\* A spliced text is made of texts.
LEMMA SplicedType ==
  ASSUME NEW S, NEW text \in Seq(S), NEW R, NEW T, NEW K, \A k \in K : T[k] \in Seq(S)
  PROVE  \A i \in 1..Len(text) : Spliced(text, R, T, K)[i] \in Seq(S)
<1> SUFFICES ASSUME NEW i \in 1..Len(text) PROVE Spliced(text, R, T, K)[i] \in Seq(S)
  OBVIOUS
<1>1. Spliced(text, R, T, K)[i] =
        IF \E k \in K : R[k][1] = i THEN T[CHOOSE k \in K : R[k][1] = i]
        ELSE IF \E k \in K : Within(i, R[k]) THEN <<>> ELSE <<text[i]>>
  BY DEF Spliced
<1>2. <<>> \in Seq(S)
  BY EmptySeq
<1>3. <<text[i]>> \in Seq(S)
  OBVIOUS
<1>4. CASE \E k \in K : R[k][1] = i
  <2>1. (CHOOSE k \in K : R[k][1] = i) \in K
    BY <1>4
  <2> QED BY <1>1, <1>4, <2>1
<1>5. CASE ~ \E k \in K : R[k][1] = i
  BY <1>1, <1>2, <1>3, <1>5
<1> QED BY <1>4, <1>5

\* At a span is the text that replaces it.
LEMMA SplicedAt ==
  ASSUME NEW S, NEW text \in Seq(S), NEW R, NEW T, NEW K, \A k \in K : T[k] \in Seq(S),
         SpansApart(R, K, Len(text) + 1), NEW k \in K
  PROVE  Glue(Spliced(text, R, T, K), R[k][1], R[k][2]) = T[k]
<1>1. PICK P : P = Spliced(text, R, T, K)
  OBVIOUS
<1>2. PICK a \in Nat, b \in Nat : a = R[k][1] /\ b = R[k][2] /\ 1 <= a /\ a < b /\ b <= Len(text) + 1
  BY DEF SpansApart
<1>3. \A i \in 1..Len(text) :
        P[i] = IF \E l \in K : R[l][1] = i THEN T[CHOOSE l \in K : R[l][1] = i]
               ELSE IF \E l \in K : Within(i, R[l]) THEN <<>> ELSE <<text[i]>>
  BY <1>1 DEF Spliced
<1>4. ASSUME NEW l \in K, NEW i \in a..(b - 1), R[l][1] = i PROVE l = k
  <2>1. SUFFICES ASSUME l # k PROVE FALSE
    OBVIOUS
  <2>2. R[l][1] \in Nat /\ R[l][2] \in Nat /\ R[l][1] < R[l][2]
    BY DEF SpansApart
  <2>3. R[k][2] <= R[l][1] \/ R[l][2] <= R[k][1]
    BY <2>1 DEF SpansApart
  <2> QED BY <1>2, <1>4, <2>2, <2>3
<1>5. a \in 1..Len(text) /\ a \in a..(b - 1)
  BY <1>2
<1>6. P[a] = T[k]
  <2>1. (CHOOSE l \in K : R[l][1] = a) = k
    BY <1>2, <1>4, <1>5
  <2>2. \E l \in K : R[l][1] = a
    BY <1>2
  <2>3. P[a] = IF \E l \in K : R[l][1] = a THEN T[CHOOSE l \in K : R[l][1] = a]
               ELSE IF \E l \in K : Within(a, R[l]) THEN <<>> ELSE <<text[a]>>
    BY <1>3, <1>5
  <2>4. P[a] = T[CHOOSE l \in K : R[l][1] = a]
    BY <2>2, <2>3
  <2> QED BY <2>1, <2>4
<1>7. ASSUME NEW i \in (a + 1)..(b - 1) PROVE P[i] = <<>>
  <2>1. i \in 1..Len(text) /\ i \in a..(b - 1) /\ i # a
    BY <1>2
  <2>2. ~ \E l \in K : R[l][1] = i
    BY <1>2, <1>4, <2>1
  <2>3. Within(i, R[k])
    BY <1>2, <2>1 DEF Within
  <2> QED BY <1>3, <2>1, <2>2, <2>3
<1>8. \A i \in a..(b - 1) : P[i] \in Seq(S)
  <2>1. \A i \in a..(b - 1) : i \in 1..Len(text)
    BY <1>2
  <2>2. \A i \in 1..Len(text) : P[i] \in Seq(S)
    BY <1>1, SplicedType
  <2> QED BY <2>1, <2>2
<1>9. a \in Int /\ a + 1 \in Int /\ b \in Int /\ a <= a + 1 /\ a + 1 <= b
  BY <1>2
<1>10. Glue(P, a, b) = Glue(P, a, a + 1) \o Glue(P, a + 1, b)
  BY <1>8, <1>9, GlueJoin
<1>11. Glue(P, a, a + 1) = T[k]
  <2>1. P[a] \in Seq(S)
    BY <1>6
  <2> QED BY <1>6, <1>9, <2>1, GlueOne
<1>12. Glue(P, a + 1, b) = <<>>
  BY <1>7, <1>9, GlueNothing
<1>13. T[k] \o <<>> = T[k]
  BY ConcatEmptySeq
<1> QED BY <1>1, <1>2, <1>10, <1>11, <1>12, <1>13

\* No span of K holds anything from a on and before b.
NoneWithin(R, K, a, b) == \A i \in a..(b - 1) : \A k \in K : ~Within(i, R[k])

\* Where no span is, the text is as it was.
LEMMA SplicedOff ==
  ASSUME NEW S, NEW text \in Seq(S), NEW R, NEW T, NEW K, SpansApart(R, K, Len(text) + 1),
         NEW a \in Nat \ {0}, NEW b \in Nat, a <= b, b <= Len(text) + 1,
         NoneWithin(R, K, a, b)
  PROVE  Glue(Spliced(text, R, T, K), a, b) = Text(text, <<a, b>>)
<1>1. PICK P : P = Spliced(text, R, T, K)
  OBVIOUS
<1>2. ASSUME NEW i \in a..(b - 1) PROVE P[i] = <<text[i]>>
  <2>1. i \in 1..Len(text)
    OBVIOUS
  <2>2. ~ \E k \in K : R[k][1] = i
    <3>1. ASSUME NEW k \in K, R[k][1] = i PROVE FALSE
      <4>1. Within(i, R[k])
        BY <3>1 DEF Within, SpansApart
      <4> QED BY <4>1 DEF NoneWithin
    <3> QED BY <3>1
  <2>3. ~ \E k \in K : Within(i, R[k])
    BY DEF NoneWithin
  <2> QED BY <1>1, <2>1, <2>2, <2>3 DEF Spliced
<1>3. Glue(P, a, b) = Text(text, <<a, b>>)
  BY <1>2, GlueText
<1> QED BY <1>1, <1>3

\* A text of a text.
LEMMA TextType ==
  ASSUME NEW S, NEW text \in Seq(S), NEW a \in Nat \ {0}, NEW b \in Nat, b <= Len(text) + 1
  PROVE  Text(text, <<a, b>>) \in Seq(S)
<1>1. a \in Int /\ b - 1 \in Int
  OBVIOUS
<1>2. \A i \in a..(b - 1) : text[i] \in S
  <2>1. \A i \in 1..Len(text) : text[i] \in S
    OBVIOUS
  <2>2. \A i \in a..(b - 1) : i \in 1..Len(text)
    OBVIOUS
  <2> QED BY <2>1, <2>2
<1>3. SubSeq(text, a, b - 1) \in Seq(S)
  BY <1>1, <1>2, SubSeqProperties
<1> QED BY <1>3 DEF Text

\* What comes to the same between one cut and the next comes to the same from the first to the
\* last of them.
LEMMA AlikeBetweenCuts ==
  ASSUME NEW S, NEW exact \in BOOLEAN, NEW m \in Nat, NEW W, \A i \in 1..m : W[i] \in Seq(S),
         NEW cut, \A i \in 0..m : cut[i] \in Nat, \A i \in 1..m : cut[i - 1] <= cut[i],
         NEW P, \A i \in cut[0]..(cut[m] - 1) : P[i] \in Seq(S),
         \A i \in 1..m : Same(exact, W[i], Glue(P, cut[i - 1], cut[i]))
  PROVE  Same(exact, Glue(W, 1, m + 1), Glue(P, cut[0], cut[m]))
<1> DEFINE Q == {k \in 0..m : /\ cut[0] <= cut[k]
                              /\ Same(exact, Glue(W, 1, k + 1), Glue(P, cut[0], cut[k]))}
           Z == {k \in 0..m : cut[m - k] <= cut[m]}
<1>0. \A k \in 0..m : cut[k] <= cut[m]
  <2>1. 0 \in Z
    <3>1. m - 0 = m /\ cut[m] \in Nat
      OBVIOUS
    <3> QED BY <3>1
  <2>2. ASSUME NEW k \in 0..(m - 1), k \in Z PROVE k + 1 \in Z
    <3>1. PICK j \in 1..m : j = m - k /\ j - 1 = m - (k + 1) /\ j - 1 \in 0..m
      OBVIOUS
    <3>2. cut[j - 1] \in Nat /\ cut[j] \in Nat /\ cut[m] \in Nat /\ cut[j - 1] <= cut[j] /\ cut[j] <= cut[m]
      BY <2>2, <3>1
    <3>3. cut[j - 1] <= cut[m]
      BY <3>2
    <3> QED BY <3>1, <3>3
  <2>3. \A k \in 0..m : k \in Z
    <3> HIDE DEF Z
    <3> QED BY <2>1, <2>2, UpTo
  <2>4. ASSUME NEW k \in 0..m PROVE cut[k] <= cut[m]
    <3>1. m - k \in 0..m /\ m - (m - k) = k
      OBVIOUS
    <3>2. m - k \in Z
      BY <2>3, <3>1
    <3> QED BY <3>1, <3>2
  <2> QED BY <2>4
<1>1. 0 \in Q
  <2>1. Glue(W, 1, 1) = <<>> /\ Glue(P, cut[0], cut[0]) = <<>>
    <3>1. 1 \in Int /\ cut[0] \in Int
      OBVIOUS
    <3> QED BY <3>1, GlueNone
  <2>2. 0 + 1 = 1 /\ 0 \in 0..m /\ cut[0] <= cut[0]
    OBVIOUS
  <2> QED BY <2>1, <2>2 DEF Same
<1>2. ASSUME NEW k \in 0..(m - 1), k \in Q PROVE k + 1 \in Q
  <2>1. PICK j \in 1..m : j = k + 1 /\ j - 1 = k /\ j \in 0..m
    OBVIOUS
  <2>2. PICK a \in Nat, b \in Nat, c \in Nat : a = cut[0] /\ b = cut[k] /\ c = cut[j] /\ a <= b /\ b <= c
    BY <1>2, <2>1
  <2>3. c <= cut[m]
    BY <1>0, <2>1, <2>2
  <2>4. \A i \in a..(c - 1) : P[i] \in Seq(S)
    <3>1. cut[m] \in Nat
      OBVIOUS
    <3> QED BY <2>2, <2>3, <3>1
  <2>5. Glue(P, a, c) = Glue(P, a, b) \o Glue(P, b, c)
    <3>1. a \in Int /\ b \in Int /\ c \in Int /\ a <= b /\ b <= c
      BY <2>2
    <3> QED BY <2>4, <3>1, GlueJoin
  <2>6. Glue(W, 1, j + 1) = Glue(W, 1, j) \o W[j]
    <3>1. 1 \in Int /\ j \in Int /\ 1 <= j
      OBVIOUS
    <3> QED BY <3>1, GlueStep
  <2>7. Same(exact, Glue(W, 1, j), Glue(P, a, b)) /\ Same(exact, W[j], Glue(P, b, c))
    <3>1. Same(exact, W[j], Glue(P, cut[j - 1], cut[j]))
      OBVIOUS
    <3> QED BY <1>2, <2>1, <2>2, <3>1
  <2>8. Glue(P, a, b) \in Seq(S) /\ Glue(P, b, c) \in Seq(S)
    <3>1. a \in Int /\ b \in Int /\ c \in Int /\ a <= b /\ b <= c
      BY <2>2
    <3>2. \A i \in a..(b - 1) : P[i] \in Seq(S)
      BY <2>2, <2>4
    <3>3. \A i \in b..(c - 1) : P[i] \in Seq(S)
      BY <2>2, <2>4
    <3> QED BY <3>1, <3>2, <3>3, GlueType
  <2>9. Glue(W, 1, j) \in Seq(S) /\ W[j] \in Seq(S)
    <3>1. 1 \in Int /\ j \in Int /\ 1 <= j
      OBVIOUS
    <3>2. \A i \in 1..(j - 1) : W[i] \in Seq(S)
      OBVIOUS
    <3> QED BY <3>1, <3>2, GlueType
  <2>10. Same(exact, Glue(W, 1, j) \o W[j], Glue(P, a, b) \o Glue(P, b, c))
    BY <2>7, <2>8, <2>9, SameJoined
  <2>11. Same(exact, Glue(W, 1, j + 1), Glue(P, a, c)) /\ a <= c
    <3>1. a <= c
      BY <2>2
    <3> QED BY <2>5, <2>6, <2>10, <3>1
  <2>12. j \in 0..m /\ j = k + 1
    BY <2>1
  <2> QED BY <2>2, <2>11, <2>12
<1>3. m \in Q
  <2> HIDE DEF Q
  <2>1. \A k \in 0..m : k \in Q
    BY <1>1, <1>2, UpTo
  <2> QED BY <2>1
<1> QED BY <1>3

\* Two parts of a piece.
LEMMA AlikeInParts ==
  ASSUME NEW S, NEW exact \in BOOLEAN, NEW P, NEW a \in Nat, NEW b \in Nat, NEW c \in Nat, a <= b, b <= c,
         \A i \in a..(c - 1) : P[i] \in Seq(S), NEW g \in Seq(S), NEW t \in Seq(S),
         Same(exact, g, Glue(P, a, b)), Same(exact, t, Glue(P, b, c))
  PROVE  Same(exact, g \o t, Glue(P, a, c))
<1>1. a \in Int /\ b \in Int /\ c \in Int
  OBVIOUS
<1>2. Glue(P, a, c) = Glue(P, a, b) \o Glue(P, b, c)
  BY <1>1, GlueJoin
<1>3. Glue(P, a, b) \in Seq(S) /\ Glue(P, b, c) \in Seq(S)
  <2>1. \A i \in a..(b - 1) : P[i] \in Seq(S)
    OBVIOUS
  <2>2. \A i \in b..(c - 1) : P[i] \in Seq(S)
    OBVIOUS
  <2> QED BY <1>1, <2>1, <2>2, GlueType
<1>4. Same(exact, g \o t, Glue(P, a, b) \o Glue(P, b, c))
  BY <1>3, SameJoined
<1> QED BY <1>2, <1>4

\* The first m spans follow each other in a text of n - 1 lexemes.
Follow(spans, m, n) ==
  /\ \A i \in 1..m : /\ spans[i][1] \in Nat /\ spans[i][2] \in Nat
                     /\ 1 <= spans[i][1] /\ spans[i][1] <= spans[i][2] /\ spans[i][2] <= n
  /\ \A i \in 1..(m - 1) : spans[i][2] <= spans[i + 1][1]

\* The texts come to what the pieces come to in their spans, the gaps to what they come to
\* before the spans, from c on.
Fits(exact, P, spans, texts, m) == \A i \in 1..m : Same(exact, texts[i], Glue(P, spans[i][1], spans[i][2]))
\* The gaps hold what P holds between the spans, and from c to the first of them.
Fills(exact, P, c, spans, gaps, m) ==
  \A i \in 1..m : Same(exact, gaps[i], Glue(P, IF i = 1 THEN c ELSE spans[i - 1][2], spans[i][1]))

\* Texts, each behind what is before its span, come to what is from c to the end of the last.
LEMMA AlikeWoven ==
  ASSUME NEW S, NEW exact \in BOOLEAN, NEW n \in Nat \ {0}, NEW P, \A i \in 1..(n - 1) : P[i] \in Seq(S),
         NEW m \in Nat \ {0}, NEW spans, Follow(spans, m, n),
         NEW c \in Nat \ {0}, c <= spans[1][1],
         NEW W, NEW gaps, NEW texts, Zipped(S, m, W, gaps, texts),
         Fills(exact, P, c, spans, gaps, m), Fits(exact, P, spans, texts, m)
  PROVE  /\ Same(exact, Glue(W, 1, m + 1), Glue(P, c, spans[m][2]))
         /\ Glue(W, 1, m + 1) \in Seq(S)
<1> DEFINE cut == [i \in 0..m |-> IF i = 0 THEN c ELSE spans[i][2]]
<1>1. \A i \in 1..m : /\ spans[i][1] \in Nat /\ spans[i][2] \in Nat
                      /\ 1 <= spans[i][1] /\ spans[i][1] <= spans[i][2] /\ spans[i][2] <= n
  BY DEF Follow
<1>2. cut[0] = c /\ cut[m] = spans[m][2] /\ \A i \in 0..m : cut[i] \in Nat
  BY <1>1
<1>3. ASSUME NEW i \in 1..m
      PROVE  /\ cut[i] = spans[i][2] /\ cut[i - 1] = IF i = 1 THEN c ELSE spans[i - 1][2]
             /\ 1 <= cut[i - 1] /\ cut[i - 1] <= spans[i][1]
  <2>1. CASE i = 1
    BY <2>1
  <2>2. CASE i # 1
    <3>1. PICK j \in 1..(m - 1) : j = i - 1 /\ j + 1 = i
      BY <2>2
    <3>2. cut[j] = spans[j][2] /\ cut[i] = spans[i][2]
      BY <3>1
    <3>3. spans[j][2] <= spans[i][1]
      BY <3>1 DEF Follow
    <3>4. j \in 1..m
      OBVIOUS
    <3>5. 1 <= spans[j][2]
      <4>1. /\ spans[j][1] \in Nat /\ spans[j][2] \in Nat
            /\ 1 <= spans[j][1] /\ spans[j][1] <= spans[j][2]
        BY <1>1, <3>4
      <4> QED BY <4>1
    <3> QED BY <2>2, <3>1, <3>2, <3>3, <3>5
  <2> QED BY <2>1, <2>2
<1> HIDE DEF cut
<1>4. ASSUME NEW i \in 1..m
      PROVE  cut[i - 1] <= cut[i] /\ Same(exact, W[i], Glue(P, cut[i - 1], cut[i])) /\ W[i] \in Seq(S)
  <2>1. PICK a \in Nat, b \in Nat, d \in Nat :
          /\ a = cut[i - 1] /\ b = spans[i][1] /\ d = spans[i][2] /\ d = cut[i]
          /\ 1 <= a /\ a <= b /\ b <= d /\ d <= n
    <3>1. i - 1 \in 0..m
      OBVIOUS
    <3>2. cut[i - 1] \in Nat
      BY <1>2, <3>1
    <3> QED BY <1>1, <1>3, <3>2
  <2>2. gaps[i] \in Seq(S) /\ texts[i] \in Seq(S) /\ W[i] = gaps[i] \o texts[i]
    BY DEF Zipped
  <2>3. Same(exact, gaps[i], Glue(P, a, b)) /\ Same(exact, texts[i], Glue(P, b, d))
    BY <1>3, <2>1 DEF Fills, Fits
  <2>4. \A j \in a..(d - 1) : P[j] \in Seq(S)
    BY <2>1
  <2>5. Same(exact, gaps[i] \o texts[i], Glue(P, a, d))
    <3>1. a <= b /\ b <= d
      BY <2>1
    <3> QED BY <2>2, <2>3, <2>4, <3>1, AlikeInParts
  <2>6. gaps[i] \o texts[i] \in Seq(S)
    BY <2>2, ConcatProperties
  <2>7. a <= d
    BY <2>1
  <2> QED BY <2>1, <2>2, <2>5, <2>6, <2>7
<1>5. \A i \in cut[0]..(cut[m] - 1) : P[i] \in Seq(S)
  <2>1. m \in 1..m
    OBVIOUS
  <2>2. spans[m][2] \in Nat /\ spans[m][2] <= n
    BY <1>1, <2>1
  <2> QED BY <1>2, <2>2
<1>6. Same(exact, Glue(W, 1, m + 1), Glue(P, cut[0], cut[m]))
  BY <1>2, <1>4, <1>5, AlikeBetweenCuts
<1>7. Glue(W, 1, m + 1) \in Seq(S)
  <2>1. 1 \in Int /\ m + 1 \in Int /\ 1 <= m + 1
    OBVIOUS
  <2>2. \A i \in 1..((m + 1) - 1) : W[i] \in Seq(S)
    <3>1. \A i \in 1..m : W[i] \in Seq(S)
      BY <1>4
    <3>2. (m + 1) - 1 = m
      OBVIOUS
    <3> QED BY <3>1, <3>2
  <2> QED BY <2>1, <2>2, GlueType
<1> QED BY <1>2, <1>6, <1>7

\* What sources and escaped texts are made of.  The provers do not know of a literal that
\* it is a string.
Lexeme == STRING \cup {"esc", "\\textbackslash", "\\itemword"}

\* What stands before each of some spans, and behind the one before it.
GapsOf(text, spans, m) ==
  [i \in 1..m |-> IF i = 1 THEN <<>> ELSE Text(text, <<spans[i - 1][2], spans[i][1]>>)]

\* The gaps of a text are texts.
LEMMA GapsType ==
  ASSUME NEW S, NEW text \in Seq(S), NEW m \in Nat, NEW spans, Follow(spans, m, Len(text) + 1)
  PROVE  \A i \in 1..m : GapsOf(text, spans, m)[i] \in Seq(S)
<1> SUFFICES ASSUME NEW i \in 1..m PROVE GapsOf(text, spans, m)[i] \in Seq(S)
  OBVIOUS
<1>1. CASE i = 1
  <2>1. GapsOf(text, spans, m)[i] = <<>>
    BY <1>1 DEF GapsOf
  <2> QED BY <2>1, EmptySeq
<1>2. CASE i # 1
  <2>1. PICK j \in 1..(m - 1) : j = i - 1 /\ j \in 1..m
    BY <1>2
  <2>2. spans[j][1] \in Nat /\ spans[j][2] \in Nat /\ 1 <= spans[j][1] /\ spans[j][1] <= spans[j][2]
    BY <2>1 DEF Follow
  <2>3. spans[i][1] \in Nat /\ spans[i][2] \in Nat /\ spans[i][1] <= spans[i][2] /\ spans[i][2] <= Len(text) + 1
    BY DEF Follow
  <2>4. PICK a \in Nat \ {0}, b \in Nat : a = spans[j][2] /\ b = spans[i][1] /\ b <= Len(text) + 1
    <3>1. Len(text) \in Nat
      OBVIOUS
    <3> QED BY <2>2, <2>3, <3>1
  <2>5. Text(text, <<a, b>>) \in Seq(S)
    BY <2>4, TextType
  <2>6. GapsOf(text, spans, m)[i] = Text(text, <<a, b>>)
    BY <1>2, <2>1, <2>4 DEF GapsOf
  <2> QED BY <2>5, <2>6
<1> QED BY <1>1, <1>2

\* The pieces that RenderGroup puts together.
GroupPieces(text, spans, order, texts, m) == [i \in 1..m |-> GapsOf(text, spans, m)[i] \o texts[order[i]]]

\* A rendered group is its pieces: a gap of the source, then the text of a member.
LEMMA RenderedPieces ==
  ASSUME src \in Seq(Lexeme), NEW m \in Nat, NEW spans, Follow(spans, m, Len(src) + 1),
         NEW order, DOMAIN order = 1..m, NEW texts, \A i \in 1..m : texts[order[i]] \in Seq(Lexeme)
  PROVE  /\ RenderGroup(spans, order, texts) = Glue(GroupPieces(src, spans, order, texts, m), 1, m + 1)
         /\ RenderGroup(spans, order, texts) \in Seq(Lexeme)
<1>1. PICK W : W = GroupPieces(src, spans, order, texts, m)
  OBVIOUS
<1>2. ASSUME NEW i \in 1..m
      PROVE  /\ W[i] = (IF i = 1 THEN <<>> ELSE Text(src, <<spans[i - 1][2], spans[i][1]>>)) \o texts[order[i]]
             /\ W[i] \in Seq(Lexeme)
  <2>1. GapsOf(src, spans, m)[i] \in Seq(Lexeme)
    BY GapsType
  <2>2. GapsOf(src, spans, m)[i] = IF i = 1 THEN <<>> ELSE Text(src, <<spans[i - 1][2], spans[i][1]>>)
    BY DEF GapsOf
  <2>3. W[i] = GapsOf(src, spans, m)[i] \o texts[order[i]]
    BY <1>1 DEF GroupPieces
  <2>4. texts[order[i]] \in Seq(Lexeme)
    OBVIOUS
  <2>5. W[i] \in Seq(Lexeme)
    BY <2>1, <2>3, <2>4, ConcatProperties
  <2> QED BY <2>2, <2>3, <2>5
<1>3. W = [i \in 1..m |-> W[i]]
  BY <1>1 DEF GroupPieces
<1>4. W \in [1..m -> Seq(Lexeme)]
  BY <1>2, <1>3
<1>5. RenderGroup(spans, order, texts) = FlattenSeq(W)
  <2>1. RenderGroup(spans, order, texts) =
          FlattenSeq([i \in 1..m |->
            (IF i = 1 THEN <<>> ELSE Text(src, <<spans[i - 1][2], spans[i][1]>>)) \o texts[order[i]]])
    BY DEF RenderGroup
  <2>2. W = [i \in 1..m |->
            (IF i = 1 THEN <<>> ELSE Text(src, <<spans[i - 1][2], spans[i][1]>>)) \o texts[order[i]]]
    BY <1>2, <1>3
  <2> QED BY <2>1, <2>2
<1>6. FlattenSeq(W) = Glue(W, 1, m + 1)
  BY <1>4, FlattenIsGlue
<1>7. Glue(W, 1, m + 1) \in Seq(Lexeme)
  <2>1. 1 \in Int /\ m + 1 \in Int /\ 1 <= m + 1 /\ (m + 1) - 1 = m
    OBVIOUS
  <2>2. \A i \in 1..((m + 1) - 1) : W[i] \in Seq(Lexeme)
    BY <1>2, <2>1
  <2> QED BY <2>1, <2>2, GlueType
<1> QED BY <1>1, <1>5, <1>6, <1>7

\* Members in place, between their separators.
LEMMA RenderedInPlace ==
  ASSUME src \in Seq(Lexeme), NEW exact \in BOOLEAN,
         NEW P, \A i \in 1..Len(src) : P[i] \in Seq(Lexeme),
         NEW m \in Nat \ {0}, NEW spans, Follow(spans, m, Len(src) + 1),
         NEW texts, \A i \in 1..m : texts[i] \in Seq(Lexeme),
         Fits(exact, P, spans, texts, m),
         \A i \in 1..(m - 1) : Same(exact, Text(src, <<spans[i][2], spans[i + 1][1]>>),
                                    Glue(P, spans[i][2], spans[i + 1][1]))
  PROVE  Same(exact, RenderGroup(spans, Identity(m), texts), Glue(P, spans[1][1], spans[m][2]))
<1>1. PICK W : W = GroupPieces(src, spans, Identity(m), texts, m)
  OBVIOUS
<1>2. DOMAIN Identity(m) = 1..m /\ \A i \in 1..m : Identity(m)[i] = i
  BY DEF Identity
<1>3. RenderGroup(spans, Identity(m), texts) = Glue(W, 1, m + 1)
  <2>1. \A i \in 1..m : texts[Identity(m)[i]] \in Seq(Lexeme)
    BY <1>2
  <2> QED BY <1>1, <1>2, <2>1, RenderedPieces
<1>4. PICK gaps : gaps = GapsOf(src, spans, m)
  OBVIOUS
<1>5. Zipped(Lexeme, m, W, gaps, texts)
  <2>1. \A i \in 1..m : gaps[i] \in Seq(Lexeme)
    BY <1>4, GapsType
  <2> QED BY <1>1, <1>2, <1>4, <2>1 DEF GroupPieces, Zipped
<1>6. PICK c \in Nat \ {0} : c = spans[1][1]
  <2>1. 1 \in 1..m
    OBVIOUS
  <2>2. spans[1][1] \in Nat /\ 1 <= spans[1][1]
    BY <2>1 DEF Follow
  <2> QED BY <2>2
<1>8. ASSUME NEW i \in 1..m
      PROVE  Same(exact, gaps[i], Glue(P, IF i = 1 THEN c ELSE spans[i - 1][2], spans[i][1]))
  <2>1. CASE i = 1
    <3>1. gaps[i] = <<>>
      BY <1>4, <2>1 DEF GapsOf
    <3>2. Glue(P, c, c) = <<>>
      <4>1. c \in Int
        OBVIOUS
      <4> QED BY <4>1, GlueNone
    <3> QED BY <1>6, <2>1, <3>1, <3>2 DEF Same
  <2>2. CASE i # 1
    <3>1. PICK j \in 1..(m - 1) : j = i - 1 /\ j + 1 = i
      BY <2>2
    <3>2. gaps[i] = Text(src, <<spans[j][2], spans[i][1]>>)
      BY <1>4, <2>2, <3>1 DEF GapsOf
    <3>3. Same(exact, Text(src, <<spans[j][2], spans[i][1]>>), Glue(P, spans[j][2], spans[i][1]))
      BY <3>1
    <3> QED BY <2>2, <3>1, <3>2, <3>3
  <2> QED BY <2>1, <2>2
<1>9. PICK n \in Nat \ {0} : n = Len(src) + 1 /\ n - 1 = Len(src)
  <2>1. Len(src) \in Nat
    OBVIOUS
  <2> QED BY <2>1
<1>10. \A i \in 1..(n - 1) : P[i] \in Seq(Lexeme)
  BY <1>9
<1>11. Follow(spans, m, n) /\ c <= spans[1][1]
  BY <1>6, <1>9
<1>12. Fills(exact, P, c, spans, gaps, m)
  BY <1>8 DEF Fills
<1>13. Same(exact, Glue(W, 1, m + 1), Glue(P, c, spans[m][2]))
  BY <1>5, <1>10, <1>11, <1>12, AlikeWoven
<1> QED BY <1>3, <1>6, <1>13

\* Members in another order: as many of every lexeme.
LEMMA RenderedInAnyOrder ==
  ASSUME src \in Seq(Lexeme), NEW m \in Nat, NEW spans, Follow(spans, m, Len(src) + 1),
         NEW texts, \A i \in 1..m : texts[i] \in Seq(Lexeme),
         NEW order, DOMAIN order = 1..m, Permutes(order, m)
  PROVE  /\ Same(FALSE, RenderGroup(spans, order, texts), RenderGroup(spans, Identity(m), texts))
         /\ RenderGroup(spans, order, texts) \in Seq(Lexeme)
         /\ RenderGroup(spans, Identity(m), texts) \in Seq(Lexeme)
<1>1. PICK W, V, moved, gaps :
        /\ W = GroupPieces(src, spans, order, texts, m)
        /\ V = GroupPieces(src, spans, Identity(m), texts, m)
        /\ moved = Moved(texts, order, m) /\ gaps = GapsOf(src, spans, m)
  OBVIOUS
<1>2. DOMAIN Identity(m) = 1..m /\ \A i \in 1..m : Identity(m)[i] = i
  BY DEF Identity
<1>3. \A i \in 1..m : texts[order[i]] \in Seq(Lexeme) /\ moved[i] = texts[order[i]]
  BY <1>1 DEF Permutes, Moved
<1>4. /\ RenderGroup(spans, order, texts) = Glue(W, 1, m + 1)
      /\ RenderGroup(spans, order, texts) \in Seq(Lexeme)
  BY <1>1, <1>3, RenderedPieces
<1>5. /\ RenderGroup(spans, Identity(m), texts) = Glue(V, 1, m + 1)
      /\ RenderGroup(spans, Identity(m), texts) \in Seq(Lexeme)
  <2>1. \A i \in 1..m : texts[Identity(m)[i]] \in Seq(Lexeme)
    BY <1>2
  <2> QED BY <1>1, <1>2, <2>1, RenderedPieces
<1>6. \A i \in 1..m : gaps[i] \in Seq(Lexeme)
  BY <1>1, GapsType
<1>7. \A i \in 1..m : W[i] = gaps[i] \o moved[i] /\ V[i] = gaps[i] \o texts[i]
  BY <1>1, <1>2, <1>3 DEF GroupPieces
<1>8. ASSUME NEW x PROVE Count(Glue(W, 1, m + 1), x) = Count(Glue(V, 1, m + 1), x)
  <2>1. Zipped(Lexeme, m, W, gaps, moved)
    BY <1>3, <1>6, <1>7 DEF Zipped
  <2>2. Count(Glue(W, 1, m + 1), x) = Count(Glue(gaps, 1, m + 1), x) + Count(Glue(moved, 1, m + 1), x)
    BY <2>1, CountSplit
  <2>3. Zipped(Lexeme, m, V, gaps, texts)
    BY <1>6, <1>7 DEF Zipped
  <2>4. Count(Glue(V, 1, m + 1), x) = Count(Glue(gaps, 1, m + 1), x) + Count(Glue(texts, 1, m + 1), x)
    BY <2>3, CountSplit
  <2>5. Count(Glue(moved, 1, m + 1), x) = Count(Glue(texts, 1, m + 1), x)
    BY <1>1, CountInAnyOrder
  <2> QED BY <2>2, <2>4, <2>5
<1> QED BY <1>4, <1>5, <1>8 DEF Same

\* Edits of spans that follow each other in the source.
InPlace(edits) ==
  /\ IsSeq(edits)
  /\ \A i \in DOMAIN edits : /\ edits[i].span[1] \in Nat /\ edits[i].span[2] \in Nat
                             /\ 1 <= edits[i].span[1] /\ edits[i].span[1] < edits[i].span[2]
                             /\ edits[i].span[2] <= Len(src) + 1
  /\ \A i, j \in DOMAIN edits : i < j => edits[i].span[2] <= edits[j].span[1]

\* The pieces are the lexemes of the source where no edit is.
Verbatim(P, edits) ==
  \A i \in 1..Len(src) : (\A k \in DOMAIN edits : ~Within(i, edits[k].span)) => P[i] = <<src[i]>>

\* Rendering edits puts the pieces together: at every edit its text, and elsewhere the source.
LEMMA RenderedSource ==
  ASSUME src \in Seq(Lexeme), NEW P, \A i \in 1..Len(src) : P[i] \in Seq(Lexeme),
         NEW edits, InPlace(edits), Verbatim(P, edits),
         \A i \in DOMAIN edits : edits[i].text = Glue(P, edits[i].span[1], edits[i].span[2])
  PROVE  Render(edits) = Glue(P, 1, Len(src) + 1)
<1>1. PICK m \in Nat : m = Len(edits) /\ DOMAIN edits = 1..m
  BY DEF InPlace, IsSeq
<1>2. PICK n \in Nat \ {0} : n = Len(src) + 1 /\ n - 1 = Len(src)
  <2>1. Len(src) \in Nat
    OBVIOUS
  <2> QED BY <2>1
<1>3. PICK spans : spans = [i \in 1..m |-> edits[i].span]
  OBVIOUS
<1>4. \A i \in 1..m : /\ spans[i] = edits[i].span
                      /\ spans[i][1] \in Nat /\ spans[i][2] \in Nat
                      /\ 1 <= spans[i][1] /\ spans[i][1] < spans[i][2] /\ spans[i][2] <= n
  BY <1>1, <1>2, <1>3 DEF InPlace
<1>5. \A i, j \in 1..m : i < j => spans[i][2] <= spans[j][1]
  <2>1. \A i, j \in 1..m : i < j => edits[i].span[2] <= edits[j].span[1]
    BY <1>1 DEF InPlace
  <2>2. \A i \in 1..m : spans[i] = edits[i].span
    BY <1>4
  <2> QED BY <2>1, <2>2
<1>6. \A i \in 1..(n - 1) : P[i] \in Seq(Lexeme)
  BY <1>2
\* What is between edits is as it was.
<1>7. ASSUME NEW a \in Nat \ {0}, NEW b \in Nat, a <= b, b <= n,
             \A k \in 1..m : spans[k][2] <= a \/ b <= spans[k][1]
      PROVE  Glue(P, a, b) = Text(src, <<a, b>>)
  <2>1. ASSUME NEW i \in a..(b - 1) PROVE P[i] = <<src[i]>>
    <3>1. i \in 1..Len(src)
      BY <1>2, <1>7
    <3>2. ASSUME NEW k \in 1..m PROVE ~Within(i, edits[k].span)
      <4>1. PICK p \in Nat, c \in Nat : p = spans[k][1] /\ c = spans[k][2]
        BY <1>4
      <4>2. c <= a \/ b <= p
        BY <1>7, <4>1
      <4>3. ~(p <= i /\ i < c)
        BY <1>7, <4>2
      <4> QED BY <1>4, <4>1, <4>3 DEF Within
    <3> QED BY <1>1, <3>1, <3>2 DEF Verbatim
  <2>2. b <= Len(src) + 1
    BY <1>2, <1>7
  <2> QED BY <1>7, <2>1, <2>2, GlueText
<1>8. CASE m = 0
  <2>1. edits = <<>>
    BY <1>1, <1>8 DEF InPlace, IsSeq
  <2>2. Render(edits) = src
    BY <2>1 DEF Render
  <2>3. Glue(P, 1, n) = Text(src, <<1, n>>)
    <3>1. \A k \in 1..m : spans[k][2] <= 1 \/ n <= spans[k][1]
      BY <1>8
    <3>2. 1 \in Nat \ {0} /\ 1 <= n /\ n <= n /\ n \in Nat
      OBVIOUS
    <3> QED BY <1>7, <3>1, <3>2
  <2>4. SubSeq(src, 1, Len(src)) = src
    BY SubSeqFull
  <2> QED BY <1>2, <2>2, <2>3, <2>4 DEF Text
<1>9. CASE m # 0
  <2>0. m \in Nat \ {0} /\ m \in 1..m /\ 1 \in 1..m
    BY <1>9
  <2> DEFINE from(i) == IF i = 1 THEN 1 ELSE edits[i - 1].span[2]
             W == [i \in 1..m |-> Text(src, <<from(i), edits[i].span[1]>>) \o edits[i].text]
             gaps == [i \in 1..m |-> Text(src, <<from(i), spans[i][1]>>)]
             texts == [i \in 1..m |-> edits[i].text]
             rest == Text(src, <<edits[m].span[2], Len(src) + 1>>)
  <2>1. Render(edits) = FlattenSeq(W) \o rest
    <3>1. edits # <<>>
      <4>1. DOMAIN <<>> = {}
        OBVIOUS
      <4> QED BY <1>1, <2>0, <4>1
    <3> QED BY <1>1, <3>1 DEF Render
  <2>2. ASSUME NEW i \in 1..m
        PROVE  /\ from(i) = IF i = 1 THEN 1 ELSE spans[i - 1][2]
               /\ from(i) \in Nat \ {0} /\ from(i) <= spans[i][1]
               /\ \A k \in 1..m : spans[k][2] <= from(i) \/ spans[i][1] <= spans[k][1]
    <3>1. CASE i = 1
      <4>1. ASSUME NEW k \in 1..m PROVE spans[i][1] <= spans[k][1]
        <5>1. k = 1 \/ 1 < k
          OBVIOUS
        <5>2. CASE k = 1
          BY <1>4, <3>1, <5>2
        <5>3. CASE 1 < k
          <6>1. spans[1][2] <= spans[k][1]
            BY <1>5, <2>0, <5>3
          <6>2. spans[1][1] \in Nat /\ spans[1][2] \in Nat /\ spans[1][1] < spans[1][2] /\ spans[k][1] \in Nat
            BY <1>4, <2>0
          <6> QED BY <3>1, <6>1, <6>2
        <5> QED BY <5>1, <5>2, <5>3
      <4> QED BY <1>4, <3>1, <4>1
    <3>2. CASE i # 1
      <4>1. PICK j \in 1..m : j = i - 1 /\ j < i
        BY <3>2
      <4>2. from(i) = spans[j][2]
        BY <1>4, <3>2, <4>1
      <4>3. /\ spans[j][1] \in Nat /\ spans[j][2] \in Nat /\ 1 <= spans[j][1] /\ spans[j][1] < spans[j][2]
            /\ spans[j][2] <= spans[i][1] /\ spans[i][1] \in Nat /\ spans[i][2] \in Nat
            /\ spans[i][1] < spans[i][2]
        BY <1>4, <1>5, <4>1
      <4>4. ASSUME NEW k \in 1..m PROVE spans[k][2] <= spans[j][2] \/ spans[i][1] <= spans[k][1]
        <5>1. spans[k][1] \in Nat /\ spans[k][2] \in Nat /\ spans[k][1] < spans[k][2]
          BY <1>4
        <5>2. k < j \/ k = j \/ k = i \/ i < k
          BY <4>1
        <5>3. CASE k < j
          <6>1. spans[k][2] <= spans[j][1]
            BY <1>5, <5>3
          <6> QED BY <4>3, <5>1, <6>1
        <5>4. CASE i < k
          <6>1. spans[i][2] <= spans[k][1]
            BY <1>5, <5>4
          <6> QED BY <4>3, <5>1, <6>1
        <5>5. CASE k = j \/ k = i
          BY <4>3, <5>5
        <5> QED BY <5>2, <5>3, <5>4, <5>5
      <4>5. from(i) \in Nat \ {0}
        BY <4>2, <4>3
      <4> QED BY <3>2, <4>1, <4>2, <4>3, <4>4, <4>5
    <3> QED BY <3>1, <3>2
  <2>3. ASSUME NEW i \in 1..m
        PROVE  /\ gaps[i] = Glue(P, from(i), spans[i][1]) /\ gaps[i] \in Seq(Lexeme)
    <3>1. PICK a \in Nat \ {0}, b \in Nat : a = from(i) /\ b = spans[i][1] /\ a <= b /\ b <= n
      <4>1. spans[i][1] \in Nat /\ spans[i][2] \in Nat /\ spans[i][1] < spans[i][2] /\ spans[i][2] <= n
        BY <1>4
      <4>2. spans[i][1] <= n
        BY <4>1
      <4> QED BY <2>2, <4>1, <4>2
    <3>2. \A k \in 1..m : spans[k][2] <= a \/ b <= spans[k][1]
      BY <2>2, <3>1
    <3>3. Glue(P, a, b) = Text(src, <<a, b>>)
      BY <1>7, <3>1, <3>2
    <3>4. Text(src, <<a, b>>) \in Seq(Lexeme)
      BY <1>2, <3>1, TextType
    <3>5. gaps[i] = Text(src, <<a, b>>)
      BY <3>1
    <3> HIDE DEF gaps, from
    <3> QED BY <3>1, <3>3, <3>4, <3>5
  <2>4. ASSUME NEW i \in 1..m
        PROVE  texts[i] = Glue(P, spans[i][1], spans[i][2]) /\ texts[i] \in Seq(Lexeme)
    <3>1. PICK a \in Nat, b \in Nat : a = spans[i][1] /\ b = spans[i][2] /\ 1 <= a /\ a < b /\ b <= n
      BY <1>4
    <3>2. texts[i] = Glue(P, a, b)
      BY <1>1, <1>4, <3>1
    <3>3. \A j \in a..(b - 1) : P[j] \in Seq(Lexeme)
      BY <1>6, <3>1
    <3>4. a \in Int /\ b \in Int /\ a <= b
      BY <3>1
    <3>5. Glue(P, a, b) \in Seq(Lexeme)
      BY <3>3, <3>4, GlueType
    <3> QED BY <3>1, <3>2, <3>5
  <2>5. Zipped(Lexeme, m, W, gaps, texts)
    <3>1. \A i \in 1..m : W[i] = gaps[i] \o texts[i]
      BY <1>4
    <3> HIDE DEF W, gaps, texts
    <3> QED BY <2>3, <2>4, <3>1 DEF Zipped
  <2>6. Fills(TRUE, P, 1, spans, gaps, m) /\ Fits(TRUE, P, spans, texts, m)
    <3>1. \A i \in 1..m : gaps[i] = Glue(P, IF i = 1 THEN 1 ELSE spans[i - 1][2], spans[i][1])
      <4> HIDE DEF gaps, from
      <4> QED BY <2>2, <2>3
    <3> HIDE DEF gaps, texts, from
    <3> QED BY <2>4, <3>1 DEF Fills, Fits, Same
  <2>7. Follow(spans, m, n)
    <3>1. \A i \in 1..m : /\ spans[i][1] \in Nat /\ spans[i][2] \in Nat
                          /\ 1 <= spans[i][1] /\ spans[i][1] <= spans[i][2] /\ spans[i][2] <= n
      BY <1>4
    <3>2. \A i \in 1..(m - 1) : i \in 1..m /\ i + 1 \in 1..m /\ i < i + 1
      OBVIOUS
    <3> QED BY <1>5, <3>1, <3>2 DEF Follow
  <2>8. 1 \in Nat \ {0} /\ 1 <= spans[1][1]
    BY <1>4, <2>0
  <2>9. FlattenSeq(W) = Glue(W, 1, m + 1)
    <3>1. W = [i \in 1..m |-> W[i]]
      OBVIOUS
    <3> HIDE DEF W, gaps, texts
    <3>2. ASSUME NEW i \in 1..m PROVE W[i] \in Seq(Lexeme)
      <4>1. gaps[i] \in Seq(Lexeme) /\ texts[i] \in Seq(Lexeme) /\ W[i] = gaps[i] \o texts[i]
        BY <2>5 DEF Zipped
      <4>2. gaps[i] \o texts[i] \in Seq(Lexeme)
        BY <4>1, ConcatProperties
      <4> QED BY <4>1, <4>2
    <3>3. W \in [1..m -> Seq(Lexeme)]
      BY <3>1, <3>2
    <3> QED BY <3>3, FlattenIsGlue
  <2>10. Glue(W, 1, m + 1) = Glue(P, 1, spans[m][2])
    <3> HIDE DEF W, gaps, texts
    <3>1. Same(TRUE, Glue(W, 1, m + 1), Glue(P, 1, spans[m][2]))
      <4>1. TRUE \in BOOLEAN
        OBVIOUS
      <4> QED BY <1>6, <2>0, <2>5, <2>6, <2>7, <2>8, <4>1, AlikeWoven
    <3> QED BY <3>1 DEF Same
  <2>11. PICK e \in Nat \ {0} : e = spans[m][2] /\ e <= n
    <3>1. spans[m][1] \in Nat /\ spans[m][2] \in Nat /\ 1 <= spans[m][1] /\ spans[m][1] < spans[m][2]
            /\ spans[m][2] <= n
      BY <1>4, <2>0
    <3> QED BY <3>1
  <2>12. rest = Glue(P, e, n)
    <3>1. ASSUME NEW k \in 1..m PROVE spans[k][2] <= e
      <4>1. k = m \/ k < m
        OBVIOUS
      <4>2. CASE k < m
        <5>1. spans[k][2] <= spans[m][1]
          BY <1>5, <2>0, <4>2
        <5>2. spans[k][2] \in Nat /\ spans[m][1] \in Nat /\ spans[m][1] < spans[m][2]
          BY <1>4, <2>0
        <5> QED BY <2>11, <5>1, <5>2
      <4>3. CASE k = m
        BY <2>11, <4>3
      <4> QED BY <4>1, <4>2, <4>3
    <3>2. Glue(P, e, n) = Text(src, <<e, n>>)
      <4>1. \A k \in 1..m : spans[k][2] <= e \/ n <= spans[k][1]
        BY <3>1
      <4>2. e <= n /\ n <= n /\ n \in Nat
        BY <2>11
      <4> QED BY <1>7, <4>1, <4>2
    <3>3. rest = Text(src, <<e, n>>)
      BY <1>2, <1>4, <2>0, <2>11
    <3> QED BY <3>2, <3>3
  <2>13. Glue(P, 1, n) = Glue(P, 1, e) \o Glue(P, e, n)
    <3>1. 1 \in Int /\ e \in Int /\ n \in Int /\ 1 <= e /\ e <= n
      BY <2>11
    <3> QED BY <1>6, <3>1, GlueJoin
  <2> HIDE DEF W, gaps, texts, rest
  <2> QED BY <1>2, <2>1, <2>9, <2>10, <2>11, <2>12, <2>13
<1> QED BY <1>8, <1>9

(* --------------------------------- Splicing ------------------------------- *)

\* The parts of a text in two parts.
LEMMA InTwoParts ==
  ASSUME NEW S, NEW s \in Seq(S), NEW t \in Seq(S)
  PROVE  SubSeq(s \o t, 1, Len(s)) = s /\ SubSeq(s \o t, Len(s) + 1, Len(s \o t)) = t
<1>1. PICK u : u = s \o t
  OBVIOUS
<1>2. PICK m \in Nat, n \in Nat : m = Len(s) /\ n = Len(t)
  OBVIOUS
<1>3. u \in Seq(S) /\ Len(u) = m + n /\ \A i \in 1..(m + n) : u[i] = IF i <= m THEN s[i] ELSE t[i - m]
  BY <1>1, <1>2, ConcatProperties
<1>4. \A i \in 1..(m + n) : u[i] \in S
  BY <1>3
<1>5. SubSeq(u, 1, m) = s
  <2>1. PICK v : v = SubSeq(u, 1, m)
    OBVIOUS
  <2>2. \A i \in 1..m : u[i] \in S
    BY <1>4
  <2>3. 1 \in Int /\ m \in Int
    OBVIOUS
  <2>4. v \in Seq(S) /\ Len(v) = (IF 1 <= m THEN m - 1 + 1 ELSE 0)
          /\ \A i \in 1..(m - 1 + 1) : v[i] = u[1 + i - 1]
    BY <2>1, <2>2, <2>3, SubSeqProperties
  <2>5. Len(v) = m /\ \A i \in 1..m : v[i] = s[i]
    BY <1>3, <2>4
  <2> QED BY <1>2, <2>1, <2>4, <2>5
<1>6. SubSeq(u, m + 1, m + n) = t
  <2>1. PICK v : v = SubSeq(u, m + 1, m + n)
    OBVIOUS
  <2>2. \A i \in (m + 1)..(m + n) : u[i] \in S
    BY <1>4
  <2>3. m + 1 \in Int /\ m + n \in Int
    OBVIOUS
  <2>4. /\ v \in Seq(S) /\ Len(v) = (IF m + 1 <= m + n THEN m + n - (m + 1) + 1 ELSE 0)
        /\ \A i \in 1..(m + n - (m + 1) + 1) : v[i] = u[m + 1 + i - 1]
    BY <2>1, <2>2, <2>3, SubSeqProperties
  <2>5. Len(v) = n
    BY <2>4
  <2>6. ASSUME NEW i \in 1..n PROVE v[i] = t[i]
    <3>1. i \in 1..(m + n - (m + 1) + 1) /\ m + 1 + i - 1 \in 1..(m + n) /\ ~(m + 1 + i - 1 <= m)
      OBVIOUS
    <3>2. (m + 1 + i - 1) - m = i
      OBVIOUS
    <3> QED BY <1>3, <2>4, <3>1, <3>2
  <2>7. v \in Seq(S) /\ Len(v) = Len(t) /\ \A i \in 1..Len(v) : v[i] = t[i]
    BY <1>2, <2>4, <2>5, <2>6
  <2>8. v = t
    BY <2>7
  <2> QED BY <2>1, <2>8
<1> QED BY <1>1, <1>2, <1>3, <1>5, <1>6

\* The length of a text of a text, and two that follow each other.
LEMMA TextParts ==
  ASSUME NEW S, NEW text \in Seq(S), NEW a \in Nat \ {0}, NEW b \in Nat, NEW c \in Nat,
         a <= b, b <= c, c <= Len(text) + 1
  PROVE  /\ Text(text, <<a, b>>) \o Text(text, <<b, c>>) = Text(text, <<a, c>>)
         /\ Len(Text(text, <<a, b>>)) = b - a
<1>1. PICK n \in Nat : n = Len(text)
  OBVIOUS
<1>2. Text(text, <<a, b>>) \o Text(text, <<b, c>>) = Text(text, <<a, c>>)
  <2>1. a \in 1..(n + 1) /\ b - 1 \in (a - 1)..n /\ c - 1 \in (b - 1)..n /\ b - 1 + 1 = b
    BY <1>1
  <2>2. SubSeq(text, a, b - 1) \o SubSeq(text, (b - 1) + 1, c - 1) = SubSeq(text, a, c - 1)
    BY <1>1, <2>1, ConcatAdjacentSubSeq
  <2> QED BY <2>1, <2>2 DEF Text
<1>3. Len(Text(text, <<a, b>>)) = b - a
  <2>1. a \in Int /\ b - 1 \in Int
    OBVIOUS
  <2>2. \A i \in 1..n : text[i] \in S
    BY <1>1
  <2>3. \A i \in a..(b - 1) : i \in 1..n
    BY <1>1
  <2>4. \A i \in a..(b - 1) : text[i] \in S
    BY <2>2, <2>3
  <2>5. Len(SubSeq(text, a, b - 1)) = IF a <= b - 1 THEN (b - 1) - a + 1 ELSE 0
    BY <2>1, <2>4, SubSeqProperties
  <2>6. Len(SubSeq(text, a, b - 1)) = b - a
    BY <2>5
  <2> QED BY <2>6 DEF Text
<1> QED BY <1>2, <1>3

\* A text behind a text, as an operator the provers do not look into.
Then(s, t) == s \o t

\* Appending in two steps, whichever comes first.
LEMMA ThenIsAssociative ==
  ASSUME NEW S, NEW a \in Seq(S), NEW b \in Seq(S), NEW c \in Seq(S)
  PROVE  Then(Then(a, b), c) = Then(a, Then(b, c))
BY ConcatAssociative DEF Then

\* The text `new` for the region from a to b of a text that starts as the source does from p to c.
SplicedIn(text, p, a, b, c, tail, new) ==
  Splice(Text(text, <<p, c>>) \o tail, p, <<a, b>>, new) =
    (Text(text, <<p, a>>) \o new) \o (Text(text, <<b, c>>) \o tail)

\* A text for a region that lies in the part of the source another text still starts with.
LEMMA SpliceHead ==
  ASSUME NEW text \in Seq(Lexeme), NEW p \in Nat \ {0}, NEW a \in Nat, NEW b \in Nat, NEW c \in Nat,
         p <= a, a <= b, b <= c, c <= Len(text) + 1, NEW tail \in Seq(Lexeme), NEW new \in Seq(Lexeme)
  PROVE  SplicedIn(text, p, a, b, c, tail, new)
<1>2. p \in Nat \ {0} /\ a \in Nat \ {0} /\ b \in Nat \ {0} /\ a <= Len(text) + 1 /\ b <= Len(text) + 1
  <2>1. Len(text) \in Nat
    OBVIOUS
  <2> QED BY <2>1
<1>1. PICK A \in Seq(Lexeme), B \in Seq(Lexeme), C \in Seq(Lexeme) :
        A = Text(text, <<p, a>>) /\ B = Text(text, <<a, b>>) /\ C = Text(text, <<b, c>>)
  <2>1. Text(text, <<p, a>>) \in Seq(Lexeme) /\ Text(text, <<a, b>>) \in Seq(Lexeme)
          /\ Text(text, <<b, c>>) \in Seq(Lexeme)
    BY <1>2, TextType
  <2> QED BY <2>1
<1>4. Len(A) = a - p /\ Len(B) = b - a
  <2>1. p <= a /\ a <= b /\ b <= b /\ p \in Nat \ {0} /\ a \in Nat \ {0} /\ b \in Nat
        /\ b <= Len(text) + 1
    BY <1>2
  <2>2. Len(Text(text, <<p, a>>)) = a - p
    BY <2>1, TextParts
  <2>3. Len(Text(text, <<a, b>>)) = b - a
    BY <2>1, TextParts
  <2> QED BY <1>1, <2>2, <2>3
<1>5. Text(text, <<p, c>>) = (A \o B) \o C
  <2>1. Text(text, <<p, b>>) = A \o B
    <3>1. Text(text, <<p, a>>) \o Text(text, <<a, b>>) = Text(text, <<p, b>>)
      BY <1>2, TextParts, Zenon
    <3> QED BY <1>1, <3>1
  <2>2. p <= b
    OBVIOUS
  <2>3. Text(text, <<p, c>>) = Text(text, <<p, b>>) \o C
    <3>1. Text(text, <<p, b>>) \o Text(text, <<b, c>>) = Text(text, <<p, c>>)
      BY <2>2, TextParts, Zenon
    <3> QED BY <1>1, <3>1
  <2> QED BY <2>1, <2>3
<1>6. PICK T : T = Text(text, <<p, c>>) \o tail
  OBVIOUS
<1>7. PICK AB \in Seq(Lexeme) : AB = A \o B /\ Len(AB) = Len(A) + Len(B)
  BY ConcatProperties
<1>8. PICK CT \in Seq(Lexeme) : CT = C \o tail
  BY ConcatProperties
<1>9. T = AB \o CT /\ T = A \o (B \o CT) /\ B \o CT \in Seq(Lexeme)
  <2>1. T = (AB \o C) \o tail
    BY <1>5, <1>6, <1>7
  <2>2. (AB \o C) \o tail = AB \o (C \o tail)
    <3>1. Then(Then(AB, C), tail) = Then(AB, Then(C, tail))
      BY ThenIsAssociative
    <3> QED BY <3>1 DEF Then
  <2>3. (A \o B) \o CT = A \o (B \o CT)
    <3>1. Then(Then(A, B), CT) = Then(A, Then(B, CT))
      BY ThenIsAssociative
    <3> QED BY <3>1 DEF Then
  <2>4. B \o CT \in Seq(Lexeme)
    BY ConcatProperties
  <2> QED BY <1>7, <1>8, <2>1, <2>2, <2>3, <2>4
<1>10. SubSeq(T, 1, a - p) = A
  BY <1>4, <1>9, InTwoParts
<1>11. SubSeq(T, b - p + 1, Len(T)) = C \o tail
  <2>1. Len(AB) + 1 = b - p + 1
    BY <1>4, <1>7
  <2>2. SubSeq(AB \o CT, Len(AB) + 1, Len(AB \o CT)) = CT
    BY InTwoParts
  <2> QED BY <1>8, <1>9, <2>1, <2>2
<1>12. Splice(T, p, <<a, b>>, new) = (SubSeq(T, 1, a - p) \o new) \o SubSeq(T, b - p + 1, Len(T))
  BY DEF Splice
<1> QED BY <1>1, <1>6, <1>10, <1>11, <1>12 DEF SplicedIn

(* ------------------------------ What is kept ------------------------------ *)

\* The members of a sequence at some places, in their order.
LEMMA PickedOut ==
  ASSUME NEW s, IsSeq(s), NEW places, places \subseteq DOMAIN s
  PROVE  /\ IsSeq(Only(s, places)) /\ Len(Only(s, places)) <= Len(s)
         /\ \E at : /\ DOMAIN at = DOMAIN Only(s, places)
                    /\ \A i \in DOMAIN at : at[i] \in places /\ Only(s, places)[i] = s[at[i]]
                    /\ \A x \in places : \E i \in DOMAIN at : at[i] = x
                    /\ \A i, j \in DOMAIN at : i < j => at[i] < at[j]
<1>1. PICK at : at = Ascending(places)
  OBVIOUS
<1>2. PICK q : q = Only(s, places)
  OBVIOUS
<1>3. places \subseteq 1..Len(s) /\ Len(s) \in Nat
  BY DEF IsSeq
<1>4. places \subseteq Nat
  BY <1>3
<1>5. IsFiniteSet(places) /\ Cardinality(places) <= Len(s)
  <2>1. IsFiniteSet(1..Len(s)) /\ Cardinality(1..Len(s)) = Len(s)
    <3>1. 1 \in Int /\ Len(s) \in Int
      BY <1>3
    <3>2. IsFiniteSet(1..Len(s)) /\ Cardinality(1..Len(s)) = IF 1 > Len(s) THEN 0 ELSE Len(s) - 1 + 1
      BY <3>1, FS_Interval
    <3>3. (IF 1 > Len(s) THEN 0 ELSE Len(s) - 1 + 1) = Len(s)
      BY <1>3
    <3> QED BY <3>2, <3>3
  <2>2. IsFiniteSet(places) /\ Cardinality(places) <= Cardinality(1..Len(s))
    BY <1>3, <2>1, FS_Subset
  <2> QED BY <2>1, <2>2
<1>6. /\ IsSeq(at) /\ \A i \in DOMAIN at : at[i] \in places
      /\ \A x \in places : \E i \in DOMAIN at : at[i] = x
      /\ \A i, j \in DOMAIN at : i < j => at[i] < at[j]
  BY <1>1, <1>4, <1>5, AscendingSorts
<1>7. DOMAIN at = 1..Cardinality(places)
  BY <1>1 DEF Ascending, InOrder
<1>8. q = [n \in DOMAIN at |-> s[at[n]]]
  BY <1>1, <1>2 DEF Only, Each
<1>9. Cardinality(places) \in Nat
  BY <1>5, FS_CardinalityType
<1>10. IsSeq(q) /\ Len(q) = Cardinality(places)
  <2>1. q = [n \in 1..Cardinality(places) |-> q[n]]
    BY <1>7, <1>8
  <2> QED BY <1>9, <2>1, AsSequence
<1>11. DOMAIN at = DOMAIN q /\ \A i \in DOMAIN at : at[i] \in places /\ q[i] = s[at[i]]
  BY <1>6, <1>8
<1> QED BY <1>2, <1>5, <1>6, <1>10, <1>11

\* All of a sequence.
LEMMA AllOfIt ==
  ASSUME NEW s, IsSeq(s)
  PROVE  Only(s, DOMAIN s) = s
<1>1. PICK n \in Nat : n = Len(s) /\ DOMAIN s = 1..n
  BY DEF IsSeq
<1> DEFINE R == {p \in (1..n) \X (1..n) : p[1] < p[2]}
<1>2. ASSUME NEW x \in 1..n PROVE Cardinality({y \in 1..n : <<y, x>> \in R}) = x - 1
  <2>1. {y \in 1..n : <<y, x>> \in R} = 1..(x - 1)
    OBVIOUS
  <2>2. 1 \in Int /\ x - 1 \in Int
    OBVIOUS
  <2>3. Cardinality(1..(x - 1)) = IF 1 > x - 1 THEN 0 ELSE (x - 1) - 1 + 1
    BY <2>2, FS_Interval
  <2>4. (IF 1 > x - 1 THEN 0 ELSE (x - 1) - 1 + 1) = x - 1
    OBVIOUS
  <2> QED BY <2>1, <2>3, <2>4
<1>3. Cardinality(1..n) = n
  <2>1. 1 \in Int /\ n \in Int
    OBVIOUS
  <2>2. Cardinality(1..n) = IF 1 > n THEN 0 ELSE n - 1 + 1
    BY <2>1, FS_Interval
  <2> QED BY <2>2
<1>4. PICK at : at = Ascending(1..n)
  OBVIOUS
<1>5. at = [m \in 1..n |-> CHOOSE x \in 1..n : Cardinality({y \in 1..n : <<y, x>> \in R}) = m - 1]
  BY <1>3, <1>4 DEF Ascending, InOrder
<1> HIDE DEF R
<1>6. ASSUME NEW m \in 1..n PROVE at[m] = m
  <2>1. \A x \in 1..n : Cardinality({y \in 1..n : <<y, x>> \in R}) = m - 1 <=> x = m
    BY <1>2
  <2>2. at[m] = CHOOSE x \in 1..n : Cardinality({y \in 1..n : <<y, x>> \in R}) = m - 1
    BY <1>5
  <2> QED BY <2>1, <2>2
<1>7. Only(s, DOMAIN s) = [m \in 1..n |-> s[at[m]]]
  BY <1>1, <1>4, <1>5 DEF Only, Each
<1>8. Only(s, DOMAIN s) = [m \in 1..n |-> s[m]]
  BY <1>6, <1>7
<1> QED BY <1>1, <1>8 DEF IsSeq

(* ------------------------------ Spans in a row ---------------------------- *)

\* Spans that follow each other between two places of a text.
Row(spans, lo, hi) ==
  /\ IsSeq(spans) /\ lo \in Nat /\ hi \in Nat /\ 1 <= lo
  /\ \A i \in DOMAIN spans : /\ spans[i][1] \in Nat /\ spans[i][2] \in Nat
                             /\ lo <= spans[i][1] /\ spans[i][1] < spans[i][2] /\ spans[i][2] <= hi
  /\ \A i, j \in DOMAIN spans : i < j => spans[i][2] <= spans[j][1]

\* Spans that follow each other in a span stand in a row.
LEMMA ChainIsRow ==
  ASSUME NEW spans, IsSeq(spans), NEW lo \in Nat, NEW hi \in Nat, 1 <= lo,
         \A i \in DOMAIN spans : spans[i][1] \in Nat /\ spans[i][2] \in Nat, Chain(spans, <<lo, hi>>)
  PROVE  Row(spans, lo, hi)
BY DEF Row, Chain, Contains2

\* Spans in a row follow each other.
LEMMA RowFollows ==
  ASSUME NEW spans, NEW lo, NEW hi, Row(spans, lo, hi), NEW n \in Nat, hi <= n
  PROVE  Len(spans) \in Nat /\ DOMAIN spans = 1..Len(spans) /\ Follow(spans, Len(spans), n)
<1>1. PICK m \in Nat : m = Len(spans) /\ DOMAIN spans = 1..m
  BY DEF Row, IsSeq
<1>2. ASSUME NEW i \in 1..m
      PROVE  /\ spans[i][1] \in Nat /\ spans[i][2] \in Nat
             /\ 1 <= spans[i][1] /\ spans[i][1] <= spans[i][2] /\ spans[i][2] <= n
  <2>1. PICK a \in Nat, b \in Nat : a = spans[i][1] /\ b = spans[i][2] /\ lo <= a /\ a < b /\ b <= hi
    BY <1>1 DEF Row
  <2>2. lo \in Nat /\ hi \in Nat /\ 1 <= lo
    BY DEF Row
  <2>3. 1 <= a /\ a <= b /\ b <= n
    BY <2>1, <2>2
  <2> QED BY <2>1, <2>3
<1>3. ASSUME NEW i \in 1..(m - 1) PROVE spans[i][2] <= spans[i + 1][1]
  <2>1. i \in 1..m /\ i + 1 \in 1..m /\ i < i + 1
    OBVIOUS
  <2> QED BY <1>1, <2>1 DEF Row
<1> QED BY <1>1, <1>2, <1>3 DEF Follow

\* The first of the spans starts, and the last of them ends, what covers them all.
LEMMA RowCovered ==
  ASSUME NEW spans, NEW lo, NEW hi, Row(spans, lo, hi), Len(spans) # 0
  PROVE  \E a, b \in Nat :
           /\ a = spans[1][1] /\ b = spans[Len(spans)][2] /\ Covering(spans) = <<a, b>>
           /\ lo <= a /\ a < b /\ b <= hi
           /\ \A i \in DOMAIN spans : a <= spans[i][1] /\ spans[i][2] <= b
<1>1. PICK m \in Nat \ {0} : m = Len(spans) /\ DOMAIN spans = 1..m
  BY DEF Row, IsSeq
<1>2. 1 \in 1..m /\ m \in 1..m
  OBVIOUS
<1>3. PICK a \in Nat, b \in Nat, c \in Nat, d \in Nat :
        /\ a = spans[1][1] /\ c = spans[1][2] /\ d = spans[m][1] /\ b = spans[m][2]
        /\ lo <= a /\ a < c /\ d < b /\ b <= hi
  BY <1>1, <1>2 DEF Row
<1>4. \A i, j \in 1..m : i < j => spans[i][2] <= spans[j][1]
  BY <1>1 DEF Row
<1>5. \A i \in 1..m : spans[i][1] \in Nat /\ spans[i][2] \in Nat /\ spans[i][1] < spans[i][2]
  BY <1>1 DEF Row
<1>6. ASSUME NEW i \in 1..m PROVE a <= spans[i][1] /\ spans[i][2] <= b
  <2>1. PICK x \in Nat, y \in Nat : x = spans[i][1] /\ y = spans[i][2] /\ x < y
    BY <1>5
  <2>2. i = 1 \/ c <= x
    <3>1. i = 1 \/ 1 < i
      OBVIOUS
    <3> QED BY <1>2, <1>3, <1>4, <2>1, <3>1
  <2>3. i = m \/ y <= d
    <3>1. i = m \/ i < m
      OBVIOUS
    <3> QED BY <1>2, <1>3, <1>4, <2>1, <3>1
  <2>4. a <= x
    <3>1. CASE i = 1
      BY <1>3, <2>1, <3>1
    <3>2. CASE c <= x
      BY <1>3, <3>2
    <3> QED BY <2>2, <3>1, <3>2
  <2>5. y <= b
    <3>1. CASE i = m
      BY <1>3, <2>1, <3>1
    <3>2. CASE y <= d
      BY <1>3, <3>2
    <3> QED BY <2>3, <3>1, <3>2
  <2> QED BY <2>1, <2>4, <2>5
<1>7. a < b
  <2>1. c <= b
    BY <1>1, <1>2, <1>3, <1>6
  <2> QED BY <1>3, <2>1
<1>8. Covering(spans) = <<a, b>>
  BY <1>1, <1>3 DEF Covering
<1> QED BY <1>1, <1>3, <1>6, <1>7, <1>8

(* ---------------------------- The tree of a source ------------------------ *)

\* A source is a text, and its tree is made of places in it.
LEMMA SourceIsText ==
  ASSUME Parsed
  PROVE  src \in Seq(Lexeme) /\ Len(src) \in Nat /\ TreeFits(tree, Len(src) + 1)
<1>1. src \in Seq(STRING)
  BY DocumentsAreRead DEF Parsed, src
<1>6. src \in Seq(Lexeme)
  BY <1>1 DEF Lexeme
<1>2. PICK text : text = doc.source
  OBVIOUS
<1>3. /\ Readable(text, BuildMask(text))
      /\ IsSeq(doc.profile.lists) /\ doc.profile.entryArgs \in Nat
  BY <1>2, DocumentIsRead DEF Parsed
<1>4. tree = ParseMasked(text, BuildMask(text), doc.profile)
  BY <1>2 DEF Parsed, ParseResume
<1>5. TreeFits(tree, Len(text) + 1)
  BY <1>3, <1>4, TreeIsFit
<1> QED BY <1>1, <1>6, <1>2, <1>5 DEF src

\* Spans of nodes and bullets, as sequences.
LEMMA SpansAreSeq ==
  ASSUME NEW nodes, IsSeq(nodes)
  PROVE  /\ IsSeq(Spans(nodes)) /\ Len(Spans(nodes)) = Len(nodes) /\ DOMAIN Spans(nodes) = DOMAIN nodes
         /\ \A i \in DOMAIN nodes : Spans(nodes)[i] = nodes[i].span
         /\ IsSeq(Outers(nodes)) /\ Len(Outers(nodes)) = Len(nodes) /\ DOMAIN Outers(nodes) = DOMAIN nodes
         /\ \A i \in DOMAIN nodes : Outers(nodes)[i] = nodes[i].outer
<1>1. PICK n \in Nat : n = Len(nodes) /\ DOMAIN nodes = 1..n
  BY DEF IsSeq
<1>2. PICK a, b : a = Spans(nodes) /\ b = Outers(nodes)
  OBVIOUS
<1>3. a = [i \in 1..n |-> nodes[i].span] /\ b = [i \in 1..n |-> nodes[i].outer]
  BY <1>1, <1>2 DEF Spans, Outers
<1>4. a = [i \in 1..n |-> a[i]] /\ b = [i \in 1..n |-> b[i]]
  BY <1>3
<1>5. IsSeq(a) /\ Len(a) = n /\ IsSeq(b) /\ Len(b) = n
  BY <1>4, AsSequence
<1> QED BY <1>1, <1>2, <1>3, <1>5

\* Bullets before the first entry.
LooseFirst(section) ==
  \A i \in DOMAIN section.loose, e \in DOMAIN section.entries :
     section.loose[i].outer[2] <= section.entries[e].span[1]

\* The rows a section is made of.
SectionRows(section) ==
  /\ IsSeq(section.entries) /\ IsSeq(section.loose)
  /\ Row(Spans(section.entries), section.body[1], section.body[2])
  /\ Row(Outers(section.loose), section.body[1], section.body[2])
  /\ LooseFirst(section)
  /\ \A e \in DOMAIN section.entries :
        /\ IsSeq(section.entries[e].bullets)
        /\ Row(Outers(section.entries[e].bullets), section.entries[e].span[1], section.entries[e].span[2])

\* Where a section is, and what of it is its body.
SectionSpan(section, n) ==
  \E p, f, q \in Nat : /\ section.span[1] = p /\ section.span[2] = q
                       /\ section.body[1] = f /\ section.body[2] = q
                       /\ 1 <= p /\ p < f /\ p < q /\ q <= n

\* In a nested tree the sections stand in a row, and in each of them the members of all its lists.
LEMMA TreeInRows ==
  ASSUME Parsed, SpansNested
  PROVE  /\ IsSeq(tree) /\ Row(Spans(tree), 1, Len(src) + 1)
         /\ \A s \in DOMAIN tree : SectionSpan(tree[s], Len(src) + 1) /\ SectionRows(tree[s])
<1>1. PICK n \in Nat : n = Len(src) + 1
  BY SourceIsText
<1>2. TreeFits(tree, n)
  BY <1>1, SourceIsText
<1>3. TreeListed(tree)
  BY ParsedIsListed
<1>4. Nested(tree, src)
  BY DEF SpansNested
<1>5. IsSeq(tree)
  BY <1>3 DEF TreeListed, Listed
<1>6. Row(Spans(tree), 1, n)
  <2>1. \A s \in DOMAIN tree : tree[s].span[1] \in Nat /\ tree[s].span[2] \in Nat
    BY <1>2 DEF TreeFits
  <2>2. Chain(Spans(tree), <<1, n>>)
    BY <1>1, <1>4 DEF Nested, Whole
  <2>3. \A s \in DOMAIN Spans(tree) : Spans(tree)[s][1] \in Nat /\ Spans(tree)[s][2] \in Nat
    BY <1>5, <2>1, SpansAreSeq
  <2>4. IsSeq(Spans(tree))
    BY <1>5, SpansAreSeq
  <2> QED BY <2>2, <2>3, <2>4, ChainIsRow
<1>7. ASSUME NEW s \in DOMAIN tree
      PROVE  SectionSpan(tree[s], n) /\ SectionRows(tree[s])
  <2>1. PICK node : node = tree[s]
    OBVIOUS
  <2>2. /\ node.span[1] \in Nat /\ node.span[2] \in Nat /\ node.body[1] \in Nat
        /\ node.span[1] < node.body[1] /\ node.body[2] = node.span[2]
        /\ EntriesFit(node.entries, n) /\ BulletsFit(node.loose, n)
    BY <1>2, <2>1 DEF TreeFits
  <2>3. IsSeq(node.entries) /\ IsSeq(node.loose)
          /\ \A e \in DOMAIN node.entries : IsSeq(node.entries[e].bullets)
    BY <1>3, <2>1 DEF TreeListed, Listed
  <2>4. /\ Chain(Spans(node.entries), node.body)
        /\ Chain(Outers(node.loose) \o Spans(node.entries), node.body)
        /\ \A e \in DOMAIN node.entries : Chain(Outers(node.entries[e].bullets), node.entries[e].span)
    BY <1>4, <2>1 DEF Nested
  <2>5. SectionSpan(node, n)
    <3>1. /\ 1 <= node.span[1] /\ node.span[1] < node.span[2] /\ node.span[2] <= n
      BY <1>5, <1>6, <2>1, SpansAreSeq DEF Row
    <3> QED BY <2>2, <3>1 DEF SectionSpan
  <2>6. PICK f \in Nat, q \in Nat : f = node.body[1] /\ q = node.body[2] /\ 1 <= f
    BY <2>5 DEF SectionSpan
  <2>7. Row(Spans(node.entries), f, q)
    <3>1. IsSeq(Spans(node.entries))
      BY <2>3, SpansAreSeq
    <3>2. \A e \in DOMAIN Spans(node.entries) :
            Spans(node.entries)[e][1] \in Nat /\ Spans(node.entries)[e][2] \in Nat
      BY <2>2, <2>3, SpansAreSeq DEF EntriesFit
    <3>3. Chain(Spans(node.entries), <<f, q>>)
      BY <2>4, <2>6 DEF Chain, Contains2
    <3> QED BY <2>6, <3>1, <3>2, <3>3, ChainIsRow
  <2>8. PICK outers, spans, both :
          outers = Outers(node.loose) /\ spans = Spans(node.entries) /\ both = outers \o spans
    OBVIOUS
  <2>9. /\ IsSeq(outers) /\ DOMAIN outers = DOMAIN node.loose
        /\ \A i \in DOMAIN outers : outers[i] = node.loose[i].outer
    BY <2>3, <2>8, SpansAreSeq
  <2>10. /\ IsSeq(spans) /\ DOMAIN spans = DOMAIN node.entries
         /\ \A e \in DOMAIN spans : spans[e] = node.entries[e].span
    BY <2>3, <2>8, SpansAreSeq
  <2>11. PICK m \in Nat, l \in Nat :
           /\ m = Len(outers) /\ DOMAIN outers = 1..m /\ l = Len(spans) /\ DOMAIN spans = 1..l
           /\ outers = [i \in 1..m |-> outers[i]] /\ spans = [i \in 1..l |-> spans[i]]
    BY <2>9, <2>10 DEF IsSeq
  <2>12. /\ DOMAIN both = 1..(m + l) /\ \A i \in 1..m : both[i] = outers[i]
         /\ \A e \in 1..l : both[m + e] = spans[e]
    <3>1. \A i \in 1..(m + l) : both[i] = IF i <= m THEN outers[i] ELSE spans[i - m]
      BY <2>8, <2>11
    <3>2. DOMAIN both = 1..(m + l)
      BY <2>8, <2>11
    <3>3. \A i \in 1..m : both[i] = outers[i]
      BY <3>1
    <3>4. ASSUME NEW e \in 1..l PROVE both[m + e] = spans[e]
      <4>1. m + e \in 1..(m + l) /\ ~(m + e <= m) /\ m + e - m = e
        OBVIOUS
      <4> QED BY <3>1, <4>1
    <3> QED BY <3>2, <3>3, <3>4
  <2>13. /\ \A i \in DOMAIN both : both[i][1] < both[i][2] /\ f <= both[i][1] /\ both[i][2] <= q
         /\ \A i, j \in DOMAIN both : i < j => both[i][2] <= both[j][1]
    BY <2>4, <2>6, <2>8 DEF Chain, Contains2
  <2>14. Row(Outers(node.loose), f, q)
    <3>1. \A i \in DOMAIN outers : outers[i][1] \in Nat /\ outers[i][2] \in Nat
      BY <2>2, <2>9 DEF BulletsFit
    <3>2. \A i \in 1..m : i \in 1..(m + l)
      OBVIOUS
    <3>3. \A i \in DOMAIN outers : outers[i][1] < outers[i][2] /\ f <= outers[i][1] /\ outers[i][2] <= q
      BY <2>11, <2>12, <2>13, <3>2
    <3>4. \A i, j \in DOMAIN outers : i < j => outers[i][2] <= outers[j][1]
      BY <2>11, <2>12, <2>13, <3>2
    <3> QED BY <2>6, <2>8, <2>9, <3>1, <3>3, <3>4 DEF Row
  <2>15. LooseFirst(node)
    <3>1. ASSUME NEW i \in 1..m, NEW e \in 1..l PROVE outers[i][2] <= spans[e][1]
      <4>1. i \in 1..(m + l) /\ m + e \in 1..(m + l) /\ i < m + e
        OBVIOUS
      <4> QED BY <2>12, <2>13, <4>1
    <3>2. ASSUME NEW i \in DOMAIN node.loose, NEW e \in DOMAIN node.entries
          PROVE  node.loose[i].outer[2] <= node.entries[e].span[1]
      <4>1. i \in 1..m /\ outers[i] = node.loose[i].outer
        BY <2>9, <2>11
      <4>2. e \in 1..l /\ spans[e] = node.entries[e].span
        BY <2>10, <2>11
      <4>3. outers[i][2] <= spans[e][1]
        BY <3>1, <4>1, <4>2
      <4> QED BY <4>1, <4>2, <4>3
    <3> QED BY <3>2 DEF LooseFirst
  <2>16. ASSUME NEW e \in DOMAIN node.entries
         PROVE  Row(Outers(node.entries[e].bullets), node.entries[e].span[1], node.entries[e].span[2])
    <3>1. PICK entry : entry = node.entries[e]
      OBVIOUS
    <3>2. PICK a \in Nat, b \in Nat : a = entry.span[1] /\ b = entry.span[2] /\ 1 <= a
      <4>1. entry.span[1] \in Nat /\ entry.span[2] \in Nat
        BY <2>2, <3>1 DEF EntriesFit
      <4>2. f <= entry.span[1]
        BY <2>7, <2>8, <2>10, <3>1 DEF Row
      <4> QED BY <2>6, <4>1, <4>2
    <3>3. IsSeq(entry.bullets) /\ BulletsFit(entry.bullets, n)
      BY <2>2, <2>3, <3>1 DEF EntriesFit
    <3>4. IsSeq(Outers(entry.bullets))
      BY <3>3, SpansAreSeq
    <3>5. \A i \in DOMAIN Outers(entry.bullets) :
            Outers(entry.bullets)[i][1] \in Nat /\ Outers(entry.bullets)[i][2] \in Nat
      BY <3>3, SpansAreSeq DEF BulletsFit
    <3>6. Chain(Outers(entry.bullets), <<a, b>>)
      BY <2>4, <3>1, <3>2 DEF Chain, Contains2
    <3> QED BY <3>1, <3>2, <3>4, <3>5, <3>6, ChainIsRow
  <2>17. SectionRows(node)
    BY <2>3, <2>6, <2>7, <2>14, <2>15, <2>16 DEF SectionRows
  <2> QED BY <2>1, <2>5, <2>17
<1> QED BY <1>1, <1>5, <1>6, <1>7

(* -------------------------- Groups of bullets --------------------------- *)

\* What holds in every state of a plan over tidy documents, but for what has been rendered.
Settled == Ready /\ Inv /\ SpansNested

\* What the model proposes is text once it is escaped, whatever had to be escaped.
LEMMA EscapedIsText == ASSUME NEW text \in NewTexts PROVE EscapeTex(text) \in Seq(Lexeme)
<1> DEFINE s == [i \in DOMAIN text |-> Escaped(text[i])]
<1>1. text \in Seq(Lexeme)
  BY NewTextsAreTexts DEF Lexeme
<1>2. Len(text) \in Nat /\ DOMAIN text = 1..Len(text) /\ \A i \in 1..Len(text) : text[i] \in Lexeme
  BY <1>1
<1>3. \A x \in Lexeme : Escaped(x) \in Seq(Lexeme)
  <2> TAKE x \in Lexeme
  <2>1. <<"esc">> \in Seq(Lexeme) /\ <<"\\textbackslash", "esc", "esc">> \in Seq(Lexeme)
          /\ <<x>> \in Seq(Lexeme)
    <3>1. ASSUME NEW S, NEW a \in S, NEW b \in S PROVE <<a>> \in Seq(S) /\ <<b, a, a>> \in Seq(S)
      OBVIOUS
    <3>2. "esc" \in Lexeme /\ "\\textbackslash" \in Lexeme
      BY DEF Lexeme
    <3> QED BY <3>1, <3>2
  <2>2. Escaped(x) \in {<<"esc">>, <<"\\textbackslash", "esc", "esc">>, <<x>>}
    BY Zenon DEF Escaped
  <2> QED BY <2>1, <2>2, Zenon
<1>4. s \in [1..Len(text) -> Seq(Lexeme)]
  BY <1>2, <1>3
<1>5. EscapeTex(text) = FlattenSeq(s)
  BY DEF EscapeTex
<1> HIDE DEF s
<1>6. FlattenSeq(s) = Glue(s, 1, Len(text) + 1)
  BY <1>2, <1>4, FlattenIsGlue
<1>7. 1 \in Int /\ Len(text) + 1 \in Int /\ 1 <= Len(text) + 1
        /\ \A i \in 1..(Len(text) + 1 - 1) : s[i] \in Seq(Lexeme)
  BY <1>2, <1>4
<1>8. Glue(s, 1, Len(text) + 1) \in Seq(Lexeme)
  BY <1>7, GlueType
<1> QED BY <1>5, <1>6, <1>8

\* The span of the text a group of bullets stands in.
Home(k) == IF k[2] = 0 THEN tree[k[1]].body ELSE tree[k[1]].entries[k[2]].span

\* The bullets of a group stand in a row in its home.
LEMMA GroupRow ==
  ASSUME Settled, NEW k \in DOMAIN group
  PROVE  /\ IsSeq(BulletsAt(tree, k)) /\ Len(BulletsAt(tree, k)) # 0
         /\ BulletsFit(BulletsAt(tree, k), Len(src) + 1)
         /\ Row(Outers(BulletsAt(tree, k)), Home(k)[1], Home(k)[2]) /\ Home(k)[2] <= Len(src) + 1
<1>1. Parsed /\ SpansNested /\ k \in Places(tree) /\ BulletsAt(tree, k) # <<>>
  BY DEF Settled, Ready, Grouped
<1>2. k[1] \in DOMAIN tree /\ Len(tree[k[1]].entries) \in Nat /\ k[2] \in 0..Len(tree[k[1]].entries)
  BY <1>1, PlaceBounds
<1>3. SectionSpan(tree[k[1]], Len(src) + 1) /\ SectionRows(tree[k[1]]) /\ TreeFits(tree, Len(src) + 1)
  BY <1>1, <1>2, TreeInRows, SourceIsText
<1> DEFINE s == tree[k[1]]
<1>4. BulletsFit(s.loose, Len(src) + 1) /\ EntriesFit(s.entries, Len(src) + 1)
  BY <1>2, <1>3 DEF TreeFits
<1>5. PICK q \in Nat : s.span[2] = q /\ s.body[2] = q /\ q <= Len(src) + 1
  BY <1>3 DEF SectionSpan
<1>6. IsSeq(s.entries) /\ IsSeq(s.loose) /\ Row(Spans(s.entries), s.body[1], s.body[2])
      /\ Row(Outers(s.loose), s.body[1], s.body[2])
  BY <1>3 DEF SectionRows
<1>7. CASE k[2] = 0
  <2>1. BulletsAt(tree, k) = s.loose /\ Home(k) = s.body
    BY <1>7 DEF BulletsAt, Home
  <2>2. Len(s.loose) # 0
    BY <1>1, <1>6, <2>1 DEF IsSeq
  <2> QED BY <2>1, <2>2, <1>4, <1>5, <1>6
<1>8. CASE k[2] # 0
  <2> DEFINE e == k[2]
  <2>1. BulletsAt(tree, k) = s.entries[e].bullets /\ Home(k) = s.entries[e].span
    BY <1>8 DEF BulletsAt, Home
  <2>2. e \in DOMAIN s.entries
    BY <1>2, <1>8, <1>6 DEF IsSeq
  <2>3. IsSeq(s.entries[e].bullets)
          /\ Row(Outers(s.entries[e].bullets), s.entries[e].span[1], s.entries[e].span[2])
    BY <1>3, <2>2 DEF SectionRows
  <2>4. Len(s.entries[e].bullets) # 0
    <3>1. ASSUME NEW t, IsSeq(t), t # <<>> PROVE Len(t) # 0
      BY <3>1 DEF IsSeq
    <3>2. s.entries[e].bullets # <<>>
      BY <1>1, <2>1
    <3> QED BY <2>3, <3>1, <3>2
  <2>5. BulletsFit(s.entries[e].bullets, Len(src) + 1)
    BY <1>4, <2>2 DEF EntriesFit
  <2>6. e \in DOMAIN Spans(s.entries) /\ Spans(s.entries)[e] = s.entries[e].span
    BY <1>6, <2>2, SpansAreSeq
  <2>7. s.entries[e].span[2] \in Nat /\ s.entries[e].span[2] <= q
    BY <1>5, <1>6, <2>6 DEF Row
  <2>8. Len(src) \in Nat
    BY <1>1, SourceIsText
  <2>9. s.entries[e].span[2] <= Len(src) + 1
    BY <2>7, <2>8, <1>5
  <2> QED BY <2>1, <2>3, <2>4, <2>5, <2>9
<1> QED BY <1>7, <1>8

\* The region of a group lies in its home.
LEMMA RegionIn ==
  ASSUME Settled, NEW k \in DOMAIN group
  PROVE  \E a, b \in Nat : /\ Region(k) = <<a, b>> /\ 1 <= a /\ a < b /\ b <= Len(src) + 1
                           /\ Home(k)[1] <= a /\ b <= Home(k)[2]
<1> DEFINE outers == Outers(BulletsAt(tree, k))
<1>1. Row(outers, Home(k)[1], Home(k)[2]) /\ Home(k)[2] <= Len(src) + 1 /\ Len(outers) # 0
  BY GroupRow, SpansAreSeq
<1>2. Home(k)[1] \in Nat /\ Home(k)[2] \in Nat /\ 1 <= Home(k)[1]
  BY <1>1 DEF Row
<1>3. Len(src) \in Nat
  BY SourceIsText DEF Settled, Ready
<1>4. PICK a, b \in Nat : Covering(outers) = <<a, b>> /\ Home(k)[1] <= a /\ a < b /\ b <= Home(k)[2]
  <2> HIDE DEF outers
  <2> QED BY <1>1, RowCovered
<1>5. Region(k) = <<a, b>>
  BY <1>4 DEF Region
<1> QED BY <1>1, <1>2, <1>3, <1>4, <1>5

\* A new text is text behind what it is put behind, run on or not.
LEMMA JoinedIsText ==
  ASSUME NEW before \in Seq(Lexeme), NEW new \in Seq(Lexeme)
  PROVE  Joined(before, new) \in Seq(Lexeme)
<1>1. CASE RunsOn(before, new)
  <2>1. new # <<>>
    BY <1>1 DEF RunsOn
  <2>2. Tail(new) \in Seq(Lexeme)
    BY <2>1
  <2>3. "\\itemword" \in Lexeme
    BY DEF Lexeme
  <2>4. <<"\\itemword">> \in Seq(Lexeme)
    BY <2>3
  <2> QED BY <1>1, <2>2, <2>4 DEF Joined
<1>2. CASE ~RunsOn(before, new)
  BY <1>2 DEF Joined
<1> QED BY <1>1, <1>2

\* A bullet is text, reworded or not: what encloses it is taken from the source.
LEMMA BulletIsText ==
  ASSUME Settled, NEW k \in DOMAIN group, NEW i \in DOMAIN BulletsAt(tree, k)
  PROVE  BulletText(k, i) \in Seq(Lexeme)
<1> DEFINE b == BulletsAt(tree, k)[i]
           n == Len(src) + 1
<1>1. src \in Seq(Lexeme) /\ Len(src) \in Nat
  BY SourceIsText DEF Settled, Ready
<1>2. IsSeq(BulletsAt(tree, k)) /\ BulletsFit(BulletsAt(tree, k), n) /\ Home(k)[2] <= n
      /\ Row(Outers(BulletsAt(tree, k)), Home(k)[1], Home(k)[2])
  BY GroupRow
<1>3. Outers(BulletsAt(tree, k))[i] = b.outer /\ i \in DOMAIN Outers(BulletsAt(tree, k))
  BY <1>2, SpansAreSeq
<1>4. PICK lo \in Nat, hi \in Nat : lo = Home(k)[1] /\ hi = Home(k)[2] /\ 1 <= lo
  BY <1>2 DEF Row
<1>5. PICK p \in Nat, q \in Nat : p = b.outer[1] /\ q = b.outer[2] /\ lo <= p /\ p < q /\ q <= hi
  BY <1>2, <1>3, <1>4 DEF Row
<1>6. PICK c \in Nat, d \in Nat : c = b.inner[1] /\ d = b.inner[2] /\ c <= n /\ 1 <= d
  BY <1>2 DEF BulletsFit, InnerFits
<1>7. p \in Nat \ {0} /\ q <= n /\ d \in Nat \ {0}
  BY <1>1, <1>2, <1>4, <1>5, <1>6
<1>8. Text(src, <<p, c>>) \in Seq(Lexeme) /\ Text(src, <<d, q>>) \in Seq(Lexeme)
        /\ Text(src, <<p, q>>) \in Seq(Lexeme)
  BY <1>1, <1>6, <1>7, TextType
<1>9. Text(src, b.outer) = Text(src, <<p, q>>)
  BY <1>5 DEF Text
<1>10. CASE i \in DOMAIN group[k].rewrites
  <2>1. PICK text \in NewTexts : group[k].rewrites[i] = EscapeTex(text)
    BY <1>10 DEF Settled, Inv, Accounted, Admissible
  <2>2. group[k].rewrites[i] \in Seq(Lexeme)
    BY <2>1, EscapedIsText
  <2>3. BulletText(k, i) = Joined(Text(src, <<p, c>>), group[k].rewrites[i]) \o Text(src, <<d, q>>)
    BY <1>5, <1>6, <1>10 DEF BulletText
  <2>4. Joined(Text(src, <<p, c>>), group[k].rewrites[i]) \in Seq(Lexeme)
    BY <1>8, <2>2, JoinedIsText
  <2>5. PICK v \in Seq(Lexeme) : v = Joined(Text(src, <<p, c>>), group[k].rewrites[i])
    BY <2>4
  <2>6. PICK w \in Seq(Lexeme) : w = Text(src, <<d, q>>)
    BY <1>8
  <2>7. v \o w \in Seq(Lexeme)
    OBVIOUS
  <2> QED BY <2>3, <2>5, <2>6, <2>7
<1>11. CASE i \notin DOMAIN group[k].rewrites
  BY <1>8, <1>9, <1>11 DEF BulletText
<1> QED BY <1>10, <1>11

\* What is kept of a group are bullets of it.
LEMMA KeptAre ==
  ASSUME Settled, NEW k \in DOMAIN group
  PROVE  /\ IsSeq(Kept(k)) /\ Len(Kept(k)) <= Len(BulletsAt(tree, k))
         /\ \A i \in DOMAIN Kept(k) : Kept(k)[i] \in DOMAIN BulletsAt(tree, k)
<1> DEFINE order == group[k].order
           f == [i \in DOMAIN order |-> order[i]]
           places == {n \in DOMAIN order : order[n] \notin group[k].dropped}
<1>1. PICK n \in Nat : n = Len(BulletsAt(tree, k)) /\ DOMAIN BulletsAt(tree, k) = 1..n /\ n # 0
  BY GroupRow DEF IsSeq
<1>2. DOMAIN order = 1..n
  BY <1>1 DEF Settled, Ready, OrdersOk, GroupsOrdered, GroupOrdered, IsOrder
<1>3. Bijective(order, n)
  BY <1>1, Ordered DEF Settled
<1>4. order # <<>>
  BY <1>1, <1>2
<1>5. \A m \in 1..n : order[m] \in 1..n
  BY <1>3, <1>4 DEF Bijective, StandsAt
<1>6. IsSeq(f) /\ Len(f) = n
  <2>1. f = [i \in 1..n |-> f[i]]
    BY <1>2
  <2> HIDE DEF f
  <2> QED BY <2>1, AsSequence
<1>7. DOMAIN f = 1..n /\ \A i \in 1..n : f[i] = order[i]
  BY <1>2
<1>8. places \subseteq DOMAIN f
  BY <1>2, <1>7
<1>9. Only(f, places) = Only(order, places)
  <2>1. places \subseteq Nat /\ IsFiniteSet(places)
    <3>1. places \subseteq 1..n
      BY <1>2
    <3> HIDE DEF places
    <3>2. IsFiniteSet(1..n)
      BY FS_Interval
    <3>3. IsFiniteSet(places)
      BY <3>1, <3>2, FS_Subset
    <3> QED BY <3>1, <3>3
  <2> HIDE DEF places
  <2>2. \A i \in DOMAIN Ascending(places) : Ascending(places)[i] \in places
    BY <2>1, AscendingSorts
  <2>3. \A i \in DOMAIN Ascending(places) : f[Ascending(places)[i]] = order[Ascending(places)[i]]
    BY <2>2, <1>7, <1>8
  <2> HIDE DEF f
  <2> QED BY <2>3 DEF Only, Each
<1>10. Kept(k) = Only(f, places)
  BY <1>9 DEF Kept
<1> HIDE DEF f, places
<1>11. /\ IsSeq(Only(f, places)) /\ Len(Only(f, places)) <= Len(f)
       /\ \E at : /\ DOMAIN at = DOMAIN Only(f, places)
                  /\ \A i \in DOMAIN at : at[i] \in places /\ Only(f, places)[i] = f[at[i]]
                  /\ \A x \in places : \E i \in DOMAIN at : at[i] = x
                  /\ \A i, j \in DOMAIN at : i < j => at[i] < at[j]
  BY <1>6, <1>8, PickedOut
<1>12. \A i \in DOMAIN Only(f, places) : Only(f, places)[i] \in 1..n
  BY <1>5, <1>7, <1>8, <1>11
<1> QED BY <1>1, <1>6, <1>10, <1>11, <1>12

\* A group is rendered as a text.
LEMMA GroupIsText ==
  ASSUME Settled, NEW k \in DOMAIN group
  PROVE  GroupText(k) \in Seq(Lexeme)
<1> DEFINE bullets == BulletsAt(tree, k)
           texts == [i \in DOMAIN bullets |-> BulletText(k, i)]
<1>1. PICK n \in Nat : n = Len(bullets) /\ DOMAIN bullets = 1..n
  BY GroupRow DEF IsSeq
<1>2. PICK m \in Nat : m = Len(Kept(k)) /\ DOMAIN Kept(k) = 1..m /\ m <= n
  BY <1>1, KeptAre DEF IsSeq
<1>3. src \in Seq(Lexeme) /\ Len(src) + 1 \in Nat
  BY SourceIsText DEF Settled, Ready
<1>4. Follow(Outers(bullets), n, Len(src) + 1)
  <2>1. /\ Row(Outers(bullets), Home(k)[1], Home(k)[2]) /\ Home(k)[2] <= Len(src) + 1
        /\ Len(Outers(bullets)) = n
    BY <1>1, GroupRow, SpansAreSeq
  <2> QED BY <1>3, <2>1, RowFollows
<1>5. Follow(Outers(bullets), m, Len(src) + 1)
  BY <1>2, <1>4 DEF Follow
<1>6. \A i \in 1..m : texts[Kept(k)[i]] \in Seq(Lexeme)
  BY <1>2, KeptAre, BulletIsText
<1> HIDE DEF texts
<1>7. RenderGroup(Outers(bullets), Kept(k), texts) \in Seq(Lexeme)
  BY <1>2, <1>3, <1>5, <1>6, RenderedPieces
<1> QED BY <1>7 DEF GroupText, texts

\* Of three positions in order the first is not after the last.
LEMMA InOrderOfThree ==
  ASSUME NEW a \in Nat, NEW b \in Nat, NEW c \in Nat, a <= b, b <= c
  PROVE  a <= c
OBVIOUS

\* A group nothing is pending for is rendered as what stands in the source.
LEMMA UntouchedGroup ==
  ASSUME Settled, NEW k \in DOMAIN group, ~Mutated(k)
  PROVE  GroupText(k) = Text(src, Region(k))
<1> DEFINE bullets == BulletsAt(tree, k)
           texts == [i \in DOMAIN bullets |-> BulletText(k, i)]
           spans == Outers(bullets)
           P == [i \in 1..Len(src) |-> <<src[i]>>]
<1>1. PICK n \in Nat \ {0} : n = Len(bullets) /\ DOMAIN bullets = 1..n
  BY GroupRow DEF IsSeq
<1>2. src \in Seq(Lexeme) /\ Len(src) \in Nat /\ Len(src) + 1 \in Nat
  BY SourceIsText DEF Settled, Ready
<1>3. /\ Row(spans, Home(k)[1], Home(k)[2]) /\ Home(k)[2] <= Len(src) + 1
      /\ Len(spans) = n /\ \A i \in 1..n : spans[i] = bullets[i].outer
  BY <1>1, GroupRow, SpansAreSeq
<1>4. group[k].rewrites = <<>> /\ group[k].dropped = {} /\ group[k].order = Identity(n)
  BY <1>1 DEF Mutated
<1>5. Kept(k) = Identity(n)
  <2>1. IsSeq(Identity(n))
    BY AsSequence DEF Identity
  <2>2. Kept(k) = Only(Identity(n), DOMAIN Identity(n))
    BY <1>4 DEF Kept
  <2> QED BY <2>1, <2>2, AllOfIt
<1>6. \A i \in 1..n : texts[i] = Text(src, spans[i])
  BY <1>1, <1>3, <1>4 DEF BulletText
<1>7. \A i \in 1..n : texts[i] \in Seq(Lexeme)
  BY <1>1, BulletIsText
<1>8. \A i \in 1..Len(src) : P[i] \in Seq(Lexeme) /\ P[i] = <<src[i]>>
  BY <1>2
<1>9. Follow(spans, n, Len(src) + 1)
  <2> HIDE DEF spans
  <2> QED BY <1>2, <1>3, RowFollows
<1> HIDE DEF texts, P, spans
<1>10. ASSUME NEW a \in Nat, NEW b \in Nat, 1 <= a, a <= b, b <= Len(src) + 1
       PROVE  Glue(P, a, b) = Text(src, <<a, b>>)
  <2>1. a \in Nat \ {0} /\ \A i \in a..(b - 1) : P[i] = <<src[i]>>
    BY <1>2, <1>8, <1>10
  <2> QED BY <1>2, <1>10, <2>1, GlueText
<1>11. ASSUME NEW i \in 1..n
       PROVE  /\ spans[i][1] \in Nat /\ spans[i][2] \in Nat /\ 1 <= spans[i][1]
              /\ spans[i][1] <= spans[i][2] /\ spans[i][2] <= Len(src) + 1
  BY <1>9 DEF Follow
<1>12. Fits(TRUE, P, spans, texts, n)
  <2>1. ASSUME NEW i \in 1..n PROVE texts[i] = Glue(P, spans[i][1], spans[i][2])
    <3>1. Glue(P, spans[i][1], spans[i][2]) = Text(src, <<spans[i][1], spans[i][2]>>)
      BY <1>10, <1>11
    <3>2. Text(src, <<spans[i][1], spans[i][2]>>) = Text(src, spans[i])
      BY DEF Text
    <3> QED BY <3>1, <3>2, <1>6
  <2> QED BY <2>1 DEF Fits, Same
<1>13. ASSUME NEW i \in 1..(n - 1)
       PROVE  Same(TRUE, Text(src, <<spans[i][2], spans[i + 1][1]>>), Glue(P, spans[i][2], spans[i + 1][1]))
  <2>1. i \in 1..n /\ i + 1 \in 1..n
    OBVIOUS
  <2>2. spans[i][2] <= spans[i + 1][1]
    BY <1>9 DEF Follow
  <2>3. spans[i][2] \in Nat /\ 1 <= spans[i][2] /\ spans[i + 1][1] \in Nat /\ spans[i + 1][1] <= Len(src) + 1
    <3>1. /\ spans[i][1] \in Nat /\ spans[i][2] \in Nat
          /\ 1 <= spans[i][1] /\ spans[i][1] <= spans[i][2]
      BY <2>1, <1>11
    <3>2. /\ spans[i + 1][1] \in Nat /\ spans[i + 1][2] \in Nat
          /\ spans[i + 1][1] <= spans[i + 1][2] /\ spans[i + 1][2] <= Len(src) + 1
      BY <2>1, <1>11
    <3>3. 1 <= spans[i][2]
      <4>1. 1 \in Nat
        OBVIOUS
      <4> QED BY <4>1, <3>1, InOrderOfThree, Zenon
    <3>4. spans[i + 1][1] <= Len(src) + 1
      BY <1>2, <3>2, InOrderOfThree, Zenon
    <3> QED BY <3>1, <3>2, <3>3, <3>4
  <2> QED BY <1>10, <2>2, <2>3 DEF Same
<1>14. Same(TRUE, RenderGroup(spans, Identity(n), texts), Glue(P, spans[1][1], spans[n][2]))
  <2>1. \A i \in 1..Len(src) : P[i] \in Seq(Lexeme)
    BY <1>8
  <2> QED BY <1>2, <2>1, <1>7, <1>9, <1>12, <1>13, RenderedInPlace
<1>15. Region(k) = <<spans[1][1], spans[n][2]>>
  BY <1>3 DEF Region, Covering, spans
<1>16. PICK a, b \in Nat : Region(k) = <<a, b>> /\ 1 <= a /\ a < b /\ b <= Len(src) + 1
  BY RegionIn
<1>17. Glue(P, spans[1][1], spans[n][2]) = Text(src, Region(k))
  <2>1. spans[1][1] = a /\ spans[n][2] = b
    BY <1>15, <1>16
  <2> QED BY <2>1, <1>10, <1>16
<1>18. GroupText(k) = RenderGroup(spans, Identity(n), texts)
  BY <1>5 DEF GroupText, spans, texts
<1> QED BY <1>14, <1>17, <1>18 DEF Same

(* ------------------------ Where the groups stand ------------------------ *)

\* An entry lies in the body of its section.
LEMMA EntryIn ==
  ASSUME Settled, NEW s \in DOMAIN tree, NEW e \in DOMAIN tree[s].entries
  PROVE  \E a, b \in Nat : /\ tree[s].entries[e].span[1] = a /\ tree[s].entries[e].span[2] = b
                           /\ a < b /\ tree[s].body[1] <= a /\ b <= tree[s].body[2]
<1>1. SectionRows(tree[s])
  BY TreeInRows DEF Settled, Ready
<1>2. IsSeq(tree[s].entries) /\ Row(Spans(tree[s].entries), tree[s].body[1], tree[s].body[2])
  BY <1>1 DEF SectionRows
<1>3. e \in DOMAIN Spans(tree[s].entries) /\ Spans(tree[s].entries)[e] = tree[s].entries[e].span
  BY <1>2, SpansAreSeq
<1> QED BY <1>2, <1>3 DEF Row

\* A section lies in the source, and its body in the section.
LEMMA SectionIn ==
  ASSUME Settled, NEW s \in DOMAIN tree
  PROVE  \E p, f, q \in Nat : /\ tree[s].span[1] = p /\ tree[s].span[2] = q
                              /\ tree[s].body[1] = f /\ tree[s].body[2] = q
                              /\ 1 <= p /\ p < f /\ p < q /\ q <= Len(src) + 1
<1>1. SectionSpan(tree[s], Len(src) + 1)
  BY TreeInRows DEF Settled, Ready
<1> QED BY <1>1 DEF SectionSpan

\* A region from a to b lies in the entry, or before all entries of the section.
RegionBounds(k, a, b) ==
  /\ k[1] \in DOMAIN tree /\ tree[k[1]].span[1] <= a /\ b <= tree[k[1]].span[2]
  /\ k[2] # 0 => /\ k[2] \in DOMAIN tree[k[1]].entries
                 /\ tree[k[1]].entries[k[2]].span[1] <= a /\ b <= tree[k[1]].entries[k[2]].span[2]
  /\ k[2] = 0 => \A e \in DOMAIN tree[k[1]].entries : b <= tree[k[1]].entries[e].span[1]

\* The region of a group lies where its place says.
LEMMA RegionPlace ==
  ASSUME Settled, NEW k \in DOMAIN group
  PROVE  \E a, b \in Nat : /\ Region(k) = <<a, b>> /\ 1 <= a /\ a < b /\ b <= Len(src) + 1
                           /\ RegionBounds(k, a, b) /\ k[2] \in 0..Len(tree[k[1]].entries)
<1>1. PICK a, b \in Nat : /\ Region(k) = <<a, b>> /\ 1 <= a /\ a < b /\ b <= Len(src) + 1
                          /\ Home(k)[1] <= a /\ b <= Home(k)[2]
  BY RegionIn
<1>2. Parsed /\ SpansNested /\ k \in Places(tree)
  BY DEF Settled, Ready, Grouped
<1>3. k[1] \in DOMAIN tree /\ Len(tree[k[1]].entries) \in Nat /\ k[2] \in 0..Len(tree[k[1]].entries)
  BY <1>2, PlaceBounds
<1>4. SectionRows(tree[k[1]])
  BY <1>2, <1>3, TreeInRows
<1>5. PICK p, f, q \in Nat : /\ tree[k[1]].span[1] = p /\ tree[k[1]].span[2] = q
                             /\ tree[k[1]].body[1] = f /\ tree[k[1]].body[2] = q /\ p < f
  BY <1>3, SectionIn
<1>6. CASE k[2] = 0
  <2>1. Home(k) = tree[k[1]].body /\ BulletsAt(tree, k) = tree[k[1]].loose
    BY <1>6 DEF Home, BulletsAt
  <2>2. p <= a /\ b <= q
    BY <1>1, <1>5, <2>1
  <2>3. PICK n \in Nat : n = Len(tree[k[1]].loose) /\ DOMAIN tree[k[1]].loose = 1..n /\ n # 0
    BY <2>1, GroupRow DEF IsSeq
  <2>4. Len(Outers(tree[k[1]].loose)) = n /\ Outers(tree[k[1]].loose)[n] = tree[k[1]].loose[n].outer
    <3>1. IsSeq(tree[k[1]].loose)
      BY <2>1, GroupRow
    <3> QED BY <2>3, <3>1, SpansAreSeq
  <2>5. b = tree[k[1]].loose[n].outer[2]
    BY <1>1, <2>1, <2>4 DEF Region, Covering
  <2>6. \A e \in DOMAIN tree[k[1]].entries : b <= tree[k[1]].entries[e].span[1]
    BY <1>4, <2>3, <2>5 DEF SectionRows, LooseFirst
  <2> QED BY <1>1, <1>3, <1>5, <1>6, <2>2, <2>6 DEF RegionBounds
<1>7. CASE k[2] # 0
  <2>1. Home(k) = tree[k[1]].entries[k[2]].span
    BY <1>7 DEF Home
  <2>2. k[2] \in DOMAIN tree[k[1]].entries
    BY <1>3, <1>4, <1>7 DEF SectionRows, IsSeq
  <2>3. PICK c, d \in Nat : /\ tree[k[1]].entries[k[2]].span[1] = c /\ tree[k[1]].entries[k[2]].span[2] = d
                            /\ c < d /\ tree[k[1]].body[1] <= c /\ d <= tree[k[1]].body[2]
    BY <1>3, <2>2, EntryIn
  <2>5. f <= c /\ d <= q
    BY <1>5, <2>3
  <2>4. p <= a /\ b <= q
    BY <1>1, <1>5, <2>1, <2>3, <2>5
  <2> QED BY <1>1, <1>3, <1>5, <1>7, <2>1, <2>2, <2>4 DEF RegionBounds
<1> QED BY <1>6, <1>7

\* The regions of the groups follow each other as the groups do.
LEMMA RegionsFollow ==
  ASSUME Settled, NEW k \in DOMAIN group, NEW l \in DOMAIN group, Before(k, l)
  PROVE  Region(k)[2] <= Region(l)[1]
<1>1. PICK a, b \in Nat : /\ Region(k) = <<a, b>> /\ a < b /\ RegionBounds(k, a, b)
                          /\ k[2] \in 0..Len(tree[k[1]].entries)
  BY RegionPlace
<1>2. PICK c, d \in Nat : /\ Region(l) = <<c, d>> /\ c < d /\ RegionBounds(l, c, d)
                          /\ l[2] \in 0..Len(tree[l[1]].entries)
  BY RegionPlace
<1>3. Parsed /\ SpansNested
  BY DEF Settled, Ready
<1>4. k[1] \in DOMAIN tree /\ l[1] \in DOMAIN tree
  BY <1>1, <1>2 DEF RegionBounds
<1>5. CASE k[1] < l[1]
  <2>1. Row(Spans(tree), 1, Len(src) + 1) /\ IsSeq(tree)
    BY <1>3, TreeInRows
  <2>2. /\ Spans(tree)[k[1]] = tree[k[1]].span /\ Spans(tree)[l[1]] = tree[l[1]].span
        /\ DOMAIN Spans(tree) = DOMAIN tree
    BY <1>4, <2>1, SpansAreSeq
  <2>3. tree[k[1]].span[2] <= tree[l[1]].span[1]
    BY <1>4, <1>5, <2>1, <2>2 DEF Row
  <2>4. PICK q \in Nat : tree[k[1]].span[2] = q
    BY <1>4, SectionIn
  <2>5. PICK p \in Nat : tree[l[1]].span[1] = p
    BY <1>4, SectionIn
  <2>6. b <= q /\ p <= c
    BY <1>1, <1>2, <2>4, <2>5 DEF RegionBounds
  <2> QED BY <1>1, <1>2, <2>3, <2>4, <2>5, <2>6
<1>6. CASE k[1] = l[1] /\ k[2] < l[2]
  <2> DEFINE entries == tree[k[1]].entries
  <2>1. l[2] # 0 /\ l[2] \in DOMAIN entries
    <3>1. IsSeq(entries)
      BY <1>3, <1>4, TreeInRows DEF SectionRows
    <3>2. PICK n \in Nat : n = Len(entries) /\ DOMAIN entries = 1..n
      BY <3>1 DEF IsSeq
    <3>3. k[2] \in 0..n /\ l[2] \in 0..n
      BY <1>1, <1>2, <1>6, <3>2
    <3> QED BY <1>6, <3>2, <3>3
  <2>2. PICK e \in Nat : e = entries[l[2]].span[1]
    BY <1>4, <2>1, EntryIn
  <2>3. e <= c
    BY <1>2, <1>6, <2>1, <2>2 DEF RegionBounds
  <2>4. CASE k[2] = 0
    <3>1. b <= e
      BY <1>1, <2>1, <2>2, <2>4 DEF RegionBounds
    <3> QED BY <1>1, <1>2, <2>3, <3>1
  <2>5. CASE k[2] # 0
    <3>1. k[2] \in DOMAIN entries /\ b <= entries[k[2]].span[2]
      BY <1>1, <2>5 DEF RegionBounds
    <3>2. Row(Spans(entries), tree[k[1]].body[1], tree[k[1]].body[2]) /\ IsSeq(entries)
      BY <1>3, <1>4, TreeInRows DEF SectionRows
    <3>3. /\ Spans(entries)[k[2]] = entries[k[2]].span /\ Spans(entries)[l[2]] = entries[l[2]].span
          /\ DOMAIN Spans(entries) = DOMAIN entries
      BY <3>1, <2>1, <3>2, SpansAreSeq
    <3>4. entries[k[2]].span[2] <= entries[l[2]].span[1]
      BY <1>6, <2>1, <3>1, <3>2, <3>3 DEF Row
    <3>5. PICK d2 \in Nat : d2 = entries[k[2]].span[2]
      BY <1>4, <3>1, EntryIn
    <3>6. b <= d2 /\ d2 <= e
      BY <2>2, <3>1, <3>4, <3>5
    <3> HIDE DEF entries
    <3> QED BY <1>1, <1>2, <2>3, <3>6
  <2> QED BY <2>4, <2>5
<1> QED BY <1>5, <1>6 DEF Before

\* A group is named by a section and an entry.
LEMMA GroupKeys ==
  ASSUME Settled, NEW k \in DOMAIN group
  PROVE  k[1] \in Nat /\ k[2] \in Nat /\ k[1] \in DOMAIN tree /\ k = <<k[1], k[2]>>
<1>1. Parsed /\ k \in Places(tree)
  BY DEF Settled, Ready, Grouped
<1>2. Len(tree) \in Nat /\ DOMAIN tree = 1..Len(tree) /\ k[1] \in DOMAIN tree /\ k = <<k[1], k[2]>>
  BY <1>1, PlaceBounds
<1>3. PICK n \in Nat : n = Len(tree[k[1]].entries) /\ k[2] \in 0..n
  BY <1>1, PlaceBounds
<1> QED BY <1>2, <1>3

\* Of two groups one comes first.
LEMMA GroupsCompare ==
  ASSUME Settled, NEW k \in DOMAIN group, NEW l \in DOMAIN group
  PROVE  k = l \/ Before(k, l) \/ Before(l, k)
<1>1. PICK a \in Nat, b \in Nat, c \in Nat, d \in Nat : a = k[1] /\ b = k[2] /\ c = l[1] /\ d = l[2]
  BY GroupKeys
<1>2. k = <<a, b>> /\ l = <<c, d>>
  BY <1>1, GroupKeys
<1> QED BY <1>1, <1>2 DEF Before

\* The regions and the rendered texts of the groups.
Regions == [k \in DOMAIN group |-> Region(k)]
GroupTexts == [k \in DOMAIN group |-> GroupText(k)]

\* No region of a group meets another.
LEMMA RegionsApart ==
  ASSUME Settled
  PROVE  SpansApart(Regions, DOMAIN group, Len(src) + 1)
<1>1. ASSUME NEW k \in DOMAIN group
      PROVE  /\ Regions[k][1] \in Nat /\ Regions[k][2] \in Nat
             /\ 1 <= Regions[k][1] /\ Regions[k][1] < Regions[k][2] /\ Regions[k][2] <= Len(src) + 1
  <2>1. PICK a, b \in Nat : Region(k) = <<a, b>> /\ 1 <= a /\ a < b /\ b <= Len(src) + 1
    BY RegionIn
  <2>2. Regions[k] = <<a, b>>
    BY <2>1 DEF Regions
  <2> QED BY <2>1, <2>2
<1>2. ASSUME NEW k \in DOMAIN group, NEW l \in DOMAIN group, k # l
      PROVE  Regions[k][2] <= Regions[l][1] \/ Regions[l][2] <= Regions[k][1]
  <2>1. Before(k, l) \/ Before(l, k)
    BY <1>2, GroupsCompare
  <2> QED BY <2>1, RegionsFollow DEF Regions
<1> QED BY <1>1, <1>2 DEF SpansApart

(* -------------------------- The patched source -------------------------- *)

\* The source with nothing but the regions of the changed groups replaced.
Changed == {k \in DOMAIN group : Mutated(k)}
Patched == Spliced(src, Regions, GroupTexts, Changed)
\* No changed group is between a and b.
Clear(a, b) == \A k \in Changed : Region(k)[2] <= a \/ b <= Region(k)[1]

\* The patched source is made of texts.
LEMMA PatchedType ==
  ASSUME Settled
  PROVE  \A i \in 1..Len(src) : Patched[i] \in Seq(Lexeme)
<1>1. src \in Seq(Lexeme)
  BY SourceIsText DEF Settled, Ready
<1>2. \A k \in Changed : GroupTexts[k] \in Seq(Lexeme)
  BY GroupIsText DEF GroupTexts, Changed
<1> QED BY <1>1, <1>2, SplicedType DEF Patched

\* The regions of the changed groups do not meet.
LEMMA ChangedApart ==
  ASSUME Settled
  PROVE  SpansApart(Regions, Changed, Len(src) + 1)
<1>1. Changed \subseteq DOMAIN group
  BY DEF Changed
<1> QED BY <1>1, RegionsApart DEF SpansApart

\* In the region of a changed group stands what is pending for it.
LEMMA PatchedAt ==
  ASSUME Settled, NEW k \in Changed
  PROVE  Glue(Patched, Region(k)[1], Region(k)[2]) = GroupText(k)
<1>1. src \in Seq(Lexeme)
  BY SourceIsText DEF Settled, Ready
<1>2. \A l \in Changed : GroupTexts[l] \in Seq(Lexeme)
  BY GroupIsText DEF GroupTexts, Changed
<1>3. Glue(Patched, Regions[k][1], Regions[k][2]) = GroupTexts[k]
  BY <1>1, <1>2, ChangedApart, SplicedAt DEF Patched
<1> QED BY <1>3 DEF Regions, GroupTexts, Changed

\* Where no changed group is the patched source is the source.
LEMMA PatchedOff ==
  ASSUME Settled, NEW a \in Nat \ {0}, NEW b \in Nat, a <= b, b <= Len(src) + 1, Clear(a, b)
  PROVE  Glue(Patched, a, b) = Text(src, <<a, b>>)
<1>1. src \in Seq(Lexeme)
  BY SourceIsText DEF Settled, Ready
<1>2. ASSUME NEW i \in a..(b - 1), NEW k \in Changed PROVE ~Within(i, Regions[k])
  <2>1. PICK c, d \in Nat : Region(k) = <<c, d>> /\ 1 <= c /\ c < d
    BY RegionIn DEF Changed
  <2>2. Regions[k] = <<c, d>> /\ (d <= a \/ b <= c)
    BY <2>1 DEF Regions, Changed, Clear
  <2> QED BY <2>2 DEF Within
<1>3. NoneWithin(Regions, Changed, a, b)
  BY <1>2 DEF NoneWithin
<1> QED BY <1>1, <1>3, ChangedApart, SplicedOff DEF Patched

\* Lexeme by lexeme, too.
LEMMA PatchedOutside ==
  ASSUME Settled, NEW i \in 1..Len(src), \A k \in Changed : ~Within(i, Region(k))
  PROVE  Patched[i] = <<src[i]>>
<1>1. ASSUME NEW k \in Changed PROVE ~Within(i, Regions[k]) /\ Regions[k][1] # i
  <2>1. PICK c, d \in Nat : Region(k) = <<c, d>> /\ c < d
    BY RegionIn DEF Changed
  <2>2. Regions[k] = <<c, d>> /\ ~Within(i, <<c, d>>)
    BY <2>1 DEF Regions, Changed
  <2> QED BY <2>1, <2>2 DEF Within
<1> QED BY <1>1 DEF Patched, Spliced

\* The patched source can be cut anywhere.
LEMMA PatchedJoin ==
  ASSUME Settled, NEW a \in Nat, NEW b \in Nat, NEW c \in Nat, 1 <= a, a <= b, b <= c, c <= Len(src) + 1
  PROVE  /\ Glue(Patched, a, c) = Glue(Patched, a, b) \o Glue(Patched, b, c)
         /\ Glue(Patched, a, b) \in Seq(Lexeme)
<1>1. Len(src) \in Nat
  BY SourceIsText DEF Settled, Ready
<1>2. \A i \in a..(c - 1) : Patched[i] \in Seq(Lexeme)
  <2>1. a..(c - 1) \subseteq 1..Len(src)
    BY <1>1
  <2> QED BY <2>1, PatchedType
<1>3. a \in Int /\ b \in Int /\ c \in Int /\ \A i \in a..(b - 1) : Patched[i] \in Seq(Lexeme)
  BY <1>2
<1>4. Glue(Patched, a, c) = Glue(Patched, a, b) \o Glue(Patched, b, c)
  <2>1. a <= b /\ b <= c
    OBVIOUS
  <2> HIDE DEF Patched
  <2> QED BY <1>2, <1>3, <2>1, GlueJoin
<1>5. Glue(Patched, a, b) \in Seq(Lexeme)
  BY <1>3, GlueType
<1> QED BY <1>4, <1>5

(* ------------------------- Entries and sections ------------------------- *)

\* Folding a group into a text of the source that starts at p patches it, whatever has been folded
\* into its tail before: the offsets up to the group are still those of the source.
LEMMA GroupFoldedIn ==
  ASSUME Settled, NEW exact \in BOOLEAN, NEW k,
         NEW p \in Nat, NEW c \in Nat, NEW q \in Nat, 1 <= p, p <= c, c <= q, q <= Len(src) + 1,
         NEW tail \in Seq(Lexeme), Same(exact, tail, Glue(Patched, c, q)),
         \A l \in Changed : l # k => Region(l)[2] <= p \/ c <= Region(l)[1],
         k \in Changed => p <= Region(k)[1] /\ Region(k)[2] <= c
  PROVE  /\ Same(exact, WithGroup(Text(src, <<p, c>>) \o tail, p, k), Glue(Patched, p, q))
         /\ WithGroup(Text(src, <<p, c>>) \o tail, p, k) \in Seq(Lexeme)
<1> DEFINE text == Text(src, <<p, c>>) \o tail
<1>1. src \in Seq(Lexeme) /\ Len(src) \in Nat
  BY SourceIsText DEF Settled, Ready
<1>2. p \in Nat \ {0} /\ c \in Nat \ {0} /\ c <= Len(src) + 1
  BY <1>1
<1>3. Glue(Patched, p, q) = Glue(Patched, p, c) \o Glue(Patched, c, q)
      /\ Glue(Patched, p, c) \in Seq(Lexeme) /\ Glue(Patched, c, q) \in Seq(Lexeme)
  <2>1. Glue(Patched, p, q) = Glue(Patched, p, c) \o Glue(Patched, c, q) /\ Glue(Patched, p, c) \in Seq(Lexeme)
    BY <1>1, PatchedJoin
  <2>2. 1 <= c /\ q <= q
    BY <1>2
  <2>3. Glue(Patched, c, q) \in Seq(Lexeme)
    BY <1>1, <2>2, PatchedJoin
  <2> QED BY <2>1, <2>3
<1>4. Text(src, <<p, c>>) \in Seq(Lexeme)
  BY <1>1, <1>2, TextType
<1>5. ASSUME NEW x \in Seq(Lexeme) PROVE Same(exact, x, x)
  BY DEF Same
<1>6. CASE k \notin Changed
  <2>1. ~Mutated(k)
    BY <1>6 DEF Mutated, Changed
  <2>2. WithGroup(text, p, k) = text
    BY <2>1 DEF WithGroup
  <2>3. Clear(p, c)
    BY <1>6 DEF Clear
  <2>4. Glue(Patched, p, c) = Text(src, <<p, c>>)
    BY <1>2, <2>3, PatchedOff
  <2>5. Same(exact, Text(src, <<p, c>>) \o tail, Text(src, <<p, c>>) \o Glue(Patched, c, q))
    BY <1>3, <1>4, <1>5, SameJoined
  <2>6. text \in Seq(Lexeme)
    BY <1>4
  <2> QED BY <1>3, <2>2, <2>4, <2>5, <2>6
<1>7. CASE k \in Changed
  <2>1. PICK a \in Nat, b \in Nat : Region(k) = <<a, b>> /\ a < b
    BY <1>7, RegionIn DEF Changed
  <2>2. p <= a /\ b <= c /\ a <= b /\ 1 <= a /\ b \in Nat \ {0} /\ a <= Len(src) + 1 /\ b <= Len(src) + 1
    BY <1>1, <1>2, <1>7, <2>1
  <2>3. GroupText(k) \in Seq(Lexeme)
    BY <1>7, GroupIsText DEF Changed
  <2>4. WithGroup(text, p, k) = (Text(src, <<p, a>>) \o GroupText(k)) \o (Text(src, <<b, c>>) \o tail)
    <3>1. Mutated(k)
      BY <1>7 DEF Changed
    <3>2. WithGroup(text, p, k) = Splice(text, p, <<a, b>>, GroupText(k))
      BY <2>1, <3>1 DEF WithGroup
    <3>3. Splice(text, p, <<a, b>>, GroupText(k))
            = (Text(src, <<p, a>>) \o GroupText(k)) \o (Text(src, <<b, c>>) \o tail)
      <4>1. tail \in Seq(Lexeme) /\ p <= a /\ a <= b /\ b <= c
        BY <2>2
      <4>2. PICK new \in Seq(Lexeme) : new = GroupText(k)
        BY <2>3
      <4>3. SplicedIn(src, p, a, b, c, tail, new)
        BY <1>1, <1>2, <4>1, SpliceHead
      <4> QED BY <4>2, <4>3 DEF SplicedIn
    <3> QED BY <3>2, <3>3
  <2>5. Text(src, <<p, a>>) \in Seq(Lexeme) /\ Text(src, <<b, c>>) \in Seq(Lexeme)
    BY <1>1, <1>2, <2>2, TextType
  <2>6. Clear(p, a) /\ Clear(b, c)
    <3>1. ASSUME NEW l \in Changed
          PROVE  (Region(l)[2] <= p \/ a <= Region(l)[1]) /\ (Region(l)[2] <= b \/ c <= Region(l)[1])
      <4>1. PICK d \in Nat, e \in Nat : Region(l) = <<d, e>>
        BY RegionIn DEF Changed
      <4>2. CASE l = k
        BY <2>1, <2>2, <4>2
      <4>3. CASE l # k
        <5>1. e <= p \/ c <= d
          BY <4>1, <4>3
        <5> QED BY <2>2, <4>1, <5>1
      <4> QED BY <4>2, <4>3
    <3> QED BY <3>1 DEF Clear
  <2>7. Glue(Patched, p, a) = Text(src, <<p, a>>) /\ Glue(Patched, b, c) = Text(src, <<b, c>>)
    BY <1>2, <2>2, <2>6, PatchedOff
  <2>8. Glue(Patched, a, b) = GroupText(k)
    BY <1>7, <2>1, PatchedAt
  <2>9. Glue(Patched, p, q) = (Text(src, <<p, a>>) \o GroupText(k)) \o (Text(src, <<b, c>>) \o Glue(Patched, c, q))
    <3>1. Glue(Patched, p, b) = Glue(Patched, p, a) \o Glue(Patched, a, b)
      <4>1. p <= a /\ a <= b /\ b <= Len(src) + 1
        BY <2>2
      <4> QED BY <4>1, PatchedJoin
    <3>2. Glue(Patched, b, q) = Glue(Patched, b, c) \o Glue(Patched, c, q)
      <4>1. 1 <= b /\ b <= c
        BY <2>2
      <4> QED BY <4>1, PatchedJoin
    <3>3. p <= b /\ b <= q
      BY <2>2
    <3>4. Glue(Patched, p, q) = Glue(Patched, p, b) \o Glue(Patched, b, q)
      BY <3>3, PatchedJoin
    <3> QED BY <2>7, <2>8, <3>1, <3>2, <3>4
  <2>10. Same(exact, Text(src, <<b, c>>) \o tail, Text(src, <<b, c>>) \o Glue(Patched, c, q))
    BY <1>3, <1>5, <2>5, SameJoined
  <2>11. /\ Text(src, <<p, a>>) \o GroupText(k) \in Seq(Lexeme)
         /\ Text(src, <<b, c>>) \o tail \in Seq(Lexeme)
         /\ Text(src, <<b, c>>) \o Glue(Patched, c, q) \in Seq(Lexeme)
    BY <1>3, <2>3, <2>5
  <2>12. Same(exact, (Text(src, <<p, a>>) \o GroupText(k)) \o (Text(src, <<b, c>>) \o tail),
                     (Text(src, <<p, a>>) \o GroupText(k)) \o (Text(src, <<b, c>>) \o Glue(Patched, c, q)))
    BY <1>5, <2>10, <2>11, SameJoined
  <2>13. WithGroup(text, p, k) \in Seq(Lexeme)
    <3>1. ASSUME NEW x \in Seq(Lexeme), NEW y \in Seq(Lexeme) PROVE x \o y \in Seq(Lexeme)
      OBVIOUS
    <3>2. (Text(src, <<p, a>>) \o GroupText(k)) \o (Text(src, <<b, c>>) \o tail) \in Seq(Lexeme)
      BY <2>11, <3>1, Zenon
    <3> QED BY <2>4, <3>2
  <2> QED BY <2>4, <2>9, <2>12, <2>13
<1> QED BY <1>6, <1>7

\* The groups of other sections lie before a section or behind it.
LEMMA OutsideSection ==
  ASSUME Settled, NEW s \in DOMAIN tree, NEW l \in DOMAIN group, l[1] # s
  PROVE  Region(l)[2] <= tree[s].span[1] \/ tree[s].span[2] <= Region(l)[1]
<1>1. PICK a, b \in Nat : /\ Region(l) = <<a, b>> /\ 1 <= a /\ a < b /\ b <= Len(src) + 1
                          /\ RegionBounds(l, a, b) /\ l[2] \in 0..Len(tree[l[1]].entries)
  BY RegionPlace
<1>2. l[1] \in DOMAIN tree
  BY <1>1 DEF RegionBounds
<1>3. PICK c \in Nat, d \in Nat : c = tree[l[1]].span[1] /\ d = tree[l[1]].span[2]
  BY <1>2, SectionIn
<1>4. PICK p \in Nat, q \in Nat : p = tree[s].span[1] /\ q = tree[s].span[2]
  BY SectionIn
<1>5. c <= a /\ b <= d
  BY <1>1, <1>3 DEF RegionBounds
<1>6. Row(Spans(tree), 1, Len(src) + 1) /\ IsSeq(tree)
  BY TreeInRows DEF Settled, Ready
<1>7. /\ Spans(tree)[s] = tree[s].span /\ Spans(tree)[l[1]] = tree[l[1]].span
      /\ DOMAIN Spans(tree) = DOMAIN tree
  BY <1>2, <1>6, SpansAreSeq
<1>8. l[1] < s \/ s < l[1]
  BY <1>2, <1>6 DEF IsSeq
<1>9. d <= p \/ q <= c
  BY <1>2, <1>3, <1>4, <1>6, <1>7, <1>8 DEF Row
<1> QED BY <1>1, <1>4, <1>5, <1>9

\* The groups of other places lie before an entry or behind it.
LEMMA OutsideEntry ==
  ASSUME Settled, NEW s \in DOMAIN tree, NEW e \in DOMAIN tree[s].entries, NEW l \in DOMAIN group, l # <<s, e>>
  PROVE  Region(l)[2] <= tree[s].entries[e].span[1] \/ tree[s].entries[e].span[2] <= Region(l)[1]
<1>1. PICK a, b \in Nat : /\ Region(l) = <<a, b>> /\ 1 <= a /\ a < b /\ b <= Len(src) + 1
                          /\ RegionBounds(l, a, b) /\ l[2] \in 0..Len(tree[l[1]].entries)
  BY RegionPlace
<1>2. PICK c, d \in Nat : /\ tree[s].entries[e].span[1] = c /\ tree[s].entries[e].span[2] = d
                          /\ c < d /\ tree[s].body[1] <= c /\ d <= tree[s].body[2]
  BY EntryIn
<1>3. CASE l[1] # s
  <2>1. PICK p, f, q \in Nat : /\ tree[s].span[1] = p /\ tree[s].span[2] = q
                               /\ tree[s].body[1] = f /\ tree[s].body[2] = q
                               /\ 1 <= p /\ p < f /\ p < q /\ q <= Len(src) + 1
    BY SectionIn
  <2>2. b <= p \/ q <= a
    BY <1>1, <1>3, <2>1, OutsideSection
  <2> QED BY <1>1, <1>2, <2>1, <2>2
<1>4. CASE l[1] = s /\ l[2] = 0
  BY <1>1, <1>4 DEF RegionBounds
<1>5. CASE l[1] = s /\ l[2] # 0
  <2>1. l[2] \in DOMAIN tree[s].entries /\ l[2] # e
    <3>1. Parsed /\ l \in Places(tree)
      BY DEF Settled, Ready, Grouped
    <3>2. l = <<l[1], l[2]>>
      BY <3>1, PlaceBounds
    <3> QED BY <1>1, <1>5, <3>2 DEF RegionBounds
  <2>2. PICK g \in Nat, h \in Nat : g = tree[s].entries[l[2]].span[1] /\ h = tree[s].entries[l[2]].span[2]
    BY <2>1, EntryIn
  <2>3. g <= a /\ b <= h
    BY <1>1, <1>5, <2>2 DEF RegionBounds
  <2>4. Row(Spans(tree[s].entries), tree[s].body[1], tree[s].body[2]) /\ IsSeq(tree[s].entries)
    BY TreeInRows DEF Settled, Ready, SectionRows
  <2>5. /\ Spans(tree[s].entries)[e] = tree[s].entries[e].span
        /\ Spans(tree[s].entries)[l[2]] = tree[s].entries[l[2]].span
        /\ DOMAIN Spans(tree[s].entries) = DOMAIN tree[s].entries
    BY <2>1, <2>4, SpansAreSeq
  <2>6. l[2] < e \/ e < l[2]
    BY <2>1, <2>4 DEF IsSeq
  <2>7. h <= c \/ d <= g
    BY <1>2, <2>1, <2>2, <2>4, <2>5, <2>6 DEF Row
  <2> QED BY <1>1, <1>2, <2>3, <2>7
<1> QED BY <1>3, <1>4, <1>5

\* An entry is rendered as the patched source has it.
LEMMA EntryRendered ==
  ASSUME Settled, NEW s \in DOMAIN tree, NEW e \in DOMAIN tree[s].entries
  PROVE  /\ EntryText(s, e) = Glue(Patched, tree[s].entries[e].span[1], tree[s].entries[e].span[2])
         /\ EntryText(s, e) \in Seq(Lexeme)
<1>1. PICK c, d \in Nat : /\ tree[s].entries[e].span[1] = c /\ tree[s].entries[e].span[2] = d
                          /\ c < d /\ tree[s].body[1] <= c /\ d <= tree[s].body[2]
  BY EntryIn
<1>2. PICK p, f, q \in Nat : /\ tree[s].span[1] = p /\ tree[s].span[2] = q
                             /\ tree[s].body[1] = f /\ tree[s].body[2] = q
                             /\ 1 <= p /\ p < f /\ p < q /\ q <= Len(src) + 1
  BY SectionIn
<1>3. src \in Seq(Lexeme) /\ Len(src) \in Nat
  BY SourceIsText DEF Settled, Ready
<1>4. 1 <= c /\ c <= d /\ d <= d /\ d <= Len(src) + 1 /\ c \in Nat \ {0}
  BY <1>1, <1>2, <1>3
<1>5. Text(src, <<c, d>>) \in Seq(Lexeme)
  BY <1>3, <1>4, TextType
<1>6. EntryText(s, e) = WithGroup(Text(src, <<c, d>>) \o <<>>, c, <<s, e>>)
  <2>1. Text(src, <<c, d>>) \o <<>> = Text(src, <<c, d>>)
    BY <1>5
  <2>2. Text(src, tree[s].entries[e].span) = Text(src, <<c, d>>)
    BY <1>1 DEF Text
  <2> QED BY <1>1, <2>1, <2>2 DEF EntryText
<1>7. <<>> \in Seq(Lexeme) /\ Same(TRUE, <<>>, Glue(Patched, d, d))
  <2>1. d \in Int
    OBVIOUS
  <2>2. Glue(Patched, d, d) = <<>>
    BY <2>1, GlueNone
  <2> QED BY <2>2 DEF Same
<1>8. \A l \in Changed : l # <<s, e>> => Region(l)[2] <= c \/ d <= Region(l)[1]
  BY <1>1, OutsideEntry DEF Changed
<1>9. <<s, e>> \in Changed => c <= Region(<<s, e>>)[1] /\ Region(<<s, e>>)[2] <= d
  <2> SUFFICES ASSUME <<s, e>> \in Changed PROVE c <= Region(<<s, e>>)[1] /\ Region(<<s, e>>)[2] <= d
    OBVIOUS
  <2> DEFINE k == <<s, e>>
  <2>1. k \in DOMAIN group /\ k[1] = s /\ k[2] = e
    BY DEF Changed
  <2> HIDE DEF k
  <2>2. PICK a, b \in Nat : Region(k) = <<a, b>> /\ RegionBounds(k, a, b)
    BY <2>1, RegionPlace
  <2>3. e # 0
    <3>1. IsSeq(tree[s].entries)
      BY TreeInRows DEF Settled, Ready, SectionRows
    <3> QED BY <3>1 DEF IsSeq
  <2>4. c <= a /\ b <= d
    BY <1>1, <2>1, <2>2, <2>3 DEF RegionBounds
  <2> QED BY <2>2, <2>4 DEF k
<1>10. TRUE \in BOOLEAN
  OBVIOUS
<1>11. /\ Same(TRUE, WithGroup(Text(src, <<c, d>>) \o <<>>, c, <<s, e>>), Glue(Patched, c, d))
       /\ WithGroup(Text(src, <<c, d>>) \o <<>>, c, <<s, e>>) \in Seq(Lexeme)
  BY <1>4, <1>7, <1>8, <1>9, <1>10, GroupFoldedIn
<1> QED BY <1>1, <1>6, <1>11 DEF Same

\* An order of n members is a permutation.
LEMMA OrderPermutes ==
  ASSUME NEW n \in Nat, NEW order, IsOrder(order, n)
  PROVE  Permutes(order, n)
<1>1. Bijective(order, n)
  BY OrderIsBijective
<1>2. DOMAIN order = 1..n
  BY DEF IsOrder
<1>3. ASSUME NEW i \in 1..n
      PROVE  order[i] \in 1..n /\ PlaceIn(order, order[i]) = i
  <2>1. order # <<>>
    BY <1>2, <1>3
  <2>2. StandsAt(order, i) = order[i]
    BY <2>1, <1>3 DEF StandsAt
  <2> QED BY <1>1, <1>3, <2>2 DEF Bijective
<1>4. ASSUME NEW i \in 1..n, NEW j \in 1..n, order[i] = order[j] PROVE i = j
  BY <1>3, <1>4
<1>5. \A i \in 1..n : \E j \in 1..n : order[j] = i
  BY DEF IsOrder
<1> QED BY <1>3, <1>4, <1>5 DEF Permutes

\* Members rendered in an order give, with the separators in place, what P holds there, mixed
\* if the order is not the one of the source.
LEMMA RenderedAlike ==
  ASSUME src \in Seq(Lexeme), NEW exact \in BOOLEAN,
         NEW P, \A i \in 1..Len(src) : P[i] \in Seq(Lexeme),
         NEW m \in Nat \ {0}, NEW spans, Follow(spans, m, Len(src) + 1),
         NEW texts, \A i \in 1..m : texts[i] \in Seq(Lexeme),
         Fits(exact, P, spans, texts, m),
         \A i \in 1..(m - 1) : Same(exact, Text(src, <<spans[i][2], spans[i + 1][1]>>),
                                    Glue(P, spans[i][2], spans[i + 1][1])),
         NEW order, IsOrder(order, m), exact => order = Identity(m)
  PROVE  /\ Same(exact, RenderGroup(spans, order, texts), Glue(P, spans[1][1], spans[m][2]))
         /\ RenderGroup(spans, order, texts) \in Seq(Lexeme)
<1>1. Same(exact, RenderGroup(spans, Identity(m), texts), Glue(P, spans[1][1], spans[m][2]))
  BY RenderedInPlace
<1>2. m \in Nat /\ DOMAIN order = 1..m /\ Permutes(order, m)
  BY OrderPermutes DEF IsOrder
<1>3. /\ Same(FALSE, RenderGroup(spans, order, texts), RenderGroup(spans, Identity(m), texts))
      /\ RenderGroup(spans, order, texts) \in Seq(Lexeme)
      /\ RenderGroup(spans, Identity(m), texts) \in Seq(Lexeme)
  BY <1>2, RenderedInAnyOrder
<1>4. CASE exact
  BY <1>1, <1>3, <1>4
<1>5. CASE ~exact
  BY <1>1, <1>3, <1>5 DEF Same
<1> QED BY <1>3, <1>4, <1>5

\* Behind the start of an entry only entries can have changed.
LEMMA ClearInSection ==
  ASSUME Settled, NEW s \in DOMAIN tree, NEW a \in Nat, NEW b \in Nat,
         tree[s].span[1] <= a, b <= tree[s].span[2],
         NEW e \in DOMAIN tree[s].entries, tree[s].entries[e].span[1] <= a,
         \A d \in DOMAIN tree[s].entries :
            <<s, d>> \in Changed => tree[s].entries[d].span[2] <= a \/ b <= tree[s].entries[d].span[1]
  PROVE  Clear(a, b)
<1>1. PICK p \in Nat, q \in Nat : tree[s].span[1] = p /\ tree[s].span[2] = q
  BY SectionIn
<1>2. PICK c \in Nat : tree[s].entries[e].span[1] = c
  BY EntryIn
<1>3. ASSUME NEW l \in Changed PROVE Region(l)[2] <= a \/ b <= Region(l)[1]
  <2>1. l \in DOMAIN group
    BY DEF Changed
  <2>2. PICK g, h \in Nat : /\ Region(l) = <<g, h>> /\ 1 <= g /\ g < h /\ h <= Len(src) + 1
                            /\ RegionBounds(l, g, h) /\ l[2] \in 0..Len(tree[l[1]].entries)
    BY <2>1, RegionPlace
  <2>3. CASE l[1] # s
    <3>1. h <= p \/ q <= g
      BY <1>1, <2>1, <2>2, <2>3, OutsideSection
    <3> QED BY <1>1, <2>2, <3>1
  <2>4. CASE l[1] = s /\ l[2] = 0
    <3>1. h <= c
      BY <1>2, <2>2, <2>4 DEF RegionBounds
    <3> QED BY <1>2, <2>2, <3>1
  <2>5. CASE l[1] = s /\ l[2] # 0
    <3>1. l[2] \in DOMAIN tree[s].entries /\ l = <<s, l[2]>>
      <4>1. Parsed /\ l \in Places(tree)
        BY <2>1 DEF Settled, Ready, Grouped
      <4>2. l = <<l[1], l[2]>>
        BY <4>1, PlaceBounds
      <4> QED BY <2>2, <2>5, <4>2 DEF RegionBounds
    <3>2. PICK v \in Nat, w \in Nat : v = tree[s].entries[l[2]].span[1] /\ w = tree[s].entries[l[2]].span[2]
      BY <3>1, EntryIn
    <3>3. v <= g /\ h <= w
      BY <2>2, <2>5, <3>2 DEF RegionBounds
    <3>4. w <= a \/ b <= v
      BY <3>1, <3>2
    <3> QED BY <2>2, <3>3, <3>4
  <2> QED BY <2>3, <2>4, <2>5
<1> QED BY <1>3 DEF Clear

\* The entries of a section follow each other.
LEMMA EntriesRow ==
  ASSUME Settled, NEW s \in DOMAIN tree
  PROVE  /\ IsSeq(tree[s].entries) /\ Len(tree[s].entries) \in Nat
         /\ DOMAIN tree[s].entries = 1..Len(tree[s].entries)
         /\ \A e \in DOMAIN tree[s].entries : Spans(tree[s].entries)[e] = tree[s].entries[e].span
         /\ Len(Spans(tree[s].entries)) = Len(tree[s].entries)
         /\ DOMAIN Spans(tree[s].entries) = DOMAIN tree[s].entries
         /\ Follow(Spans(tree[s].entries), Len(tree[s].entries), Len(src) + 1)
         /\ \A d, e \in DOMAIN tree[s].entries : d < e => tree[s].entries[d].span[2] <= tree[s].entries[e].span[1]
<1>1. Row(Spans(tree[s].entries), tree[s].body[1], tree[s].body[2]) /\ IsSeq(tree[s].entries)
  BY TreeInRows DEF Settled, Ready, SectionRows
<1>2. /\ \A e \in DOMAIN tree[s].entries : Spans(tree[s].entries)[e] = tree[s].entries[e].span
      /\ Len(Spans(tree[s].entries)) = Len(tree[s].entries)
      /\ DOMAIN Spans(tree[s].entries) = DOMAIN tree[s].entries
  BY <1>1, SpansAreSeq
<1>3. PICK q \in Nat : tree[s].body[2] = q /\ q <= Len(src) + 1
  BY SectionIn
<1>4. Len(src) + 1 \in Nat
  BY SourceIsText DEF Settled, Ready
<1>5. Follow(Spans(tree[s].entries), Len(Spans(tree[s].entries)), Len(src) + 1)
  BY <1>1, <1>3, <1>4, RowFollows
<1>6. \A d, e \in DOMAIN tree[s].entries : d < e => tree[s].entries[d].span[2] <= tree[s].entries[e].span[1]
  BY <1>1, <1>2 DEF Row
<1> QED BY <1>1, <1>2, <1>5, <1>6 DEF IsSeq

\* The order and the texts the entries of a section are rendered with, and what they give.
OrderIn(s) == IF entryOrder[s] = <<>> THEN Identity(Len(Spans(tree[s].entries))) ELSE entryOrder[s]
EntryTexts(s) == [e \in DOMAIN Spans(tree[s].entries) |-> EntryText(s, e)]
Rebuilt(s) == RenderGroup(Spans(tree[s].entries), OrderIn(s), EntryTexts(s))

\* The entries of a section are rendered as the patched source has them, mixed if they are reordered.
LEMMA EntriesRendered ==
  ASSUME Settled, NEW exact \in BOOLEAN, NEW s \in DOMAIN tree, exact => entryOrder[s] = <<>>,
         NEW m \in Nat \ {0}, m = Len(tree[s].entries),
         NEW c, c = tree[s].entries[1].span[1], NEW d, d = tree[s].entries[m].span[2]
  PROVE  Same(exact, Rebuilt(s), Glue(Patched, c, d)) /\ Rebuilt(s) \in Seq(Lexeme)
<1> DEFINE entries == tree[s].entries
           spans == Spans(entries)
           texts == EntryTexts(s)
<1>1. src \in Seq(Lexeme) /\ Len(src) \in Nat
  BY SourceIsText DEF Settled, Ready
<1>2. /\ DOMAIN entries = 1..m /\ DOMAIN spans = 1..m /\ Len(spans) = m
      /\ \A e \in 1..m : spans[e] = entries[e].span
      /\ Follow(spans, m, Len(src) + 1)
      /\ \A g, e \in 1..m : g < e => entries[g].span[2] <= entries[e].span[1]
  BY EntriesRow
<1>3. \A e \in 1..m : texts[e] = EntryText(s, e)
  BY <1>2 DEF EntryTexts
<1>4. \A e \in 1..m : texts[e] \in Seq(Lexeme) /\ texts[e] = Glue(Patched, spans[e][1], spans[e][2])
  BY <1>2, <1>3, EntryRendered
<1>5. Fits(exact, Patched, spans, texts, m)
  BY <1>4 DEF Fits, Same
<1>6. ASSUME NEW i \in 1..(m - 1)
      PROVE  Same(exact, Text(src, <<spans[i][2], spans[i + 1][1]>>),
                  Glue(Patched, spans[i][2], spans[i + 1][1]))
  <2>1. i \in 1..m /\ i + 1 \in 1..m /\ i < i + 1
    OBVIOUS
  <2>2. PICK a \in Nat, b \in Nat : a = entries[i].span[1] /\ b = entries[i].span[2] /\ a < b
               /\ tree[s].body[1] <= a
    BY <1>2, <2>1, EntryIn
  <2>3. PICK g \in Nat, h \in Nat : g = entries[i + 1].span[1] /\ h = entries[i + 1].span[2] /\ g < h
                                    /\ h <= tree[s].body[2]
    BY <1>2, <2>1, EntryIn
  <2>4. b <= g
    BY <1>2, <2>1, <2>2, <2>3
  <2>5. PICK p, f, q \in Nat : /\ tree[s].span[1] = p /\ tree[s].span[2] = q
                               /\ tree[s].body[1] = f /\ tree[s].body[2] = q
                               /\ 1 <= p /\ p < f /\ p < q /\ q <= Len(src) + 1
    BY SectionIn
  <2>6. p <= b /\ g <= q /\ a <= b /\ b \in Nat \ {0} /\ g <= Len(src) + 1
    <3>1. f <= a /\ h <= q /\ a < b /\ g < h /\ p < f /\ 1 <= p /\ q <= Len(src) + 1
      BY <2>2, <2>3, <2>5
    <3> HIDE DEF entries
    <3> QED BY <1>1, <3>1
  <2>7. \A e \in DOMAIN entries : <<s, e>> \in Changed => entries[e].span[2] <= b \/ g <= entries[e].span[1]
    <3> SUFFICES ASSUME NEW e \in 1..m PROVE entries[e].span[2] <= b \/ g <= entries[e].span[1]
      BY <1>2
    <3>1. PICK v \in Nat, w \in Nat : v = entries[e].span[1] /\ w = entries[e].span[2] /\ v < w
      BY <1>2, EntryIn
    <3>2. CASE e = i
      BY <2>2, <3>2
    <3>3. CASE e = i + 1
      BY <2>3, <3>3
    <3>4. CASE e < i
      <4>1. w <= a
        BY <1>2, <2>1, <2>2, <3>1, <3>4
      <4>2. a < b
        BY <2>2
      <4>3. w <= b
        BY <4>1, <4>2
      <4> QED BY <3>1, <4>3
    <3>5. CASE i + 1 < e
      <4>1. h <= v
        BY <1>2, <2>1, <2>3, <3>1, <3>5
      <4>2. g < h
        BY <2>3
      <4>3. g <= v
        BY <4>1, <4>2
      <4> QED BY <3>1, <4>3
    <3> QED BY <3>2, <3>3, <3>4, <3>5
  <2>8. Clear(b, g)
    <3>1. tree[s].span[1] <= b /\ g <= tree[s].span[2] /\ i \in DOMAIN tree[s].entries
            /\ tree[s].entries[i].span[1] <= b
      BY <1>2, <2>1, <2>2, <2>5, <2>6
    <3> QED BY <2>7, <3>1, ClearInSection
  <2>9. Glue(Patched, b, g) = Text(src, <<b, g>>)
    BY <2>4, <2>6, <2>8, PatchedOff
  <2>10. spans[i][2] = b /\ spans[i + 1][1] = g
    BY <1>2, <2>1, <2>2, <2>3
  <2> QED BY <2>9, <2>10 DEF Same
<1>7. OrdersOk
  BY DEF Settled, Ready
<1>8. IsOrder(OrderIn(s), m) /\ (exact => OrderIn(s) = Identity(m))
  <2>1. CASE entryOrder[s] = <<>>
    BY <1>2, <2>1, Natural DEF OrderIn
  <2>2. CASE entryOrder[s] # <<>>
    BY <1>7, <2>2 DEF OrderIn, OrdersOk, EntriesOrdered
  <2> QED BY <2>1, <2>2
<1>9. \A i \in 1..Len(src) : Patched[i] \in Seq(Lexeme)
  BY PatchedType
<1> HIDE DEF spans, texts
<1>10. /\ Same(exact, RenderGroup(spans, OrderIn(s), texts), Glue(Patched, spans[1][1], spans[m][2]))
       /\ RenderGroup(spans, OrderIn(s), texts) \in Seq(Lexeme)
  <2>1. \A i \in 1..m : texts[i] \in Seq(Lexeme)
    BY <1>4
  <2> QED BY <1>1, <1>2, <1>5, <1>6, <1>8, <1>9, <2>1, RenderedAlike
<1>11. spans[1][1] = c /\ spans[m][2] = d
  <2>1. 1 \in 1..m /\ m \in 1..m
    OBVIOUS
  <2> QED BY <1>2, <2>1
<1> QED BY <1>10, <1>11 DEF Rebuilt, spans, texts

\* A section with its entries folded in, and not yet its loose bullets.
SectionParts(s) ==
  IF Spans(tree[s].entries) # <<>> /\ EntriesTouched(s)
  THEN Splice(Text(src, tree[s].span), tree[s].span[1], Covering(Spans(tree[s].entries)), Rebuilt(s))
  ELSE Text(src, tree[s].span)

\* A section is rendered by folding its loose bullets into it last.
LEMMA SectionTextIs ==
  ASSUME NEW s
  PROVE  SectionText(s) = WithGroup(SectionParts(s), tree[s].span[1], <<s, 0>>)
BY DEF SectionText, SectionParts, Rebuilt, OrderIn, EntryTexts

\* The texts of two spans that meet.
Adjoin(text, a, b, c) == Text(text, <<a, b>>) \o Text(text, <<b, c>>) = Text(text, <<a, c>>)

\* They are the text of both.
LEMMA TextsAdjoin ==
  ASSUME NEW text \in Seq(Lexeme), NEW a \in Nat \ {0}, NEW b \in Nat, NEW c \in Nat,
         a <= b, b <= c, c <= Len(text) + 1
  PROVE  Adjoin(text, a, b, c)
BY TextParts DEF Adjoin

\* The first entry of a section starts at c.
FirstEntryAt(s, c) == c = tree[s].entries[1].span[1]

\* Up to the first entry a section is still the source once its entries are folded in: that is where
\* its loose bullets are.
LEMMA SectionInParts ==
  ASSUME Settled, NEW exact \in BOOLEAN, NEW s \in DOMAIN tree, exact => entryOrder[s] = <<>>,
         NEW m \in Nat \ {0}, m = Len(tree[s].entries),
         NEW c \in Nat, FirstEntryAt(s, c)
  PROVE  \E tail \in Seq(Lexeme) :
           /\ SectionParts(s) = Text(src, <<tree[s].span[1], c>>) \o tail
           /\ Same(exact, tail, Glue(Patched, c, tree[s].span[2]))
<1> DEFINE entries == tree[s].entries
           spans == Spans(entries)
<1>1. src \in Seq(Lexeme) /\ Len(src) \in Nat
  BY SourceIsText DEF Settled, Ready
<1>2. /\ DOMAIN entries = 1..m /\ Len(spans) = m
      /\ \A e \in 1..m : spans[e] = entries[e].span
      /\ \A g, e \in 1..m : g < e => entries[g].span[2] <= entries[e].span[1]
  BY EntriesRow
<1>3. 1 \in 1..m /\ m \in 1..m
  OBVIOUS
<1>4. PICK p, f, q \in Nat : /\ tree[s].span[1] = p /\ tree[s].span[2] = q
                             /\ tree[s].body[1] = f /\ tree[s].body[2] = q
                             /\ 1 <= p /\ p < f /\ p < q /\ q <= Len(src) + 1
  BY SectionIn
<1>5. PICK d1 \in Nat : c = entries[1].span[1] /\ d1 = entries[1].span[2] /\ c < d1 /\ tree[s].body[1] <= c
  BY <1>2, <1>3, EntryIn DEF FirstEntryAt
<1>6. PICK d0 \in Nat, d \in Nat : d0 = entries[m].span[1] /\ d = entries[m].span[2] /\ d0 < d
             /\ d <= tree[s].body[2]
  BY <1>2, <1>3, EntryIn
<1>7. \A e \in 1..m : \E v, w \in Nat : v = entries[e].span[1] /\ w = entries[e].span[2] /\ v < w
        /\ c <= v /\ w <= d
  <2> SUFFICES ASSUME NEW e \in 1..m
               PROVE  \E v, w \in Nat : v = entries[e].span[1] /\ w = entries[e].span[2] /\ v < w
                        /\ c <= v /\ w <= d
    OBVIOUS
  <2>1. PICK v \in Nat, w \in Nat : v = entries[e].span[1] /\ w = entries[e].span[2] /\ v < w
    BY <1>2, EntryIn
  <2>2. c <= v
    <3>1. CASE e = 1
      BY <1>5, <2>1, <3>1
    <3>2. CASE 1 < e
      <4>1. d1 <= v
        BY <1>2, <1>3, <1>5, <2>1, <3>2
      <4>2. c < d1
        BY <1>5
      <4> QED BY <4>1, <4>2
    <3> QED BY <3>1, <3>2
  <2>3. w <= d
    <3>1. CASE e = m
      BY <1>6, <2>1, <3>1
    <3>2. CASE e < m
      <4>1. w <= d0
        BY <1>2, <1>3, <1>6, <2>1, <3>2
      <4> QED BY <1>6, <2>1, <4>1
    <3> QED BY <3>1, <3>2
  <2> QED BY <2>1, <2>2, <2>3
<1>8. /\ c \in Nat \ {0} /\ p \in Nat \ {0} /\ d \in Nat \ {0}
      /\ 1 <= c /\ p <= c /\ c <= d /\ d <= q /\ c <= Len(src) + 1 /\ d <= Len(src) + 1 /\ c <= q
  <2>1. \E v, w \in Nat : v < w /\ c <= v /\ w <= d
    BY <1>3, <1>7
  <2>2. f <= c /\ d <= q
    BY <1>4, <1>5, <1>6
  <2> HIDE DEF entries
  <2> QED BY <1>1, <1>4, <2>1, <2>2
<1>9. Clear(d, q)
  <2>1. \A e \in DOMAIN entries : <<s, e>> \in Changed => entries[e].span[2] <= d \/ q <= entries[e].span[1]
    BY <1>2, <1>7
  <2>2. tree[s].span[1] <= d /\ q <= tree[s].span[2] /\ 1 \in DOMAIN tree[s].entries
          /\ tree[s].entries[1].span[1] <= d
    BY <1>2, <1>3, <1>4, <1>5, <1>8
  <2> QED BY <2>1, <2>2, ClearInSection
<1>10. Glue(Patched, d, q) = Text(src, <<d, q>>)
  BY <1>4, <1>8, <1>9, PatchedOff
<1>11. Text(src, <<p, c>>) \in Seq(Lexeme) /\ Text(src, <<c, d>>) \in Seq(Lexeme)
         /\ Text(src, <<d, q>>) \in Seq(Lexeme)
  BY <1>1, <1>4, <1>8, TextType
<1>12. Text(src, tree[s].span) = Text(src, <<p, q>>)
  BY <1>4 DEF Text
<1>13. PICK mid \in Seq(Lexeme) :
          /\ Same(exact, mid, Glue(Patched, c, d))
          /\ SectionParts(s) = Text(src, <<p, c>>) \o (mid \o Text(src, <<d, q>>))
  <2>1. spans # <<>>
    BY <1>2
  <2>2. CASE EntriesTouched(s)
    <3>1. Same(exact, Rebuilt(s), Glue(Patched, c, d)) /\ Rebuilt(s) \in Seq(Lexeme)
      BY <1>5, <1>6, EntriesRendered
    <3>2. Covering(spans) = <<c, d>>
      BY <1>2, <1>3, <1>5, <1>6 DEF Covering
    <3>3. SectionParts(s) = Splice(Text(src, <<p, q>>), p, <<c, d>>, Rebuilt(s))
      BY <1>4, <1>12, <2>1, <2>2, <3>2 DEF SectionParts
    <3>4. PICK new \in Seq(Lexeme), tail \in Seq(Lexeme) : new = Rebuilt(s) /\ tail = <<>>
      <4>1. <<>> \in Seq(Lexeme)
        OBVIOUS
      <4> QED BY <3>1, <4>1
    <3>5. SplicedIn(src, p, c, d, q, tail, new)
      BY <1>1, <1>4, <1>8, SpliceHead
    <3>6. Text(src, <<p, q>>) \o tail = Text(src, <<p, q>>) /\ Text(src, <<d, q>>) \o tail = Text(src, <<d, q>>)
      <4>1. Text(src, <<p, q>>) \in Seq(Lexeme)
        BY <1>1, <1>4, <1>8, TextType
      <4> QED BY <1>11, <3>4, <4>1
    <3>7. SectionParts(s) = (Text(src, <<p, c>>) \o new) \o Text(src, <<d, q>>)
      BY <3>3, <3>4, <3>5, <3>6 DEF SplicedIn
    <3>8. Then(Then(Text(src, <<p, c>>), new), Text(src, <<d, q>>))
            = Then(Text(src, <<p, c>>), Then(new, Text(src, <<d, q>>)))
      BY <1>11, ThenIsAssociative
    <3>9. SectionParts(s) = Text(src, <<p, c>>) \o (new \o Text(src, <<d, q>>))
      BY <3>7, <3>8 DEF Then
    <3> QED BY <3>1, <3>4, <3>9
  <2>3. CASE ~EntriesTouched(s)
    <3>1. SectionParts(s) = Text(src, <<p, q>>)
      BY <1>12, <2>3 DEF SectionParts
    <3>2. \A e \in DOMAIN entries : <<s, e>> \notin Changed
      BY <2>3 DEF EntriesTouched, Changed
    <3>3. Clear(c, d)
      <4>1. tree[s].span[1] <= c /\ d <= tree[s].span[2] /\ 1 \in DOMAIN tree[s].entries
              /\ tree[s].entries[1].span[1] <= c
        BY <1>2, <1>3, <1>4, <1>5, <1>8
      <4>2. c \in Nat
        BY <1>8
      <4> QED BY <3>2, <4>1, <4>2, ClearInSection
    <3>4. Glue(Patched, c, d) = Text(src, <<c, d>>)
      BY <1>8, <3>3, PatchedOff
    <3>5. Text(src, <<c, d>>) \o Text(src, <<d, q>>) = Text(src, <<c, q>>)
      <4>1. c \in Nat \ {0} /\ c <= d /\ d <= q /\ q <= Len(src) + 1
        BY <1>4, <1>8
      <4>2. Adjoin(src, c, d, q)
        BY <1>1, <4>1, TextsAdjoin
      <4> QED BY <4>2 DEF Adjoin
    <3>6. Text(src, <<p, c>>) \o Text(src, <<c, q>>) = Text(src, <<p, q>>)
      <4>1. p \in Nat \ {0} /\ p <= c /\ c <= q /\ q <= Len(src) + 1
        BY <1>4, <1>8
      <4>2. Adjoin(src, p, c, q)
        BY <1>1, <4>1, TextsAdjoin
      <4> QED BY <4>2 DEF Adjoin
    <3>7. Same(exact, Text(src, <<c, d>>), Glue(Patched, c, d))
      BY <3>4 DEF Same
    <3> QED BY <1>11, <3>1, <3>5, <3>6, <3>7
  <2> QED BY <2>2, <2>3
<1>14. Glue(Patched, c, q) = Glue(Patched, c, d) \o Text(src, <<d, q>>) /\ Glue(Patched, c, d) \in Seq(Lexeme)
  <2>1. 1 <= c /\ c <= d /\ d <= q /\ q <= Len(src) + 1
    BY <1>4, <1>8
  <2>2. Glue(Patched, c, q) = Glue(Patched, c, d) \o Glue(Patched, d, q) /\ Glue(Patched, c, d) \in Seq(Lexeme)
    BY <2>1, PatchedJoin
  <2> QED BY <1>10, <2>2
<1>15. Same(exact, mid \o Text(src, <<d, q>>), Glue(Patched, c, d) \o Text(src, <<d, q>>))
  <2>1. Same(exact, Text(src, <<d, q>>), Text(src, <<d, q>>))
    BY DEF Same
  <2> QED BY <1>11, <1>13, <1>14, <2>1, SameJoined
<1>16. mid \o Text(src, <<d, q>>) \in Seq(Lexeme)
  BY <1>11
<1> QED BY <1>4, <1>13, <1>14, <1>15, <1>16

\* A section is rendered as the patched source has it, mixed if its entries are reordered.
LEMMA SectionRendered ==
  ASSUME Settled, NEW exact \in BOOLEAN, NEW s \in DOMAIN tree, exact => entryOrder[s] = <<>>
  PROVE  /\ Same(exact, SectionText(s), Glue(Patched, tree[s].span[1], tree[s].span[2]))
         /\ SectionText(s) \in Seq(Lexeme)
<1> DEFINE k == <<s, 0>>
<1>1. src \in Seq(Lexeme) /\ Len(src) \in Nat
  BY SourceIsText DEF Settled, Ready
<1>2. PICK p, f, q \in Nat : /\ tree[s].span[1] = p /\ tree[s].span[2] = q
                             /\ tree[s].body[1] = f /\ tree[s].body[2] = q
                             /\ 1 <= p /\ p < f /\ p < q /\ q <= Len(src) + 1
  BY SectionIn
<1>3. PICK m \in Nat : m = Len(tree[s].entries) /\ DOMAIN tree[s].entries = 1..m
             /\ Len(Spans(tree[s].entries)) = m
  BY EntriesRow
<1>4. PICK c \in Nat, tail \in Seq(Lexeme) :
        /\ p <= c /\ c <= q /\ SectionParts(s) = Text(src, <<p, c>>) \o tail
        /\ Same(exact, tail, Glue(Patched, c, q))
        /\ \A e \in 1..m : c <= tree[s].entries[e].span[1]
        /\ IF m = 0 THEN c = q ELSE c = tree[s].entries[1].span[1]
  <2>1. CASE m = 0
    <3>1. Spans(tree[s].entries) = <<>>
      <4>1. Spans(tree[s].entries) = [i \in {} |-> tree[s].entries[i].span]
        BY <1>3, <2>1 DEF Spans
      <4> QED BY <4>1
    <3>2. SectionParts(s) = Text(src, <<p, q>>)
      BY <1>2, <3>1 DEF SectionParts, Text
    <3>3. Text(src, <<p, q>>) \o <<>> = Text(src, <<p, q>>)
      <4>1. p \in Nat \ {0}
        BY <1>2
      <4>2. Text(src, <<p, q>>) \in Seq(Lexeme)
        BY <1>1, <1>2, <4>1, TextType
      <4> QED BY <4>2
    <3>4. Same(exact, <<>>, Glue(Patched, q, q)) /\ <<>> \in Seq(Lexeme)
      <4>1. q \in Int
        BY <1>2
      <4>2. Glue(Patched, q, q) = <<>>
        BY <4>1, GlueNone
      <4> QED BY <4>2 DEF Same
    <3>5. p <= q /\ q <= q /\ q \in Nat /\ \A e \in 1..m : q <= tree[s].entries[e].span[1]
      BY <1>2, <2>1
    <3> QED BY <2>1, <3>2, <3>3, <3>4, <3>5
  <2>2. CASE m # 0
    <3>1. 1 \in 1..m /\ 1 \in DOMAIN tree[s].entries
      BY <1>3, <2>2
    <3>2. PICK c \in Nat, d \in Nat : /\ tree[s].entries[1].span[1] = c /\ tree[s].entries[1].span[2] = d
                                      /\ c < d /\ tree[s].body[1] <= c /\ d <= tree[s].body[2]
      BY <3>1, EntryIn
    <3>3. PICK tail \in Seq(Lexeme) : /\ SectionParts(s) = Text(src, <<p, c>>) \o tail
                                      /\ Same(exact, tail, Glue(Patched, c, q))
      <4>1. m \in Nat \ {0}
        BY <2>2
      <4> QED BY <1>2, <1>3, <3>2, <4>1, SectionInParts DEF FirstEntryAt
    <3>4. p <= c /\ c <= q
      BY <1>2, <3>2
    <3>5. ASSUME NEW e \in 1..m PROVE c <= tree[s].entries[e].span[1]
      <4>1. CASE e = 1
        BY <3>2, <4>1
      <4>2. CASE 1 < e
        <5>1. d <= tree[s].entries[e].span[1]
          BY <1>3, <3>1, <3>2, <4>2, EntriesRow
        <5>2. PICK v \in Nat : v = tree[s].entries[e].span[1]
          BY <1>3, EntryIn
        <5> QED BY <3>2, <5>1, <5>2
      <4> QED BY <4>1, <4>2
    <3> QED BY <2>2, <3>2, <3>3, <3>4, <3>5
  <2> QED BY <2>1, <2>2
<1>5. ASSUME NEW l \in Changed, l # k
      PROVE  Region(l)[2] <= p \/ c <= Region(l)[1]
  <2>1. l \in DOMAIN group
    BY DEF Changed
  <2>2. PICK g, h \in Nat : /\ Region(l) = <<g, h>> /\ 1 <= g /\ g < h /\ h <= Len(src) + 1
                            /\ RegionBounds(l, g, h) /\ l[2] \in 0..Len(tree[l[1]].entries)
    BY <2>1, RegionPlace
  <2>3. CASE l[1] # s
    <3>1. h <= p \/ q <= g
      BY <1>2, <2>1, <2>2, <2>3, OutsideSection
    <3> QED BY <1>4, <2>2, <3>1
  <2>4. CASE l[1] = s
    <3>1. l = <<l[1], l[2]>>
      <4>1. Parsed /\ l \in Places(tree)
        BY <2>1 DEF Settled, Ready, Grouped
      <4> QED BY <4>1, PlaceBounds
    <3>2. l[2] # 0
      BY <1>5, <2>4, <3>1
    <3>3. l[2] \in 1..m
      BY <1>3, <2>2, <2>4, <3>2
    <3>4. PICK v \in Nat : v = tree[s].entries[l[2]].span[1]
      BY <1>3, <3>3, EntryIn
    <3>5. v <= g /\ c <= v
      BY <1>4, <2>2, <2>4, <3>2, <3>3, <3>4 DEF RegionBounds
    <3> QED BY <2>2, <3>5
  <2> QED BY <2>3, <2>4
<1>6. ASSUME k \in Changed PROVE p <= Region(k)[1] /\ Region(k)[2] <= c
  <2>1. k \in DOMAIN group /\ k[1] = s /\ k[2] = 0
    BY <1>6 DEF Changed
  <2> HIDE DEF k
  <2>2. PICK g, h \in Nat : /\ Region(k) = <<g, h>> /\ 1 <= g /\ g < h /\ h <= Len(src) + 1
                            /\ RegionBounds(k, g, h) /\ k[2] \in 0..Len(tree[k[1]].entries)
    BY <2>1, RegionPlace
  <2>3. p <= g /\ h <= q /\ \A e \in 1..m : h <= tree[s].entries[e].span[1]
    BY <1>2, <1>3, <2>1, <2>2 DEF RegionBounds
  <2>4. h <= c
    <3>1. CASE m = 0
      BY <1>4, <2>3, <3>1
    <3>2. CASE m # 0
      <4>1. 1 \in 1..m
        BY <3>2
      <4> QED BY <1>4, <2>3, <3>2, <4>1
    <3> QED BY <3>1, <3>2
  <2> QED BY <2>2, <2>3, <2>4
<1>7. /\ Same(exact, WithGroup(Text(src, <<p, c>>) \o tail, p, k), Glue(Patched, p, q))
      /\ WithGroup(Text(src, <<p, c>>) \o tail, p, k) \in Seq(Lexeme)
  <2> HIDE DEF k
  <2> QED BY <1>2, <1>4, <1>5, <1>6, GroupFoldedIn
<1>8. SectionText(s) = WithGroup(Text(src, <<p, c>>) \o tail, p, k)
  BY <1>2, <1>4, SectionTextIs
<1> QED BY <1>2, <1>7, <1>8

(* ----------------------------- Replacements ----------------------------- *)

\* The spans and the texts of replacements.
SpansOf(edits) == [i \in DOMAIN edits |-> edits[i].span]
TextsOf(edits) == [i \in DOMAIN edits |-> edits[i].text]

\* Replacements in place do not meet.
LEMMA InPlaceApart ==
  ASSUME NEW edits, InPlace(edits)
  PROVE  SpansApart(SpansOf(edits), DOMAIN edits, Len(src) + 1)
<1>1. \A i \in DOMAIN edits : SpansOf(edits)[i] = edits[i].span
  BY DEF SpansOf
<1>2. DOMAIN edits \subseteq Nat
  BY DEF InPlace, IsSeq
<1>3. ASSUME NEW i \in DOMAIN edits, NEW j \in DOMAIN edits, i # j
      PROVE  SpansOf(edits)[i][2] <= SpansOf(edits)[j][1] \/ SpansOf(edits)[j][2] <= SpansOf(edits)[i][1]
  <2>1. i < j \/ j < i
    BY <1>2, <1>3
  <2> QED BY <1>1, <2>1 DEF InPlace
<1>4. ASSUME NEW i \in DOMAIN edits
      PROVE  /\ SpansOf(edits)[i][1] \in Nat /\ SpansOf(edits)[i][2] \in Nat /\ 1 <= SpansOf(edits)[i][1]
             /\ SpansOf(edits)[i][1] < SpansOf(edits)[i][2] /\ SpansOf(edits)[i][2] <= Len(src) + 1
  BY <1>1 DEF InPlace
<1> QED BY <1>3, <1>4 DEF SpansApart

\* Rendering replacements in place splices them into the source.
LEMMA RenderedEdits ==
  ASSUME src \in Seq(Lexeme), NEW edits, InPlace(edits), \A i \in DOMAIN edits : edits[i].text \in Seq(Lexeme)
  PROVE  /\ Render(edits) = Glue(Spliced(src, SpansOf(edits), TextsOf(edits), DOMAIN edits), 1, Len(src) + 1)
         /\ \A i \in 1..Len(src) :
               (\A k \in DOMAIN edits : ~Within(i, edits[k].span))
                 => Spliced(src, SpansOf(edits), TextsOf(edits), DOMAIN edits)[i] = <<src[i]>>
<1> DEFINE R == SpansOf(edits)
           T == TextsOf(edits)
           W == Spliced(src, R, T, DOMAIN edits)
<1>1. \A i \in DOMAIN edits : R[i] = edits[i].span /\ T[i] = edits[i].text
  BY DEF SpansOf, TextsOf
<1>2. SpansApart(R, DOMAIN edits, Len(src) + 1)
  BY InPlaceApart
<1>3. \A i \in DOMAIN edits : T[i] \in Seq(Lexeme)
  BY <1>1
<1> HIDE DEF R, T
<1>4. \A i \in 1..Len(src) : W[i] \in Seq(Lexeme)
  BY <1>3, SplicedType
<1>5. \A i \in DOMAIN edits : edits[i].text = Glue(W, edits[i].span[1], edits[i].span[2])
  <2> SUFFICES ASSUME NEW i \in DOMAIN edits PROVE T[i] = Glue(W, R[i][1], R[i][2])
    BY <1>1
  <2> QED BY <1>2, <1>3, SplicedAt
<1>6. ASSUME NEW i \in 1..Len(src), \A k \in DOMAIN edits : ~Within(i, edits[k].span)
      PROVE  W[i] = <<src[i]>>
  <2>1. ASSUME NEW k \in DOMAIN edits PROVE ~Within(i, R[k]) /\ R[k][1] # i
    <3>1. PICK a \in Nat, b \in Nat : a = edits[k].span[1] /\ b = edits[k].span[2] /\ a < b
      BY DEF InPlace
    <3> QED BY <1>1, <1>6, <3>1 DEF Within
  <2> QED BY <2>1 DEF Spliced
<1>7. Verbatim(W, edits)
  BY <1>6 DEF Verbatim
<1> HIDE DEF W
<1>8. Render(edits) = Glue(W, 1, Len(src) + 1)
  BY <1>4, <1>5, <1>7, RenderedSource
<1> QED BY <1>6, <1>8 DEF W, R, T

\* Replacements that hold what P holds in their spans are rendered as P, the ones that change
\* nothing left out.
LEMMA QueuedAlike ==
  ASSUME src \in Seq(Lexeme), NEW exact \in BOOLEAN, NEW P, \A i \in 1..Len(src) : P[i] \in Seq(Lexeme),
         NEW edits, InPlace(edits), Verbatim(P, edits),
         \A i \in DOMAIN edits : /\ edits[i].text \in Seq(Lexeme)
                                 /\ Same(exact, edits[i].text, Glue(P, edits[i].span[1], edits[i].span[2]))
  PROVE  Same(exact, Render(Queued(edits)), Glue(P, 1, Len(src) + 1))
<1> DEFINE n == Len(src) + 1
           kept == {i \in DOMAIN edits : Text(src, edits[i].span) # edits[i].text}
           Q == Queued(edits)
           W == Spliced(src, SpansOf(Q), TextsOf(Q), DOMAIN Q)
           R == SpansOf(edits)
<1>1. IsSeq(edits) /\ kept \subseteq DOMAIN edits /\ Q = Only(edits, kept)
  BY DEF InPlace, Queued
<1>2. PICK at : /\ IsSeq(Q) /\ DOMAIN at = DOMAIN Q
                /\ \A i \in DOMAIN at : at[i] \in kept /\ Q[i] = edits[at[i]]
                /\ \A x \in kept : \E i \in DOMAIN at : at[i] = x
                /\ \A i, j \in DOMAIN at : i < j => at[i] < at[j]
  <2> HIDE DEF kept, Q
  <2>1. /\ IsSeq(Only(edits, kept))
        /\ \E at : /\ DOMAIN at = DOMAIN Only(edits, kept)
                   /\ \A i \in DOMAIN at : at[i] \in kept /\ Only(edits, kept)[i] = edits[at[i]]
                   /\ \A x \in kept : \E i \in DOMAIN at : at[i] = x
                   /\ \A i, j \in DOMAIN at : i < j => at[i] < at[j]
    BY <1>1, PickedOut
  <2> QED BY <1>1, <2>1
<1> HIDE DEF Q
<1>3. InPlace(Q)
  <2>1. ASSUME NEW i \in DOMAIN Q
        PROVE  /\ Q[i].span[1] \in Nat /\ Q[i].span[2] \in Nat /\ 1 <= Q[i].span[1]
               /\ Q[i].span[1] < Q[i].span[2] /\ Q[i].span[2] <= Len(src) + 1
    <3>1. at[i] \in DOMAIN edits /\ Q[i] = edits[at[i]]
      BY <1>2
    <3> QED BY <3>1 DEF InPlace
  <2>2. ASSUME NEW i \in DOMAIN Q, NEW j \in DOMAIN Q, i < j PROVE Q[i].span[2] <= Q[j].span[1]
    <3>1. at[i] \in DOMAIN edits /\ at[j] \in DOMAIN edits /\ at[i] < at[j] /\ Q[i] = edits[at[i]]
            /\ Q[j] = edits[at[j]]
      BY <1>2, <2>2
    <3> QED BY <3>1 DEF InPlace
  <2> QED BY <1>2, <2>1, <2>2 DEF InPlace
<1>4. \A i \in DOMAIN Q : Q[i].text \in Seq(Lexeme) /\ at[i] \in DOMAIN edits /\ Q[i] = edits[at[i]]
  BY <1>2
<1>5. /\ Render(Q) = Glue(W, 1, n)
      /\ \A i \in 1..Len(src) : (\A k \in DOMAIN Q : ~Within(i, Q[k].span)) => W[i] = <<src[i]>>
  BY <1>3, <1>4, RenderedEdits
<1>6. \A i \in DOMAIN Q : SpansOf(Q)[i] = Q[i].span /\ TextsOf(Q)[i] = Q[i].text
  BY DEF SpansOf, TextsOf
<1>7. SpansApart(SpansOf(Q), DOMAIN Q, n)
  BY <1>3, InPlaceApart
<1>8. \A i \in DOMAIN Q : TextsOf(Q)[i] \in Seq(Lexeme)
  BY <1>4, <1>6
<1>9. \A i \in 1..Len(src) : W[i] \in Seq(Lexeme)
  BY <1>8, SplicedType
<1>10. \A i \in DOMAIN edits : R[i] = edits[i].span
  BY DEF SpansOf
<1>11. SpansApart(R, DOMAIN edits, n)
  BY InPlaceApart
<1>12. ASSUME NEW k \in DOMAIN edits
       PROVE  Same(exact, Glue(W, R[k][1], R[k][2]), Glue(P, R[k][1], R[k][2]))
  <2>1. Same(exact, edits[k].text, Glue(P, R[k][1], R[k][2]))
    BY <1>10
  <2>2. CASE k \in kept
    <3>1. PICK i \in DOMAIN Q : at[i] = k
      BY <1>2, <2>2
    <3>2. Glue(W, SpansOf(Q)[i][1], SpansOf(Q)[i][2]) = TextsOf(Q)[i]
      BY <1>7, <1>8, SplicedAt
    <3>3. SpansOf(Q)[i] = R[k] /\ TextsOf(Q)[i] = edits[k].text
      BY <1>4, <1>6, <1>10, <3>1
    <3> QED BY <2>1, <3>2, <3>3
  <2>3. CASE k \notin kept
    <3>1. Text(src, edits[k].span) = edits[k].text
      BY <2>3
    <3>2. PICK a \in Nat, b \in Nat : a = R[k][1] /\ b = R[k][2] /\ 1 <= a /\ a < b /\ b <= n
      BY <1>11 DEF SpansApart
    <3>3. ASSUME NEW j \in a..(b - 1), NEW i \in DOMAIN Q PROVE ~Within(j, SpansOf(Q)[i])
      <4>1. at[i] \in DOMAIN edits /\ at[i] # k
        BY <1>2, <2>3
      <4>2. PICK c \in Nat, d \in Nat : c = R[at[i]][1] /\ d = R[at[i]][2]
        BY <1>11, <4>1 DEF SpansApart
      <4>3. d <= a \/ b <= c
        BY <1>11, <3>2, <4>1, <4>2 DEF SpansApart
      <4>4. SpansOf(Q)[i] = R[at[i]]
        BY <1>4, <1>6, <1>10
      <4> QED BY <4>2, <4>3, <4>4 DEF Within
    <3>4. Glue(W, a, b) = Text(src, <<a, b>>)
      <4>1. a \in Nat \ {0} /\ a <= b /\ b <= Len(src) + 1
        BY <3>2
      <4>2. SpansApart(SpansOf(Q), DOMAIN Q, Len(src) + 1)
        BY <1>7
      <4>3. \A j \in a..(b - 1) : \A i \in DOMAIN Q : ~Within(j, SpansOf(Q)[i])
        BY <3>3
      <4> DEFINE RQ == SpansOf(Q)
                 TQ == TextsOf(Q)
                 KQ == DOMAIN Q
      <4>4. SpansApart(RQ, KQ, Len(src) + 1) /\ NoneWithin(RQ, KQ, a, b)
        BY <4>2, <4>3 DEF NoneWithin
      <4> HIDE DEF R, n, RQ, TQ, KQ, W
      <4>5. Glue(Spliced(src, RQ, TQ, KQ), a, b) = Text(src, <<a, b>>)
        BY <4>1, <4>4, SplicedOff
      <4> QED BY <4>5 DEF RQ, TQ, KQ, W
    <3>5. Text(src, <<a, b>>) = Text(src, edits[k].span)
      BY <1>10, <3>2 DEF Text
    <3> QED BY <2>1, <3>1, <3>2, <3>4, <3>5
  <2> QED BY <2>2, <2>3
<1>13. ASSUME NEW i \in 1..(n - 1), \A k \in DOMAIN edits : ~Within(i, R[k])
       PROVE  W[i] = P[i]
  <2>1. i \in 1..Len(src)
    OBVIOUS
  <2>2. \A k \in DOMAIN Q : ~Within(i, Q[k].span)
    BY <1>4, <1>10, <1>13
  <2>3. P[i] = <<src[i]>>
    BY <1>10, <1>13, <2>1 DEF Verbatim
  <2> QED BY <1>5, <2>1, <2>2, <2>3
<1> HIDE DEF W, R
<1>14. Same(exact, Glue(W, 1, n), Glue(P, 1, n))
  <2>1. n \in Nat \ {0} /\ n - 1 = Len(src)
    OBVIOUS
  <2>2. \A i \in 1..(n - 1) : W[i] \in Seq(Lexeme) /\ P[i] \in Seq(Lexeme)
    BY <1>9, <2>1
  <2> HIDE DEF n
  <2> QED BY <1>11, <1>12, <1>13, <2>1, <2>2, AlikeOutside
<1> QED BY <1>5, <1>14 DEF Q

(* ------------------------------- The plan ------------------------------- *)

\* The sections follow each other.
LEMMA SectionsRow ==
  ASSUME Settled
  PROVE  /\ IsSeq(tree) /\ Len(tree) \in Nat /\ DOMAIN tree = 1..Len(tree)
         /\ \A s \in DOMAIN tree : Spans(tree)[s] = tree[s].span
         /\ Len(Spans(tree)) = Len(tree) /\ DOMAIN Spans(tree) = DOMAIN tree
         /\ Follow(Spans(tree), Len(tree), Len(src) + 1)
         /\ \A s, t \in DOMAIN tree : s < t => tree[s].span[2] <= tree[t].span[1]
<1>1. Row(Spans(tree), 1, Len(src) + 1) /\ IsSeq(tree)
  BY TreeInRows DEF Settled, Ready
<1>2. /\ \A s \in DOMAIN tree : Spans(tree)[s] = tree[s].span
      /\ Len(Spans(tree)) = Len(tree) /\ DOMAIN Spans(tree) = DOMAIN tree
  BY <1>1, SpansAreSeq
<1>3. Len(src) + 1 \in Nat /\ Len(src) + 1 <= Len(src) + 1
  BY SourceIsText DEF Settled, Ready
<1>4. Follow(Spans(tree), Len(Spans(tree)), Len(src) + 1)
  BY <1>1, <1>3, RowFollows
<1>5. \A s, t \in DOMAIN tree : s < t => tree[s].span[2] <= tree[t].span[1]
  BY <1>1, <1>2 DEF Row
<1> QED BY <1>1, <1>2, <1>4, <1>5 DEF IsSeq

\* The sections that are replaced if their order is not changed.
Touched == {s \in DOMAIN tree : EntriesTouched(s) \/ Mutated(<<s, 0>>)}

\* A changed group lies in a section that is replaced.
LEMMA ChangeTouches ==
  ASSUME Settled, NEW k \in Changed
  PROVE  /\ k[1] \in Touched
         /\ \A i : Within(i, Region(k)) /\ i \in Nat => Within(i, tree[k[1]].span)
<1>1. k \in DOMAIN group /\ Mutated(k)
  BY DEF Changed
<1>2. k[1] \in DOMAIN tree /\ k = <<k[1], k[2]>>
  BY <1>1, GroupKeys
<1>3. PICK a, b \in Nat : /\ Region(k) = <<a, b>> /\ 1 <= a /\ a < b /\ b <= Len(src) + 1
                          /\ RegionBounds(k, a, b) /\ k[2] \in 0..Len(tree[k[1]].entries)
  BY <1>1, RegionPlace
<1>4. k[1] \in Touched
  <2>1. CASE k[2] = 0
    BY <1>1, <1>2, <2>1 DEF Touched
  <2>2. CASE k[2] # 0
    <3>1. k[2] \in DOMAIN tree[k[1]].entries
      BY <1>3, <2>2 DEF RegionBounds
    <3>2. EntriesTouched(k[1])
      BY <1>1, <1>2, <3>1 DEF EntriesTouched
    <3> QED BY <1>2, <3>2 DEF Touched
  <2> QED BY <2>1, <2>2
<1>5. PICK p \in Nat, q \in Nat : p = tree[k[1]].span[1] /\ q = tree[k[1]].span[2]
  BY <1>2, SectionIn
<1>6. p <= a /\ b <= q
  BY <1>3, <1>5 DEF RegionBounds
<1>7. ASSUME NEW i, Within(i, Region(k)), i \in Nat PROVE Within(i, tree[k[1]].span)
  <2>1. a <= i /\ i < b
    BY <1>3, <1>7 DEF Within
  <2> QED BY <1>5, <1>6, <1>7, <2>1 DEF Within
<1> QED BY <1>4, <1>7

\* The replacement of a section.
SectionEdit(s) == [span |-> tree[s].span, text |-> SectionText(s)]

\* Section by section the replacements hold what the patched source holds there.
LEMMA SectionsEdited ==
  ASSUME Settled, sectionOrder = <<>>, NEW exact \in BOOLEAN,
         exact => \A s \in DOMAIN tree : entryOrder[s] = <<>>
  PROVE  /\ InPlace(Replacements) /\ Verbatim(Patched, Replacements)
         /\ \A i \in DOMAIN Replacements :
               /\ Replacements[i].text \in Seq(Lexeme)
               /\ Same(exact, Replacements[i].text,
                       Glue(Patched, Replacements[i].span[1], Replacements[i].span[2]))
<1> DEFINE edits == Replacements
<1>1. PICK order : order = Ascending(Touched)
  OBVIOUS
<1>2. Touched \subseteq Nat /\ IsFiniteSet(Touched) /\ Touched \subseteq DOMAIN tree
  <2>1. Touched \subseteq 1..Len(tree) /\ Len(tree) \in Nat /\ Touched \subseteq DOMAIN tree
    BY SectionsRow DEF Touched
  <2>2. IsFiniteSet(1..Len(tree))
    BY <2>1, FS_Interval
  <2>3. IsFiniteSet(Touched)
    BY <2>1, <2>2, FS_Subset
  <2> QED BY <2>1, <2>3
<1>3. /\ IsSeq(order)
      /\ \A i \in DOMAIN order : order[i] \in Touched
      /\ \A x \in Touched : \E i \in DOMAIN order : order[i] = x
      /\ \A i, j \in DOMAIN order : i < j => order[i] < order[j]
  BY <1>1, <1>2, AscendingSorts
<1>4. edits = [i \in DOMAIN order |-> SectionEdit(order[i])]
  BY <1>1 DEF Replacements, Each, Touched, SectionEdit
<1> HIDE DEF edits
<1>5. IsSeq(edits) /\ DOMAIN edits = DOMAIN order
  <2>1. PICK n \in Nat : DOMAIN order = 1..n
    BY <1>3 DEF IsSeq
  <2>2. edits = [i \in 1..n |-> edits[i]]
    BY <1>4, <2>1
  <2> QED BY <1>4, <2>1, <2>2, AsSequence
<1>6. \A i \in DOMAIN edits : edits[i].span = tree[order[i]].span /\ edits[i].text = SectionText(order[i])
  BY <1>4 DEF SectionEdit
<1>7. ASSUME NEW i \in DOMAIN edits
      PROVE  /\ edits[i].span[1] \in Nat /\ edits[i].span[2] \in Nat /\ 1 <= edits[i].span[1]
             /\ edits[i].span[1] < edits[i].span[2] /\ edits[i].span[2] <= Len(src) + 1
  <2>1. order[i] \in DOMAIN tree
    BY <1>2, <1>3, <1>5
  <2>2. PICK p, f, q \in Nat : /\ tree[order[i]].span[1] = p /\ tree[order[i]].span[2] = q
                               /\ tree[order[i]].body[1] = f /\ tree[order[i]].body[2] = q
                               /\ 1 <= p /\ p < f /\ p < q /\ q <= Len(src) + 1
    BY <2>1, SectionIn
  <2> QED BY <1>6, <2>2
<1>8. ASSUME NEW i \in DOMAIN edits, NEW j \in DOMAIN edits, i < j PROVE edits[i].span[2] <= edits[j].span[1]
  <2>1. order[i] \in DOMAIN tree /\ order[j] \in DOMAIN tree /\ order[i] < order[j]
    BY <1>2, <1>3, <1>5, <1>8
  <2> QED BY <1>6, <2>1, SectionsRow
<1>9. InPlace(edits)
  BY <1>5, <1>7, <1>8 DEF InPlace
<1>10. Verbatim(Patched, edits)
  <2> SUFFICES ASSUME NEW i \in 1..Len(src), \A j \in DOMAIN edits : ~Within(i, edits[j].span)
               PROVE  Patched[i] = <<src[i]>>
    BY DEF Verbatim
  <2>1. ASSUME NEW k \in Changed PROVE ~Within(i, Region(k))
    <3>1. k[1] \in Touched
      BY ChangeTouches
    <3>2. PICK j \in DOMAIN edits : order[j] = k[1]
      BY <1>3, <1>5, <3>1
    <3>3. ~Within(i, tree[k[1]].span)
      BY <1>6, <3>2
    <3>4. i \in Nat
      OBVIOUS
    <3> QED BY <3>3, <3>4, ChangeTouches
  <2> QED BY <2>1, PatchedOutside
<1>11. ASSUME NEW i \in DOMAIN edits
       PROVE  /\ edits[i].text \in Seq(Lexeme)
              /\ Same(exact, edits[i].text, Glue(Patched, edits[i].span[1], edits[i].span[2]))
  <2>1. order[i] \in DOMAIN tree
    BY <1>2, <1>3, <1>5
  <2>2. exact => entryOrder[order[i]] = <<>>
    BY <2>1
  <2>3. /\ Same(exact, SectionText(order[i]), Glue(Patched, tree[order[i]].span[1], tree[order[i]].span[2]))
        /\ SectionText(order[i]) \in Seq(Lexeme)
    BY <2>1, <2>2, SectionRendered
  <2> QED BY <1>6, <2>3
<1> QED BY <1>9, <1>10, <1>11 DEF edits

\* So does the one replacement of all sections in a new order, mixed.
LEMMA SectionsMoved ==
  ASSUME Settled, SectionsToOrder, sectionOrder # <<>>
  PROVE  /\ InPlace(Replacements) /\ Verbatim(Patched, Replacements)
         /\ \A i \in DOMAIN Replacements :
               /\ Replacements[i].text \in Seq(Lexeme)
               /\ Same(FALSE, Replacements[i].text,
                       Glue(Patched, Replacements[i].span[1], Replacements[i].span[2]))
<1> DEFINE spans == Spans(tree)
           texts == [s \in DOMAIN tree |-> SectionText(s)]
           text == RenderGroup(spans, sectionOrder, texts)
<1>1. src \in Seq(Lexeme) /\ Len(src) \in Nat
  BY SourceIsText DEF Settled, Ready
<1>2. PICK m \in Nat \ {0} : m = Len(tree)
  BY DEF SectionsToOrder
<1>3. /\ DOMAIN tree = 1..m /\ Len(spans) = m
      /\ \A s \in 1..m : spans[s] = tree[s].span
      /\ Follow(spans, m, Len(src) + 1)
      /\ \A s, t \in 1..m : s < t => tree[s].span[2] <= tree[t].span[1]
  BY <1>2, SectionsRow
<1>4. \A s \in 1..m : texts[s] \in Seq(Lexeme)
                      /\ Same(FALSE, texts[s], Glue(Patched, spans[s][1], spans[s][2]))
  <2> SUFFICES ASSUME NEW s \in 1..m
               PROVE  texts[s] \in Seq(Lexeme) /\ Same(FALSE, texts[s], Glue(Patched, spans[s][1], spans[s][2]))
    OBVIOUS
  <2>1. s \in DOMAIN tree /\ texts[s] = SectionText(s) /\ spans[s] = tree[s].span
    BY <1>3
  <2>2. FALSE \in BOOLEAN /\ (FALSE => entryOrder[s] = <<>>)
    OBVIOUS
  <2>3. /\ Same(FALSE, SectionText(s), Glue(Patched, tree[s].span[1], tree[s].span[2]))
        /\ SectionText(s) \in Seq(Lexeme)
    BY <2>1, <2>2, SectionRendered
  <2> QED BY <2>1, <2>3
<1>5. \A s \in 1..m : \E p, q \in Nat : p = tree[s].span[1] /\ q = tree[s].span[2] /\ 1 <= p /\ p < q
                                        /\ q <= Len(src) + 1
  <2> TAKE s \in 1..m
  <2>1. PICK p, f, q \in Nat : /\ tree[s].span[1] = p /\ tree[s].span[2] = q
                               /\ tree[s].body[1] = f /\ tree[s].body[2] = q
                               /\ 1 <= p /\ p < f /\ p < q /\ q <= Len(src) + 1
    BY <1>3, SectionIn
  <2> QED BY <2>1
<1>6. ASSUME NEW i \in 1..(m - 1)
      PROVE  Same(FALSE, Text(src, <<spans[i][2], spans[i + 1][1]>>), Glue(Patched, spans[i][2], spans[i + 1][1]))
  <2>1. i \in 1..m /\ i + 1 \in 1..m /\ i < i + 1
    OBVIOUS
  <2>2. PICK a \in Nat, b \in Nat : a = tree[i].span[1] /\ b = tree[i].span[2] /\ 1 <= a /\ a < b
    BY <1>5, <2>1
  <2>3. PICK g \in Nat, h \in Nat : g = tree[i + 1].span[1] /\ h = tree[i + 1].span[2] /\ g < h
               /\ h <= Len(src) + 1
    BY <1>5, <2>1
  <2>4. b <= g
    BY <1>3, <2>1, <2>2, <2>3
  <2>5. b \in Nat \ {0} /\ g <= Len(src) + 1
    <3>1. b \in Nat \ {0}
      BY <2>2
    <3>2. PICK n \in Nat : n = Len(src)
      BY <1>1
    <3>3. g <= n + 1
      BY <2>3, <3>2
    <3> QED BY <3>1, <3>2, <3>3
  <2>6. Clear(b, g)
    <3>1. ASSUME NEW l \in Changed PROVE Region(l)[2] <= b \/ g <= Region(l)[1]
      <4>1. l \in DOMAIN group
        BY DEF Changed
      <4>2. PICK c, d \in Nat : /\ Region(l) = <<c, d>> /\ 1 <= c /\ c < d /\ d <= Len(src) + 1
                                /\ RegionBounds(l, c, d) /\ l[2] \in 0..Len(tree[l[1]].entries)
        BY <4>1, RegionPlace
      <4>3. l[1] \in 1..m
        BY <1>3, <4>1, GroupKeys
      <4>4. PICK v \in Nat, w \in Nat : v = tree[l[1]].span[1] /\ w = tree[l[1]].span[2]
        BY <1>5, <4>3
      <4>5. v <= c /\ d <= w
        BY <4>2, <4>4 DEF RegionBounds
      <4>6. w <= b \/ g <= v
        <5>1. CASE l[1] = i
          BY <2>2, <4>4, <5>1
        <5>2. CASE l[1] = i + 1
          BY <2>3, <4>4, <5>2
        <5>3. CASE l[1] < i
          <6>1. w <= a
            BY <1>3, <2>1, <2>2, <4>3, <4>4, <5>3
          <6> QED BY <2>2, <6>1
        <5>4. CASE i + 1 < l[1]
          <6>1. h <= v
            BY <1>3, <2>1, <2>3, <4>3, <4>4, <5>4
          <6> QED BY <2>3, <6>1
        <5> QED BY <4>3, <5>1, <5>2, <5>3, <5>4
      <4> QED BY <4>2, <4>5, <4>6
    <3> QED BY <3>1 DEF Clear
  <2>7. Glue(Patched, b, g) = Text(src, <<b, g>>)
    BY <2>4, <2>5, <2>6, PatchedOff
  <2>8. spans[i][2] = b /\ spans[i + 1][1] = g
    BY <1>3, <2>1, <2>2, <2>3
  <2> QED BY <2>7, <2>8 DEF Same
<1>7. IsOrder(sectionOrder, m)
  BY <1>2 DEF Settled, Ready, OrdersOk, SectionsOrdered
<1>8. Fits(FALSE, Patched, spans, texts, m)
  BY <1>4 DEF Fits
<1>9. PICK a \in Nat, b \in Nat : /\ a = spans[1][1] /\ b = spans[m][2] /\ Covering(spans) = <<a, b>>
                                  /\ 1 <= a /\ a < b /\ b <= Len(src) + 1
                                  /\ \A s \in 1..m : a <= tree[s].span[1] /\ tree[s].span[2] <= b
  <2>1. Row(spans, 1, Len(src) + 1)
    BY TreeInRows DEF Settled, Ready
  <2>2. Len(spans) # 0
    BY <1>3
  <2> HIDE DEF spans
  <2>3. PICK a, b \in Nat : /\ a = spans[1][1] /\ b = spans[Len(spans)][2] /\ Covering(spans) = <<a, b>>
                            /\ 1 <= a /\ a < b /\ b <= Len(src) + 1
                            /\ \A i \in DOMAIN spans : a <= spans[i][1] /\ spans[i][2] <= b
    BY <2>1, <2>2, RowCovered
  <2>4. DOMAIN spans = 1..m
    BY <1>3, <2>1 DEF Row, IsSeq
  <2>5. \A s \in 1..m : a <= tree[s].span[1] /\ tree[s].span[2] <= b
    BY <1>3, <2>3, <2>4
  <2> QED BY <1>3, <2>3, <2>5
<1>10. Same(FALSE, text, Glue(Patched, a, b)) /\ text \in Seq(Lexeme)
  <2>1. \A i \in 1..Len(src) : Patched[i] \in Seq(Lexeme)
    BY PatchedType
  <2>2. \A i \in 1..m : texts[i] \in Seq(Lexeme)
    BY <1>4
  <2>3. FALSE \in BOOLEAN /\ (FALSE => sectionOrder = Identity(m))
    OBVIOUS
  <2> HIDE DEF spans, texts
  <2>4. /\ Same(FALSE, RenderGroup(spans, sectionOrder, texts), Glue(Patched, spans[1][1], spans[m][2]))
        /\ RenderGroup(spans, sectionOrder, texts) \in Seq(Lexeme)
    BY <1>1, <1>3, <1>6, <1>7, <1>8, <2>1, <2>2, <2>3, RenderedAlike
  <2> QED BY <1>9, <2>4
<1>11. Replacements = <<[span |-> <<a, b>>, text |-> text]>>
  BY <1>9 DEF Replacements
<1> HIDE DEF text
<1>12. PICK edits : edits = Replacements
  OBVIOUS
<1>13. /\ DOMAIN edits = {1} /\ Len(edits) = 1 /\ edits = [i \in DOMAIN edits |-> edits[i]]
       /\ edits[1].span = <<a, b>> /\ edits[1].text = text
  BY <1>11, <1>12
<1>14. InPlace(edits)
  <2>1. IsSeq(edits)
    BY <1>13 DEF IsSeq
  <2>2. \A i \in DOMAIN edits : i = 1
    BY <1>13
  <2> QED BY <1>9, <1>13, <2>1, <2>2 DEF InPlace
<1>15. Verbatim(Patched, edits)
  <2> SUFFICES ASSUME NEW i \in 1..Len(src), \A j \in DOMAIN edits : ~Within(i, edits[j].span)
               PROVE  Patched[i] = <<src[i]>>
    BY DEF Verbatim
  <2>1. ~(a <= i /\ i < b) /\ i \in Nat
    BY <1>13 DEF Within
  <2>2. ASSUME NEW k \in Changed PROVE ~Within(i, Region(k))
    <3>1. k[1] \in 1..m
      BY <1>3, GroupKeys DEF Changed
    <3>2. PICK p \in Nat, q \in Nat : p = tree[k[1]].span[1] /\ q = tree[k[1]].span[2]
      BY <1>5, <3>1
    <3>3. a <= p /\ q <= b
      BY <1>9, <3>1, <3>2
    <3>4. ~Within(i, tree[k[1]].span)
      BY <2>1, <3>2, <3>3 DEF Within
    <3> QED BY <2>1, <3>4, ChangeTouches
  <2> QED BY <2>2, PatchedOutside
<1>16. \A i \in DOMAIN edits : /\ edits[i].text \in Seq(Lexeme)
                               /\ Same(FALSE, edits[i].text, Glue(Patched, edits[i].span[1], edits[i].span[2]))
  <2>1. /\ edits[1].text \in Seq(Lexeme)
        /\ Same(FALSE, edits[1].text, Glue(Patched, edits[1].span[1], edits[1].span[2]))
    <3>1. edits[1].span[1] = a /\ edits[1].span[2] = b
      BY <1>13
    <3>2. edits[1].text = text
      BY <1>13
    <3>3. edits[1].text \in Seq(Lexeme)
      BY <1>10, <3>2, Zenon
    <3>4. Same(FALSE, edits[1].text, Glue(Patched, a, b))
      BY <1>10, <3>2, Zenon
    <3>5. Same(FALSE, edits[1].text, Glue(Patched, edits[1].span[1], edits[1].span[2]))
      BY <3>1, <3>4, Zenon
    <3> QED BY <3>3, <3>5
  <2>2. \A i \in DOMAIN edits : i = 1
    BY <1>13
  <2> QED BY <2>1, <2>2
<1> QED BY <1>12, <1>14, <1>15, <1>16

\* A plan is rendered as the patched source, mixed if it reorders sections or entries.
LEMMA PlanRendered ==
  ASSUME Settled, SectionsToOrder, NEW exact \in BOOLEAN,
         exact => sectionOrder = <<>> /\ \A s \in DOMAIN tree : entryOrder[s] = <<>>
  PROVE  Same(exact, Render(Queued(Replacements)), Glue(Patched, 1, Len(src) + 1))
<1>1. src \in Seq(Lexeme)
  BY SourceIsText DEF Settled, Ready
<1>2. \A i \in 1..Len(src) : Patched[i] \in Seq(Lexeme)
  BY PatchedType
<1>3. /\ InPlace(Replacements) /\ Verbatim(Patched, Replacements)
      /\ \A i \in DOMAIN Replacements :
            /\ Replacements[i].text \in Seq(Lexeme)
            /\ Same(exact, Replacements[i].text, Glue(Patched, Replacements[i].span[1], Replacements[i].span[2]))
  <2>1. CASE sectionOrder = <<>>
    BY <2>1, SectionsEdited
  <2>2. CASE sectionOrder # <<>>
    <3>1. exact = FALSE
      BY <2>2
    <3> QED BY <2>2, <3>1, SectionsMoved
  <2> QED BY <2>1, <2>2
<1> QED BY <1>1, <1>2, <1>3, QueuedAlike

(* ---------------------------- Rendered flat ----------------------------- *)

\* There are finitely many groups of bullets: each starts at a place of its own.
LEMMA GroupsAreFinite ==
  ASSUME Settled
  PROVE  IsFiniteSet(DOMAIN group)
<1>1. PICK n \in Nat : n = Len(src)
  BY SourceIsText DEF Settled, Ready
<1>2. PICK starts : starts = [k \in DOMAIN group |-> Region(k)[1]]
  OBVIOUS
<1>3. ASSUME NEW k \in DOMAIN group PROVE starts[k] \in 1..n
  <2>1. PICK a, b \in Nat : Region(k) = <<a, b>> /\ 1 <= a /\ a < b /\ b <= Len(src) + 1
    BY RegionIn
  <2> QED BY <1>1, <1>2, <2>1
<1>4. ASSUME NEW k \in DOMAIN group, NEW l \in DOMAIN group, k # l PROVE starts[k] # starts[l]
  <2>1. PICK a, b \in Nat : Region(k) = <<a, b>> /\ a < b
    BY RegionIn
  <2>2. PICK c, d \in Nat : Region(l) = <<c, d>> /\ c < d
    BY RegionIn
  <2>3. b <= c \/ d <= a
    BY <1>4, <2>1, <2>2, GroupsCompare, RegionsFollow
  <2> QED BY <1>2, <2>1, <2>2, <2>3
<1>5. starts \in [DOMAIN group -> 1..n]
  BY <1>2, <1>3
<1>6. starts \in Injection(DOMAIN group, 1..n)
  BY <1>4, <1>5 DEF Injection, IsInjective
<1>7. IsFiniteSet(1..n)
  BY <1>1, FS_Interval
<1> QED BY <1>6, <1>7, FS_Injection

\* The order of the changed groups, and the replacements of their regions.
GroupOrder == {p \in (DOMAIN group) \X (DOMAIN group) : Before(p[1], p[2])}

\* The order of the groups is a strict one.
LEMMA GroupsInOrder ==
  ASSUME Settled
  PROVE  StrictOrder(Changed, GroupOrder)
<1>1. Changed \subseteq DOMAIN group
  BY DEF Changed
<1>2. ASSUME NEW k \in DOMAIN group, NEW l \in DOMAIN group
      PROVE  <<k, l>> \in GroupOrder <=> Before(k, l)
  BY DEF GroupOrder
<1>3. ASSUME NEW k \in DOMAIN group PROVE k[1] \in Nat /\ k[2] \in Nat
  BY GroupKeys
<1>4. ASSUME NEW k \in Changed PROVE <<k, k>> \notin GroupOrder
  BY <1>1, <1>2, <1>3 DEF Before
<1>5. ASSUME NEW k \in Changed, NEW l \in Changed, NEW m \in Changed,
             <<k, l>> \in GroupOrder, <<l, m>> \in GroupOrder
      PROVE  <<k, m>> \in GroupOrder
  <2>1. Before(k, l) /\ Before(l, m)
    BY <1>1, <1>2, <1>5
  <2>2. Before(k, m)
    BY <1>1, <1>3, <2>1 DEF Before
  <2> QED BY <1>1, <1>2, <2>2
<1>6. ASSUME NEW k \in Changed, NEW l \in Changed, k # l
      PROVE  <<k, l>> \in GroupOrder \/ <<l, k>> \in GroupOrder
  BY <1>1, <1>2, <1>6, GroupsCompare
<1> QED BY <1>4, <1>5, <1>6 DEF StrictOrder

FlatEdit(k) == [span |-> Region(k), text |-> GroupText(k)]
FlatEdits == LET changed == InOrder(Changed, GroupOrder) IN [n \in DOMAIN changed |-> FlatEdit(changed[n])]

\* Replacing the regions of the changed groups, one by one, gives the patched source.
LEMMA FlatIsPatched ==
  ASSUME Settled
  PROVE  Render(FlatEdits) = Glue(Patched, 1, Len(src) + 1)
<1>1. PICK changed : changed = InOrder(Changed, GroupOrder)
  OBVIOUS
<1>2. IsFiniteSet(Changed)
  BY GroupsAreFinite, FS_Subset DEF Changed
<1>3. /\ IsSeq(changed)
      /\ \A i \in DOMAIN changed : changed[i] \in Changed
      /\ \A x \in Changed : \E i \in DOMAIN changed : changed[i] = x
      /\ \A i, j \in DOMAIN changed : i < j => <<changed[i], changed[j]>> \in GroupOrder
  BY <1>1, <1>2, GroupsInOrder, InOrderSorts
<1>4. PICK edits : edits = FlatEdits
  OBVIOUS
<1>5. edits = [i \in DOMAIN changed |-> FlatEdit(changed[i])]
  BY <1>1, <1>4 DEF FlatEdits
<1>6. IsSeq(edits) /\ DOMAIN edits = DOMAIN changed
  <2>1. PICK n \in Nat : DOMAIN changed = 1..n
    BY <1>3 DEF IsSeq
  <2>2. edits = [i \in 1..n |-> edits[i]]
    BY <1>5, <2>1
  <2> QED BY <1>5, <2>1, <2>2, AsSequence
<1>7. \A i \in DOMAIN edits : /\ edits[i].span = Region(changed[i]) /\ edits[i].text = GroupText(changed[i])
                              /\ changed[i] \in Changed /\ changed[i] \in DOMAIN group
  BY <1>3, <1>5 DEF FlatEdit, Changed
<1>8. ASSUME NEW i \in DOMAIN edits
      PROVE  /\ edits[i].span[1] \in Nat /\ edits[i].span[2] \in Nat /\ 1 <= edits[i].span[1]
             /\ edits[i].span[1] < edits[i].span[2] /\ edits[i].span[2] <= Len(src) + 1
  <2>1. PICK a, b \in Nat : Region(changed[i]) = <<a, b>> /\ 1 <= a /\ a < b /\ b <= Len(src) + 1
    BY <1>7, RegionIn
  <2> QED BY <1>7, <2>1
<1>9. ASSUME NEW i \in DOMAIN edits, NEW j \in DOMAIN edits, i < j PROVE edits[i].span[2] <= edits[j].span[1]
  <2>1. Before(changed[i], changed[j])
    BY <1>3, <1>6, <1>9 DEF GroupOrder
  <2> QED BY <1>7, <2>1, RegionsFollow
<1>10. InPlace(edits)
  BY <1>6, <1>8, <1>9 DEF InPlace
<1>11. Verbatim(Patched, edits)
  <2> SUFFICES ASSUME NEW i \in 1..Len(src), \A j \in DOMAIN edits : ~Within(i, edits[j].span)
               PROVE  Patched[i] = <<src[i]>>
    BY DEF Verbatim
  <2>1. ASSUME NEW k \in Changed PROVE ~Within(i, Region(k))
    <3>1. PICK j \in DOMAIN edits : changed[j] = k
      BY <1>3, <1>6
    <3> QED BY <1>7, <3>1
  <2> QED BY <2>1, PatchedOutside
<1>12. ASSUME NEW i \in DOMAIN edits PROVE edits[i].text = Glue(Patched, edits[i].span[1], edits[i].span[2])
  BY <1>7, PatchedAt
<1>13. src \in Seq(Lexeme) /\ \A i \in 1..Len(src) : Patched[i] \in Seq(Lexeme)
  BY SourceIsText, PatchedType DEF Settled, Ready
<1> QED BY <1>4, <1>10, <1>11, <1>12, <1>13, RenderedSource

\* Without a reordering of sections and entries what is rendered is the patched source.
LEMMA RenderedFlat ==
  ASSUME Settled, SectionsToOrder, RenderingSucceeds
  PROVE  FlatRendering
<1> SUFFICES ASSUME out # <<>>, sectionOrder = <<>>, \A s \in DOMAIN tree : entryOrder[s] = <<>>
             PROVE  out[1] = Render(FlatEdits)
  BY DEF FlatRendering, FlatEdits, FlatEdit, Changed, GroupOrder
<1>1. out[1] = Render(Queued(Replacements))
  BY DEF RenderingSucceeds
<1>2. Same(TRUE, Render(Queued(Replacements)), Glue(Patched, 1, Len(src) + 1))
  BY PlanRendered
<1>3. Render(Queued(Replacements)) = Glue(Patched, 1, Len(src) + 1)
  BY <1>2 DEF Same
<1> QED BY <1>1, <1>3, FlatIsPatched

\* In every reachable state what the edits and the parser have established is there.
LEMMA AlwaysSettled ==
  ASSUME \A d \in Documents : Tidy(d.source, BuildMask(d.source), d.profile)
  PROVE  Spec => [](Settled /\ SectionsToOrder /\ RenderingSucceeds)
<1>1. Init => Parsed /\ Grouped /\ SectionsToOrder
  BY DEF Init, Parsed, Grouped, CollectGroups, SectionsToOrder
<1>2. OrdersOk /\ Parsed /\ Grouped /\ Inv /\ SpansNested => Settled
  BY DEF Ready, Settled
<1> QED BY <1>1, <1>2, InvInit, InvNext, OrdersInit, OrdersNext, GroupsStayGrouped, SectionsStayToOrder,
           TreeStays, SpansStayNested, EditsNeverCollide, PTL DEF Spec

\* A tidy document is rendered as if the regions of the changed groups had been replaced in the
\* source, as long as no plan reorders sections or entries (apply.py, _emit; editbuffer.py, render).
THEOREM NestedEditsRenderFlat ==
  ASSUME \A d \in Documents : Tidy(d.source, BuildMask(d.source), d.profile)
  PROVE  Spec => []FlatRendering
<1>1. Settled /\ SectionsToOrder /\ RenderingSucceeds => FlatRendering
  BY RenderedFlat
<1> QED BY <1>1, AlwaysSettled, PTL

(* ------------------------- Every lexeme counted ------------------------- *)

\* The first n of the places.
FirstOf(places, n) == {places[i] : i \in 1..n}

\* What is counted of x in the text spliced at the first n places.
Counted(text, R, T, places, n, x) ==
  Count(Glue(Spliced(text, R, T, FirstOf(places, n)), 1, Len(text) + 1), x)
      + Count(Glue([i \in 1..n |-> Text(text, R[places[i]])], 1, n + 1), x)
    = Count(text, x) + Count(Glue([i \in 1..n |-> T[places[i]]], 1, n + 1), x)

\* Splicing in one more region leaves what is outside of it as it was.
LEMMA SplicedOneMore ==
  ASSUME NEW S, NEW text \in Seq(S), NEW R, NEW T, NEW K, NEW k, SpansApart(R, K \cup {k}, Len(text) + 1),
         NEW i \in 1..Len(text), ~Within(i, R[k])
  PROVE  Spliced(text, R, T, K \cup {k})[i] = Spliced(text, R, T, K)[i]
<1> DEFINE L == K \cup {k}
<1>1. PICK a \in Nat, b \in Nat : a = R[k][1] /\ b = R[k][2] /\ a < b
  BY DEF SpansApart
<1>2. R[k][1] # i
  BY <1>1 DEF Within
<1>3. \A l \in L : R[l][1] \in Nat /\ R[l][2] \in Nat /\ R[l][1] < R[l][2]
  BY DEF SpansApart
<1>4. \A l, m \in L : R[l][1] = R[m][1] => l = m
  <2> TAKE l, m \in L
  <2>1. PICK p \in Nat, q \in Nat : p = R[l][1] /\ q = R[l][2] /\ p < q
    BY <1>3
  <2>2. PICK u \in Nat, v \in Nat : u = R[m][1] /\ v = R[m][2] /\ u < v
    BY <1>3
  <2>3. l # m => q <= u \/ v <= p
    BY <2>1, <2>2 DEF SpansApart
  <2> QED BY <2>1, <2>2, <2>3
<1>5. CASE \E l \in K : R[l][1] = i
  <2>1. PICK l \in K : R[l][1] = i
    BY <1>5
  <2>2. (CHOOSE m \in K : R[m][1] = i) = l
    BY <1>4, <2>1
  <2>3. (CHOOSE m \in L : R[m][1] = i) = l
    BY <1>4, <2>1
  <2>4. \E m \in L : R[m][1] = i
    BY <2>1
  <2> QED BY <1>5, <2>2, <2>3, <2>4 DEF Spliced
<1>6. CASE ~ \E l \in K : R[l][1] = i
  <2>1. ~ \E l \in L : R[l][1] = i
    BY <1>2, <1>6
  <2>2. (\E l \in L : Within(i, R[l])) <=> (\E l \in K : Within(i, R[l]))
    OBVIOUS
  <2> QED BY <1>6, <2>1, <2>2 DEF Spliced
<1> QED BY <1>5, <1>6

\* The stretches two places cut a text into are stretches of it.
LEMMA PartsOfARange ==
  ASSUME NEW n \in Nat, NEW a \in Nat, NEW b \in Nat, 1 <= a, a <= b, b <= n + 1
  PROVE  /\ 1..(n + 1 - 1) \subseteq 1..n /\ 1..(b - 1) \subseteq 1..n
         /\ 1..(a - 1) \subseteq 1..n /\ a..(b - 1) \subseteq 1..n
         /\ b..(n + 1 - 1) \subseteq 1..n
OBVIOUS

\* What the regions held is gone and what their texts hold is there instead; the rest is what it was.
LEMMA CountSpliced ==
  ASSUME NEW S, NEW text \in Seq(S), NEW R, NEW T, NEW N \in Nat, NEW places,
         \A i, j \in 1..N : places[i] = places[j] => i = j,
         SpansApart(R, FirstOf(places, N), Len(text) + 1),
         \A k \in FirstOf(places, N) : T[k] \in Seq(S), NEW x
  PROVE  Counted(text, R, T, places, N, x)
<1>1. PICK len \in Nat : len = Len(text)
  OBVIOUS
<1> DEFINE K(n) == FirstOf(places, n)
           P(n) == Spliced(text, R, T, K(n))
           was(n) == [i \in 1..n |-> Text(text, R[places[i]])]
           now(n) == [i \in 1..n |-> T[places[i]]]
           Q == {n \in 0..N : Counted(text, R, T, places, n, x)}
<1>2. 0 \in Q
  <2>1. \A i \in 1..len : \A k \in K(0) : ~Within(i, R[k])
    BY DEF FirstOf
  <2>2. SpansApart(R, K(0), len + 1)
    BY DEF SpansApart, FirstOf
  <2>3. Glue(P(0), 1, len + 1) = Text(text, <<1, len + 1>>)
    <3> HIDE DEF K
    <3>1. PICK a, b \in Nat \ {0} : a = 1 /\ b = len + 1
      <4>1. 1 \in Nat \ {0} /\ len + 1 \in Nat \ {0}
        BY <1>1
      <4> QED BY <4>1
    <3>2. a <= b /\ b <= Len(text) + 1
      BY <1>1, <3>1
    <3>3. NoneWithin(R, K(0), a, b)
      BY <2>1, <3>1 DEF NoneWithin
    <3>4. SpansApart(R, K(0), Len(text) + 1)
      BY <1>1, <2>2
    <3>5. Glue(Spliced(text, R, T, K(0)), a, b) = Text(text, <<a, b>>)
      BY <3>2, <3>3, <3>4, SplicedOff
    <3> QED BY <3>1, <3>5
  <2>4. Text(text, <<1, len + 1>>) = text
    BY <1>1 DEF Text
  <2>5. Glue(was(0), 1, 0 + 1) = <<>> /\ Glue(now(0), 1, 0 + 1) = <<>>
    BY GlueNone
  <2>6. Counted(text, R, T, places, 0, x)
    BY <1>1, <2>3, <2>4, <2>5 DEF Counted
  <2> QED BY <2>6
<1>3. ASSUME NEW n \in 0..(N - 1), n \in Q PROVE n + 1 \in Q
  <2>1. n \in Nat /\ n + 1 \in 1..N /\ n <= N /\ n + 1 <= N
    OBVIOUS
  <2>2. PICK k : k = places[n + 1]
    OBVIOUS
  <2>3. K(n + 1) = K(n) \cup {k} /\ K(n + 1) \subseteq K(N) /\ K(n) \subseteq K(N) /\ k \in K(n + 1)
          /\ k \in K(N)
    BY <2>1, <2>2 DEF FirstOf
  <2>4. k \notin K(n)
    BY <2>1, <2>2 DEF FirstOf
  <2>5. SpansApart(R, K(n + 1), len + 1) /\ SpansApart(R, K(n), len + 1)
    <3> HIDE DEF K
    <3> QED BY <1>1, <2>3 DEF SpansApart, K
  <2>6. PICK a \in Nat, b \in Nat : a = R[k][1] /\ b = R[k][2] /\ 1 <= a /\ a < b /\ b <= len + 1
    <3> HIDE DEF K
    <3> QED BY <2>3, <2>5 DEF SpansApart
  <2>7. \A l \in K(n) : /\ R[l][1] \in Nat /\ R[l][2] \in Nat
                        /\ R[l][2] <= a \/ b <= R[l][1]
    <3> HIDE DEF K
    <3> QED BY <2>3, <2>4, <2>5, <2>6 DEF SpansApart
  <2>8. /\ \A i \in 1..len : P(n)[i] \in Seq(S)
        /\ \A i \in 1..len : P(n + 1)[i] \in Seq(S)
    <3>1. (\A l \in K(n) : T[l] \in Seq(S)) /\ (\A l \in K(n + 1) : T[l] \in Seq(S))
      BY <2>3
    <3> HIDE DEF K
    <3> QED BY <1>1, <3>1, SplicedType
  <2>9. \A i \in 1..len : ~Within(i, R[k]) => P(n + 1)[i] = P(n)[i]
    <3> HIDE DEF K
    <3>1. SpansApart(R, K(n) \cup {k}, Len(text) + 1)
      BY <1>1, <2>3, <2>5
    <3> QED BY <1>1, <2>3, <3>1, SplicedOneMore
  <2>10. Glue(P(n), a, b) = Text(text, <<a, b>>)
    <3>1. \A i \in a..(b - 1) : \A l \in K(n) : ~Within(i, R[l])
      <4> TAKE i \in a..(b - 1)
      <4> TAKE l \in K(n)
      <4>1. PICK u \in Nat, v \in Nat : u = R[l][1] /\ v = R[l][2]
        BY <2>7
      <4>2. v <= a \/ b <= u
        BY <2>7, <4>1
      <4>3. PICK j \in Nat : j = i /\ a <= j /\ j < b
        BY <2>6
      <4>4. ~(u <= j /\ j < v)
        BY <4>2, <4>3
      <4> QED BY <4>1, <4>3, <4>4 DEF Within
    <3> HIDE DEF K
    <3>2. a \in Nat \ {0} /\ a <= b /\ b <= Len(text) + 1 /\ SpansApart(R, K(n), Len(text) + 1)
      BY <1>1, <2>5, <2>6
    <3>3. NoneWithin(R, K(n), a, b)
      BY <3>1 DEF NoneWithin
    <3> HIDE DEF P, Q, was, now
    <3>4. Glue(Spliced(text, R, T, K(n)), a, b) = Text(text, <<a, b>>)
      BY <3>2, <3>3, SplicedOff
    <3> QED BY <3>4 DEF P
  <2>11. Glue(P(n + 1), a, b) = T[k]
    <3>1. \A l \in K(n + 1) : T[l] \in Seq(S)
      BY <2>3
    <3> HIDE DEF K
    <3>2. SpansApart(R, K(n + 1), Len(text) + 1) /\ k \in K(n + 1)
      BY <1>1, <2>3, <2>5
    <3> QED BY <2>6, <3>1, <3>2, SplicedAt
  <2> HIDE DEF P, K, was, now
  <2>12. Glue(P(n + 1), 1, a) = Glue(P(n), 1, a) /\ Glue(P(n + 1), b, len + 1) = Glue(P(n), b, len + 1)
    <3>1. len \in Nat /\ a \in Nat /\ b \in Nat /\ 1 <= a /\ a < b /\ b <= len + 1
      BY <1>1, <2>6
    <3>2. PICK c \in Int : c = len + 1
      BY <1>1
    <3>3. ASSUME NEW i \in 1..len, i < a \/ b <= i
          PROVE  P(n + 1)[i] = P(n)[i]
      <4>1. ~(a <= i /\ i < b)
        BY <3>1, <3>3
      <4>2. ~Within(i, R[k])
        BY <2>6, <4>1, Zenon DEF Within
      <4> QED BY <2>9, <4>2, Zenon
    <3>4. /\ 1 \in Int /\ a \in Int /\ b \in Int /\ 1 <= a /\ b <= c
          /\ \A i \in 1..(a - 1) : i \in 1..len /\ i < a
          /\ \A i \in b..(c - 1) : i \in 1..len /\ b <= i
      BY <3>1, <3>2
    <3>5. \A i \in 1..(a - 1) : P(n + 1)[i] = P(n)[i]
      BY <3>3, <3>4, Zenon
    <3>6. \A i \in b..(c - 1) : P(n + 1)[i] = P(n)[i]
      BY <3>3, <3>4, Zenon
    <3>7. Glue(P(n + 1), 1, a) = Glue(P(n), 1, a)
      BY <3>4, <3>5, GlueSame
    <3>8. Glue(P(n + 1), b, c) = Glue(P(n), b, c)
      BY <3>4, <3>6, GlueSame
    <3> QED BY <3>2, <3>7, <3>8
  <2> HIDE DEF Q
  <2>13. ASSUME NEW V, \A i \in 1..len : V[i] \in Seq(S)
         PROVE  /\ Count(Glue(V, 1, len + 1), x)
                     = Count(Glue(V, 1, a), x) + Count(Glue(V, a, b), x) + Count(Glue(V, b, len + 1), x)
                /\ Count(Glue(V, 1, a), x) \in Nat /\ Count(Glue(V, a, b), x) \in Nat
                /\ Count(Glue(V, b, len + 1), x) \in Nat
    <3>1. 1 \in Int /\ a \in Int /\ b \in Int /\ len + 1 \in Int /\ 1 <= a /\ a <= b /\ b <= len + 1 /\ 1 <= b
      BY <2>6
    <3>2. /\ \A i \in 1..(len + 1 - 1) : V[i] \in Seq(S)
          /\ \A i \in 1..(b - 1) : V[i] \in Seq(S)
          /\ \A i \in 1..(a - 1) : V[i] \in Seq(S)
          /\ \A i \in a..(b - 1) : V[i] \in Seq(S)
          /\ \A i \in b..(len + 1 - 1) : V[i] \in Seq(S)
      <4>1. len \in Nat /\ a \in Nat /\ b \in Nat /\ 1 <= a /\ a <= b /\ b <= len + 1
        BY <1>1, <2>6
      <4>2. /\ 1..(len + 1 - 1) \subseteq 1..len /\ 1..(b - 1) \subseteq 1..len
            /\ 1..(a - 1) \subseteq 1..len /\ a..(b - 1) \subseteq 1..len
            /\ b..(len + 1 - 1) \subseteq 1..len
        BY <4>1, PartsOfARange, Zenon
      <4> QED BY <2>13, <4>2, Zenon
    <3>3. Glue(V, 1, len + 1) = Glue(V, 1, b) \o Glue(V, b, len + 1)
      BY <3>1, <3>2, GlueJoin
    <3>4. Glue(V, 1, b) = Glue(V, 1, a) \o Glue(V, a, b)
      BY <3>1, <3>2, GlueJoin
    <3>5. /\ Glue(V, 1, a) \in Seq(S) /\ Glue(V, a, b) \in Seq(S) /\ Glue(V, b, len + 1) \in Seq(S)
          /\ Glue(V, 1, b) \in Seq(S)
      BY <3>1, <3>2, GlueType
    <3>6. \A s, t \in Seq(S) : /\ Count(s \o t, x) = Count(s, x) + Count(t, x)
                               /\ Count(s, x) \in Nat
      BY CountJoined
    <3>7. /\ Count(Glue(V, 1, b) \o Glue(V, b, len + 1), x)
                = Count(Glue(V, 1, b), x) + Count(Glue(V, b, len + 1), x)
          /\ Count(Glue(V, 1, a) \o Glue(V, a, b), x) = Count(Glue(V, 1, a), x) + Count(Glue(V, a, b), x)
      BY <3>5, <3>6, Zenon
    <3>8. /\ Count(Glue(V, 1, a), x) \in Nat /\ Count(Glue(V, a, b), x) \in Nat
          /\ Count(Glue(V, b, len + 1), x) \in Nat
      BY <3>5, <3>6, Zenon
    <3> QED BY <3>3, <3>4, <3>7, <3>8
  <2>14. PICK c, d, e, g \in Nat : /\ c = Count(Glue(P(n), 1, a), x) /\ d = Count(Text(text, <<a, b>>), x)
                                   /\ e = Count(Glue(P(n), b, len + 1), x) /\ g = Count(T[k], x)
    BY <2>8, <2>10, <2>11, <2>13
  <2>15. Count(Glue(P(n), 1, len + 1), x) = c + d + e
    BY <2>8, <2>10, <2>13, <2>14
  <2>16. Count(Glue(P(n + 1), 1, len + 1), x) = c + g + e
    BY <2>8, <2>11, <2>12, <2>13, <2>14
  <2>17. \A m \in 1..N : places[m] \in K(N)
    BY DEF K, FirstOf
  <2>18. \A m \in 1..N : Text(text, R[places[m]]) \in Seq(S) /\ T[places[m]] \in Seq(S)
    <3> TAKE m \in 1..N
    <3>1. PICK u \in Nat \ {0}, v \in Nat : u = R[places[m]][1] /\ v = R[places[m]][2] /\ v <= Len(text) + 1
      BY <2>17 DEF SpansApart, K
    <3>2. Text(text, <<u, v>>) \in Seq(S)
      BY <3>1, TextType
    <3>3. Text(text, R[places[m]]) = Text(text, <<u, v>>)
      BY <3>1 DEF Text
    <3> QED BY <2>17, <3>2, <3>3 DEF K
  <2>19. ASSUME NEW V, NEW W, \A i \in 1..n : V[i] = W[i], \A i \in 1..(n + 1) : V[i] \in Seq(S)
         PROVE  /\ Count(Glue(V, 1, n + 1 + 1), x) = Count(Glue(W, 1, n + 1), x) + Count(V[n + 1], x)
                /\ Count(Glue(W, 1, n + 1), x) \in Nat
    <3>1. Glue(V, 1, n + 1 + 1) = Glue(V, 1, n + 1) \o V[n + 1]
      <4>1. 1 \in Int /\ n + 1 \in Int /\ 1 <= n + 1
        BY <2>1
      <4> QED BY <4>1, GlueStep
    <3>2. Glue(V, 1, n + 1) = Glue(W, 1, n + 1)
      <4>1. 1 \in Int /\ n + 1 \in Int /\ 1 <= n + 1 /\ \A i \in 1..(n + 1 - 1) : V[i] = W[i]
        BY <2>1, <2>19
      <4> QED BY <4>1, GlueSame
    <3>3. Glue(V, 1, n + 1) \in Seq(S)
      <4>1. 1 \in Int /\ n + 1 \in Int /\ 1 <= n + 1 /\ \A i \in 1..(n + 1 - 1) : V[i] \in Seq(S)
        BY <2>1, <2>19
      <4> QED BY <4>1, GlueType
    <3>4. V[n + 1] \in Seq(S)
      BY <2>1, <2>19
    <3>5. /\ Count(Glue(V, 1, n + 1) \o V[n + 1], x) = Count(Glue(V, 1, n + 1), x) + Count(V[n + 1], x)
          /\ Count(Glue(V, 1, n + 1), x) \in Nat
      BY <3>3, <3>4, CountJoined
    <3> QED BY <3>1, <3>2, <3>5
  <2>20. /\ Count(Glue(was(n + 1), 1, n + 1 + 1), x) = Count(Glue(was(n), 1, n + 1), x) + d
         /\ Count(Glue(was(n), 1, n + 1), x) \in Nat
    <3>1. \A i \in 1..n : was(n + 1)[i] = was(n)[i]
      BY <2>1 DEF was
    <3>2. \A i \in 1..(n + 1) : was(n + 1)[i] \in Seq(S)
      BY <2>1, <2>18 DEF was
    <3>3. was(n + 1)[n + 1] = Text(text, R[k])
      BY <2>1, <2>2 DEF was
    <3>4. Text(text, R[k]) = Text(text, <<a, b>>)
      BY <2>6 DEF Text
    <3> QED BY <2>14, <2>19, <3>1, <3>2, <3>3, <3>4
  <2>21. /\ Count(Glue(now(n + 1), 1, n + 1 + 1), x) = Count(Glue(now(n), 1, n + 1), x) + g
         /\ Count(Glue(now(n), 1, n + 1), x) \in Nat
    <3>1. \A i \in 1..n : now(n + 1)[i] = now(n)[i]
      BY <2>1 DEF now
    <3>2. \A i \in 1..(n + 1) : now(n + 1)[i] \in Seq(S)
      BY <2>1, <2>18 DEF now
    <3>3. now(n + 1)[n + 1] = T[k]
      BY <2>1, <2>2 DEF now
    <3> QED BY <2>14, <2>19, <3>1, <3>2, <3>3
  <2>22. PICK u \in Nat, v \in Nat, w \in Nat : /\ u = Count(Glue(was(n), 1, n + 1), x)
                                                /\ v = Count(Glue(now(n), 1, n + 1), x) /\ w = Count(text, x)
    <3>1. Count(text, x) \in Nat
      BY CountJoined
    <3> QED BY <2>20, <2>21, <3>1
  <2>23. c + d + e + u = w + v
    <3>1. Count(Glue(P(n), 1, len + 1), x) + Count(Glue(was(n), 1, n + 1), x)
            = Count(text, x) + Count(Glue(now(n), 1, n + 1), x)
      BY <1>1, <1>3 DEF Counted, P, K, was, now, Q
    <3> QED BY <2>15, <2>22, <3>1
  <2>24. (c + g + e) + (u + d) = w + (v + g)
    BY <2>23
  <2>25. Count(Glue(P(n + 1), 1, len + 1), x) + Count(Glue(was(n + 1), 1, n + 1 + 1), x)
           = Count(text, x) + Count(Glue(now(n + 1), 1, n + 1 + 1), x)
    BY <2>16, <2>20, <2>21, <2>22, <2>24
  <2>26. Counted(text, R, T, places, n + 1, x)
    BY <1>1, <2>25 DEF Counted, P, K, was, now
  <2> QED BY <2>1, <2>26 DEF Q
<1> HIDE DEF Q
<1>4. N \in Q
  <2>1. 0 \in Int /\ N \in Int /\ 0 <= N
    OBVIOUS
  <2>2. \A n \in 0..(N - 1) : n \in Q => n + 1 \in Q
    BY <1>3
  <2> QED BY <1>2, <2>1, <2>2, Upward
<1> QED BY <1>4 DEF Q

\* The groups, listed in whatever order, each once.
LEMMA GroupsListed ==
  ASSUME Settled
  PROVE  \E N \in Nat : LET places == SetToSeq(DOMAIN group) IN
           /\ places \in [1..N -> DOMAIN group]
           /\ \A i, j \in 1..N : places[i] = places[j] => i = j
           /\ FirstOf(places, N) = DOMAIN group
<1>1. PICK N \in Nat : N = Cardinality(DOMAIN group)
  BY GroupsAreFinite, FS_CardinalityType
<1>2. \E f \in [1..N -> DOMAIN group] : IsInjective(f)
  <2>1. ExistsBijection(1..N, DOMAIN group)
    BY <1>1, GroupsAreFinite, FS_CardinalityType
  <2>2. PICK f : f \in Bijection(1..N, DOMAIN group)
    BY <2>1 DEF ExistsBijection
  <2> QED BY <2>2 DEF Bijection, Injection, IsInjective
<1>3. PICK places : places = SetToSeq(DOMAIN group)
  OBVIOUS
<1>4. places \in [1..N -> DOMAIN group] /\ IsInjective(places)
  BY <1>1, <1>2, <1>3 DEF SetToSeq
<1>5. \A i, j \in 1..N : places[i] = places[j] => i = j
  BY <1>4 DEF IsInjective
<1>6. places \in Surjection(1..N, DOMAIN group)
  <2>1. places \in Injection(1..N, DOMAIN group)
    BY <1>4, <1>5 DEF Injection, IsInjective
  <2>2. IsFiniteSet(1..N) /\ Cardinality(1..N) = N
    <3>1. 1 \in Int /\ N \in Int
      OBVIOUS
    <3>2. IsFiniteSet(1..N) /\ Cardinality(1..N) = IF 1 > N THEN 0 ELSE N - 1 + 1
      BY <3>1, FS_Interval
    <3> QED BY <3>2
  <2>3. IsFiniteSet(DOMAIN group)
    BY GroupsAreFinite
  <2> QED BY <1>1, <2>1, <2>2, <2>3, FS_Injection
<1>7. FirstOf(places, N) = DOMAIN group
  BY <1>4, <1>6 DEF FirstOf, Surjection
<1> QED BY <1>3, <1>4, <1>5, <1>7

\* The source with all groups rendered into it, the unchanged ones included.
LEMMA PatchedEverywhere ==
  ASSUME Settled
  PROVE  Glue(Spliced(src, Regions, GroupTexts, DOMAIN group), 1, Len(src) + 1) = Glue(Patched, 1, Len(src) + 1)
<1>1. PICK n \in Nat \ {0} : n = Len(src) + 1
  BY SourceIsText DEF Settled, Ready
<1>2. src \in Seq(Lexeme)
  BY SourceIsText DEF Settled, Ready
<1>3. PICK K : K = DOMAIN group
  OBVIOUS
<1>4. PICK W : W = Spliced(src, Regions, GroupTexts, K)
  OBVIOUS
<1>5. \A k \in K : GroupTexts[k] = GroupText(k) /\ GroupTexts[k] \in Seq(Lexeme) /\ Regions[k] = Region(k)
  BY <1>3, GroupIsText DEF GroupTexts, Regions
<1>6. \A i \in 1..(n - 1) : W[i] \in Seq(Lexeme) /\ Patched[i] \in Seq(Lexeme)
  <2>1. \A i \in 1..Len(src) : W[i] \in Seq(Lexeme)
    BY <1>2, <1>4, <1>5, SplicedType
  <2> QED BY <1>1, <2>1, PatchedType
<1>7. SpansApart(Regions, K, Len(src) + 1) /\ SpansApart(Regions, K, n)
  BY <1>1, <1>3, RegionsApart
<1>8. ASSUME NEW k \in K
      PROVE  Same(TRUE, Glue(W, Regions[k][1], Regions[k][2]), Glue(Patched, Regions[k][1], Regions[k][2]))
  <2>1. \A l \in K : GroupTexts[l] \in Seq(Lexeme)
    BY <1>5
  <2>2. Glue(W, Regions[k][1], Regions[k][2]) = GroupTexts[k]
    BY <1>2, <1>4, <1>7, <2>1, SplicedAt
  <2>3. CASE k \in Changed
    <3>1. Glue(Patched, Region(k)[1], Region(k)[2]) = GroupText(k)
      BY <2>3, PatchedAt
    <3> QED BY <1>5, <2>2, <3>1 DEF Same
  <2>4. CASE k \notin Changed
    <3>1. GroupText(k) = Text(src, Region(k))
      BY <1>3, <2>4, UntouchedGroup DEF Changed
    <3>2. PICK a, b \in Nat : Region(k) = <<a, b>> /\ 1 <= a /\ a < b /\ b <= Len(src) + 1
      BY <1>3, RegionIn
    <3>3. Clear(a, b)
      <4>1. ASSUME NEW l \in Changed PROVE Region(l)[2] <= a \/ b <= Region(l)[1]
        <5>1. l # k /\ l \in K
          BY <1>3, <2>4 DEF Changed
        <5>2. Regions[l][2] <= Regions[k][1] \/ Regions[k][2] <= Regions[l][1]
          BY <1>7, <5>1 DEF SpansApart
        <5> QED BY <1>5, <3>2, <5>1, <5>2
      <4> QED BY <4>1 DEF Clear
    <3>4. a \in Nat \ {0} /\ a <= b
      BY <3>2
    <3>5. Glue(Patched, a, b) = Text(src, <<a, b>>)
      BY <3>2, <3>3, <3>4, PatchedOff
    <3> QED BY <1>5, <2>2, <3>1, <3>2, <3>5 DEF Same
  <2> QED BY <2>3, <2>4
<1>9. ASSUME NEW i \in 1..(n - 1), \A k \in K : ~Within(i, Regions[k]) PROVE W[i] = Patched[i]
  <2>1. i \in 1..Len(src)
    BY <1>1
  <2>2. \A k \in K : Regions[k][1] # i
    <3> TAKE k \in K
    <3>1. PICK a \in Nat, b \in Nat : a = Regions[k][1] /\ b = Regions[k][2] /\ a < b
      BY <1>7 DEF SpansApart
    <3> QED BY <1>9, <3>1 DEF Within
  <2>3. W[i] = <<src[i]>>
    BY <1>4, <1>9, <2>1, <2>2 DEF Spliced
  <2>4. \A k \in Changed : ~Within(i, Region(k))
    BY <1>3, <1>5, <1>9 DEF Changed
  <2> QED BY <2>1, <2>3, <2>4, PatchedOutside
<1>10. TRUE \in BOOLEAN
  OBVIOUS
<1>11. Same(TRUE, Glue(W, 1, n), Glue(Patched, 1, n))
  BY <1>6, <1>7, <1>8, <1>9, <1>10, AlikeOutside
<1> QED BY <1>1, <1>3, <1>4, <1>11 DEF Same

\* Whatever is reordered: what is rendered holds what the source held, but for the groups.
LEMMA RenderedIsAccounted ==
  ASSUME Settled, SectionsToOrder, RenderingSucceeds
  PROVE  EveryLexemeAccounted
<1> DEFINE listed == SetToSeq(DOMAIN group)
           before == FlattenSeq([n \in DOMAIN listed |-> Text(src, Region(listed[n]))])
           after  == FlattenSeq([n \in DOMAIN listed |-> GroupText(listed[n])])
<1> SUFFICES ASSUME out # <<>>, NEW x
             PROVE  Count(out[1], x) + Count(before, x) = Count(src, x) + Count(after, x)
  BY DEF EveryLexemeAccounted
<1>1. PICK N \in Nat : /\ listed \in [1..N -> DOMAIN group]
                       /\ \A i, j \in 1..N : listed[i] = listed[j] => i = j
                       /\ FirstOf(listed, N) = DOMAIN group
  BY GroupsListed
<1>2. PICK places : places = listed
  OBVIOUS
<1>3. /\ DOMAIN places = 1..N /\ \A i \in 1..N : places[i] \in DOMAIN group
      /\ \A i, j \in 1..N : places[i] = places[j] => i = j
      /\ FirstOf(places, N) = DOMAIN group
  BY <1>1, <1>2
<1>4. src \in Seq(Lexeme)
  BY SourceIsText DEF Settled, Ready
<1>5. \A k \in DOMAIN group : /\ GroupTexts[k] = GroupText(k) /\ GroupTexts[k] \in Seq(Lexeme)
                              /\ Regions[k] = Region(k)
  BY GroupIsText DEF GroupTexts, Regions
<1>6. \A k \in DOMAIN group : Text(src, Region(k)) \in Seq(Lexeme)
  <2> TAKE k \in DOMAIN group
  <2>1. PICK a, b \in Nat : Region(k) = <<a, b>> /\ 1 <= a /\ a < b /\ b <= Len(src) + 1
    BY RegionIn
  <2>2. a \in Nat \ {0}
    BY <2>1
  <2>3. Text(src, <<a, b>>) \in Seq(Lexeme)
    BY <1>4, <2>1, <2>2, TextType
  <2> QED BY <2>1, <2>3
<1>7. before = Glue([i \in 1..N |-> Text(src, Regions[places[i]])], 1, N + 1)
  <2>1. PICK s : s = [i \in 1..N |-> Text(src, Regions[places[i]])]
    OBVIOUS
  <2>2. s \in [1..N -> Seq(Lexeme)]
    BY <1>3, <1>5, <1>6, <2>1
  <2>3. s = [n \in DOMAIN places |-> Text(src, Region(places[n]))]
    BY <1>3, <1>5, <2>1
  <2>4. FlattenSeq(s) = Glue(s, 1, N + 1)
    BY <2>2, FlattenIsGlue
  <2> QED BY <1>2, <2>1, <2>3, <2>4
<1>8. after = Glue([i \in 1..N |-> GroupTexts[places[i]]], 1, N + 1)
  <2>1. PICK s : s = [i \in 1..N |-> GroupTexts[places[i]]]
    OBVIOUS
  <2>2. s \in [1..N -> Seq(Lexeme)]
    BY <1>3, <1>5, <2>1
  <2>3. s = [n \in DOMAIN places |-> GroupText(places[n])]
    BY <1>3, <1>5, <2>1
  <2>4. FlattenSeq(s) = Glue(s, 1, N + 1)
    BY <2>2, FlattenIsGlue
  <2> QED BY <1>2, <2>1, <2>3, <2>4
<1> HIDE DEF listed, before, after
<1>9. Counted(src, Regions, GroupTexts, places, N, x)
  <2>1. SpansApart(Regions, FirstOf(places, N), Len(src) + 1)
    BY <1>3, RegionsApart
  <2>2. \A k \in FirstOf(places, N) : GroupTexts[k] \in Seq(Lexeme)
    BY <1>3, <1>5
  <2>3. \A i, j \in 1..N : places[i] = places[j] => i = j
    BY <1>3
  <2> QED BY <1>4, <2>1, <2>2, <2>3, CountSpliced
<1>10. Count(Glue(Patched, 1, Len(src) + 1), x) + Count(before, x) = Count(src, x) + Count(after, x)
  BY <1>3, <1>7, <1>8, <1>9, PatchedEverywhere DEF Counted
<1>11. out[1] = Render(Queued(Replacements))
  BY DEF RenderingSucceeds
<1>12. Same(FALSE, Render(Queued(Replacements)), Glue(Patched, 1, Len(src) + 1))
  <2>1. /\ FALSE \in BOOLEAN
        /\ FALSE => sectionOrder = <<>> /\ \A s \in DOMAIN tree : entryOrder[s] = <<>>
    OBVIOUS
  <2> QED BY <2>1, PlanRendered
<1>13. Count(Render(Queued(Replacements)), x) = Count(Glue(Patched, 1, Len(src) + 1), x)
  BY <1>12 DEF Same
<1> QED BY <1>10, <1>11, <1>13

\* A tidy document keeps every lexeme of it, as often as it had it, but for what stood in its
\* groups of bullets and what stands there now, whatever a plan reorders (apply.py, _emit).
THEOREM EveryLexemeIsKept ==
  ASSUME \A d \in Documents : Tidy(d.source, BuildMask(d.source), d.profile)
  PROVE  Spec => []EveryLexemeAccounted
<1>1. Settled /\ SectionsToOrder /\ RenderingSucceeds => EveryLexemeAccounted
  BY RenderedIsAccounted
<1> QED BY <1>1, AlwaysSettled, PTL
=============================================================================
