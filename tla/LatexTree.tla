------------------------------ MODULE LatexTree ------------------------------
(***************************************************************************)
(* Reading a resume (app/latex/scanner.py, parser.py, tree.py): from a     *)
(* LaTeX source to sections, entries and bullets, each a span of the       *)
(* source.                                                                 *)
(*                                                                         *)
(* A source is a sequence of lexemes: a control word, a brace, a percent   *)
(* sign, a newline, a word, or "esc", an escaped literal such as \{ or \%. *)
(* A blank is a lexeme, "sp", only behind \item: without it the text of    *)
(* the item runs on from the command.                                      *)
(* A span <<a, b>> stands for the lexemes a .. b-1, half open as in the    *)
(* code.  Brackets of optional arguments and starred commands are left     *)
(* out; a template profile is a record of the names it recognises.         *)
(***************************************************************************)
EXTENDS Naturals, Sequences, FiniteSets, FiniteSetsExt, SequencesExt

Text(src, span) == SubSeq(src, span[1], span[2] - 1)
Contains2(outer, inner) == outer[1] <= inner[1] /\ inner[2] <= outer[2]
Overlaps(a, b) == a[1] < b[2] /\ b[1] < a[2]
Whole(src) == <<1, Len(src) + 1>>
Within(i, span) == span[1] <= i /\ i < span[2]
Space == {"nl", "sp"}
Commands == {"\\section", "\\entry", "\\bullet", "\\start", "\\stop", "\\begin", "\\end",
             "\\item", "\\emph", "\\textbackslash", "\\itemword"}

Each(Op(_), s) == [n \in DOMAIN s |-> Op(s[n])]

\* The members of a set as a sequence, in the order of the relation R.
InOrder(S, R) ==
  [n \in 1..Cardinality(S) |->
     CHOOSE x \in S : Cardinality({y \in S : <<y, x>> \in R}) = n - 1]
Ascending(S) == InOrder(S, {p \in S \X S : p[1] < p[2]})
\* The members of a sequence at some of its places, in their order.
Only(s, places) == Each(LAMBDA n : s[n], Ascending(places))

(* -------------------------------- Scanner -------------------------------- *)

\* Position i is that of a comment sign, or behind one on its line.
InComment(src, i) == \E j \in 1..i : src[j] = "%" /\ \A k \in j..i : src[k] # "nl"
Commented(src) == {i \in DOMAIN src : InComment(src, i)}

\* The positions that may be read as LaTeX: neither in a comment nor an escaped literal.
BuildMask(src) == {i \in DOMAIN src : src[i] # "esc"} \ Commented(src)

\* The first of `closing` by which everything of `opening` from i on is closed, 0 if none is.
Closing(opening, closing, i) ==
  LET balanced == {j \in closing : /\ j > i
                                   /\ Cardinality({k \in opening : i <= k /\ k < j})
                                        = Cardinality({k \in closing : i <= k /\ k <= j})}
  IN  IF balanced = {} THEN 0 ELSE Min(balanced)

\* The brace that closes the group opened at `open`.
MatchGroup(src, mask, open) ==
  Closing({i \in mask : src[i] = "{"}, {i \in mask : src[i] = "}"}, open)

\* Every group is closed: at one that is not, reading an argument raises an error.
Closed(src, mask) == \A i \in mask : src[i] = "{" => MatchGroup(src, mask, i) # 0

\* Past whitespace and comments, which may separate arguments: to what is active, or is an
\* escaped literal outside a comment.
SkipWs(src, mask, i) ==
  LET Stops(j) == j \in mask \/ (src[j] = "esc" /\ ~InComment(src, j))
      stops == {j \in i..Len(src) : src[j] \notin Space /\ Stops(j)}
  IN  IF stops = {} THEN Len(src) + 1 ELSE Min(stops)

\* The group behind `after`, if there is one: the span inside its braces, and where it ends.
ReadArgument(src, mask, after) ==
  LET Group(open, close) == [args |-> << <<open + 1, close>> >>, next |-> close + 1]
      At(j) == IF j \in mask /\ src[j] = "{" THEN Group(j, MatchGroup(src, mask, j))
               ELSE [args |-> <<>>, next |-> after]
  IN  At(SkipWs(src, mask, after))

\* Behind up to `count` groups.
AfterArguments(src, mask, after, count) ==
  LET next[k \in 0..count] == IF k = 0 THEN after ELSE ReadArgument(src, mask, next[k - 1]).next
  IN  next[count]

\* The positions in `region` at which one of the control words `names` is active.
FindAll(src, mask, names, region) == {i \in mask : Within(i, region) /\ src[i] \in names}

\* The next of `hits` behind i, or `end`.
NextHit(hits, i, end) == Min({j \in hits : j > i} \cup {end})

\* The positions of a command whose argument is `name`.
Named(src, mask, command, name, region) ==
  LET Names(args) == args # <<>> /\ Text(src, args[1]) = <<name>>
  IN  {i \in FindAll(src, mask, {command}, region) : Names(ReadArgument(src, mask, i + 1).args)}

\* The environments that begin at `begins` and have an end: an environment that is never
\* closed still nests the ones behind it.
Matched(src, mask, begins, ends) ==
  LET End(i)    == Closing(begins, ends, i)
      Behind(i) == ReadArgument(src, mask, i + 1).next
      Environment(i, end) ==
        [span  |-> <<i, Behind(end)>>,
         body  |-> <<Behind(i), end>>,
         depth |-> Cardinality({b \in begins : b < i /\ End(b) \notin 1..i})]
  IN  {Environment(i, End(i)) : i \in {b \in begins : End(b) # 0}}

\* The `name` environments of a region, with their nesting depth.
FindEnvironments(src, mask, name, region) ==
  Matched(src, mask, Named(src, mask, "\\begin", name, region), Named(src, mask, "\\end", name, region))

(* --------------------------------- Parser -------------------------------- *)

\* A span without the whitespace at its ends.
TrimSpan(src, span) ==
  LET solid == {i \in span[1]..(span[2] - 1) : src[i] \notin Space}
  IN  IF solid = {} THEN <<span[2], span[2]>> ELSE <<Min(solid), Max(solid) + 1>>

\* strip_tex: a text without its commands, braces and layout.
Plain(text) == SelectSeq(text, LAMBDA x : x \notin Space \cup {"{", "}"} \cup Commands)
ContentId(prefix, scope, text) == <<prefix, scope, Plain(text)>>
Ids(nodes) == Each(LAMBDA node : node.id, nodes)

\* An id is a content id and how often it was there before: the number that the n-th
\* repetition of a content id gets appended, 0 when none is.
Disambiguate(nodes) ==
  [i \in DOMAIN nodes |->
     [nodes[i] EXCEPT !.id = <<@, Cardinality({j \in 1..(i - 1) : nodes[j].id = @})>>]]

Bullet(src, scope, inner, outer) ==
  [id |-> ContentId("b", scope, Text(src, inner)), inner |-> inner, outer |-> outer]

\* Bullets written as a macro with one argument; what is found is numbered by the form of
\* bullet it was found as.
MacroBullets(src, mask, profile, region, scope) ==
  LET Arg(i) == ReadArgument(src, mask, i + 1)
      Found(i, r) == <<1, Bullet(src, scope, r.args[1], <<i, r.next>>)>>
  IN  {Found(i, Arg(i)) : i \in {h \in FindAll(src, mask, profile.bullets, region) : Arg(h).args # <<>>}}

\* Mutant of Inside: every item of a list is a bullet, those of nested lists too.
NowhereInside(i, envs) == FALSE

\* Position i is inside one of the environments.
Inside(i, envs) == \E e \in envs : Within(i, e.body)

\* The items of the outermost lists; those of the lists nested in them are part of them.
ItemsOf(src, mask, n, envs, scope) ==
  LET nested == {e \in envs : e.depth > 0}
      Item(span) == <<n, Bullet(src, scope, TrimSpan(src, <<span[1] + 1, span[2]>>), TrimSpan(src, span))>>
      Items(offsets, end) == {Item(<<i, NextHit(offsets, i, end)>>) : i \in offsets}
      found == UNION {Items({i \in FindAll(src, mask, {"\\item"}, e.body) : ~Inside(i, nested)}, e.body[2]) :
                        e \in {o \in envs : o.depth = 0}}
  IN  {f \in found : f[2].inner[1] < f[2].inner[2]}

\* Bullets written as items of a list environment of the profile.
ListBullets(src, mask, profile, region, scope) ==
  UNION {ItemsOf(src, mask, n, FindEnvironments(src, mask, profile.lists[n], region), scope) :
           n \in DOMAIN profile.lists}

Earlier(f, g) == \/ f[2].outer[1] < g[2].outer[1]
                 \/ f[2].outer[1] = g[2].outer[1] /\ f[1] < g[1]
InSourceOrder(found) ==
  Each(LAMBDA f : f[2], InOrder(found, {p \in found \X found : Earlier(p[1], p[2])}))

ParseBullets(src, mask, profile, region, scope) ==
  LET Preferred(macros) == IF macros # {} THEN macros
                           ELSE ListBullets(src, mask, profile, region, scope)
  IN  Disambiguate(InSourceOrder(Preferred(MacroBullets(src, mask, profile, region, scope))))

\* A title of an entry, or its number if it has none.
Label(src, args, k) ==
  IF args = <<>> \/ Plain(Text(src, args[1])) = <<>> THEN <<"entry", k>> ELSE Text(src, args[1])

\* Entry headers, each with what follows it up to the next header or the section's end.
\* The bullets' ids are scoped by the entry's id as it is before it is made unique.
ParseEntries(src, mask, profile, sectionId, body) ==
  LET Entry(id, span) ==
        [id |-> id, span |-> span,
         bullets |-> ParseBullets(src, mask, profile,
                       <<AfterArguments(src, mask, span[1] + 1, profile.entryArgs), span[2]>>, id)]
      At(k, i, end) ==
        Entry(ContentId("e", sectionId, Label(src, ReadArgument(src, mask, i + 1).args, k)), <<i, end>>)
      Entries(hits, order) == [k \in DOMAIN order |-> At(k, order[k], NextHit(hits, order[k], body[2]))]
      EntriesAt(hits) == Entries(hits, Ascending(hits))
  IN  Disambiguate(EntriesAt(FindAll(src, mask, profile.entries, body)))

\* The sections of a text.  A section command without a title makes no section, and still
\* ends the one before it.
Sections(src, mask, profile, body) ==
  LET Arg(i) == ReadArgument(src, mask, i + 1)
      Section(i, r, end) == [id |-> ContentId("s", "", Text(src, r.args[1])),
                             span |-> <<i, end>>, body |-> <<r.next, end>>]
      At(hits) == Each(LAMBDA i : Section(i, Arg(i), NextHit(hits, i, body[2])),
                       Ascending({h \in hits : Arg(h).args # <<>>}))
  IN  Disambiguate(At(FindAll(src, mask, profile.sections, body)))

\* Mutant of WithEntries: the search for loose bullets does not stop at the first entry.
WithEntriesAndAll(src, mask, profile, s, entries) ==
  [id |-> s.id, span |-> s.span, body |-> s.body, entries |-> entries,
   loose |-> ParseBullets(src, mask, profile, s.body, s.id)]

\* A section with its entries, and the bullets before the first of them.
WithEntries(src, mask, profile, s, entries) ==
  [id |-> s.id, span |-> s.span, body |-> s.body, entries |-> entries,
   loose |-> ParseBullets(src, mask, profile,
               <<s.body[1], IF entries = <<>> THEN s.body[2] ELSE entries[1].span[1]>>, s.id)]

\* What is between \begin{document} and its end; a source without them is all body.
DocumentBody(src, docs) ==
  IF docs = {} THEN Whole(src)
  ELSE (CHOOSE d \in docs : \A e \in docs : d.span[1] <= e.span[1]).body

ParseBody(src, mask, profile, body) ==
  Each(LAMBDA s : WithEntries(src, mask, profile, s, ParseEntries(src, mask, profile, s.id, s.body)),
       Sections(src, mask, profile, body))
ParseMasked(src, mask, profile) ==
  ParseBody(src, mask, profile,
            DocumentBody(src, FindEnvironments(src, mask, "document", Whole(src))))
ParseResume(src, profile) == ParseMasked(src, BuildMask(src), profile)

\* No span is inverted: the title of a section and the arguments of an entry end before the
\* next one begins.  Where they do not, the parser raises an error.
Upright(src, mask, profile) ==
  LET tree == ParseMasked(src, mask, profile)
      Body(span) == <<AfterArguments(src, mask, span[1] + 1, profile.entryArgs), span[2]>>
      Ordered(span) == span[1] <= span[2]
  IN  \A s \in DOMAIN tree : /\ Ordered(tree[s].body)
                            /\ \A e \in DOMAIN tree[s].entries : Ordered(Body(tree[s].entries[e].span))

(* ----------------------------- What has been read ------------------------- *)

Spans(nodes) == [i \in DOMAIN nodes |-> nodes[i].span]
Outers(bullets) == [i \in DOMAIN bullets |-> bullets[i].outer]

\* Spans that follow each other within one.
Chain(spans, within) ==
  /\ \A i \in DOMAIN spans : spans[i][1] < spans[i][2] /\ Contains2(within, spans[i])
  /\ \A i, j \in DOMAIN spans : i < j => spans[i][2] <= spans[j][1]

\* The spans are nested as the tree is, and loose bullets come before the first entry.
Nested(tree, src) ==
  /\ Chain(Spans(tree), Whole(src))
  /\ \A s \in DOMAIN tree :
        /\ Chain(Spans(tree[s].entries), tree[s].body)
        /\ Chain(Outers(tree[s].loose) \o Spans(tree[s].entries), tree[s].body)
        /\ \A e \in DOMAIN tree[s].entries :
              Chain(Outers(tree[s].entries[e].bullets), tree[s].entries[e].span)

\* Where the text of a section or an entry ends, if not at the end of the source.
Stops(src, mask, profile) ==
  {i \in mask : src[i] \in profile.sections \cup profile.entries}
    \cup Named(src, mask, "\\end", "document", Whole(src))

\* What the parser counts on without looking: the argument of a bullet ends before the next
\* bullet, entry or section, and lists of different names do not contain each other.
BulletsEnd(src, mask, profile) ==
  LET bullets == {i \in mask : src[i] \in profile.bullets}
  IN  \A i \in bullets, j \in bullets \cup Stops(src, mask, profile) :
         i < j => ReadArgument(src, mask, i + 1).next <= j
ListsApart(src, mask, profile) ==
  LET Lists(n) == FindEnvironments(src, mask, profile.lists[n], Whole(src))
  IN  \A n, m \in DOMAIN profile.lists : \A e \in Lists(n), f \in Lists(m) :
         n # m => ~Overlaps(e.body, f.body)
Tidy(src, mask, profile) == BulletsEnd(src, mask, profile) /\ ListsApart(src, mask, profile)
=============================================================================
