----------------------------- MODULE MCApplyPlan -----------------------------
(* Documents for checking ApplyPlan: one construct per line, in the two styles  *)
(* of template the parser knows (lists with items, macros with one argument).   *)
EXTENDS ApplyPlan

Line(command, name)  == <<command, "{", name, "}", "nl">>
Item(text)           == <<"\\item", "sp">> \o text \o <<"nl">>
ListOf(name, bullets) == Line("\\begin", name) \o FlattenSeq(bullets) \o Line("\\end", name)
List(bullets)        == ListOf("itemize", bullets)
Macros(bullets)      == <<"\\start", "nl">> \o FlattenSeq(bullets) \o <<"\\stop", "nl">>
Macro(text)          == <<"\\bullet", "{">> \o text \o <<"}", "nl">>

ListStyle  == [sections |-> {"\\section"}, entries |-> {"\\entry"}, entryArgs |-> 1,
               bullets |-> {}, lists |-> <<"itemize">>, entryIsItem |-> FALSE]
TwoListStyle == [ListStyle EXCEPT !.lists = <<"itemize", "enumerate">>]
MacroStyle == [ListStyle EXCEPT !.bullets = {"\\bullet"}, !.entryIsItem = TRUE]

\* What the body of a section is put together from.
Blocks ==
  { <<"word", "nl">>,
    <<"%", "\\item", "}", "nl">>,
    Line("\\entry", "a"),
    List(<<Item(<<"x">>)>>),
    List(<<Item(<<"x", "tech">>), Item(<<"y", "%", "note">>)>>),
    List(<<Item(<<"\\emph", "{", "x", "}">> \o <<"nl">> \o List(<<Item(<<"z">>)>>)), Item(<<"esc", "y">>)>>) }
Bodies == UNION {[1..n -> Blocks] : n \in 0..2}

Generated == {[source  |-> Line("\\section", "S") \o FlattenSeq(body) \o Line("\\section", "T")
                             \o List(<<Item(<<"x">>)>>),
               profile |-> ListStyle] : body \in Bodies}
HandMade ==
  { [source  |-> <<"word", "nl">> \o Line("\\begin", "document") \o Line("\\section", "S")
                   \o Line("\\entry", "a") \o List(<<Item(<<"x">>), Item(<<"y">>), Item(<<"x">>)>>)
                   \o Line("\\section", "S") \o List(<<Item(<<"w">>)>>)
                   \o Line("\\entry", "b") \o List(<<Item(<<"x">>)>>) \o Line("\\end", "document"),
     profile |-> ListStyle],
    [source  |-> Line("\\section", "S") \o Line("\\entry", "a") \o Macros(<<Macro(<<"x">>), Macro(<<"y">>)>>)
                   \o Line("\\entry", "a") \o Macros(<<Macro(<<"x">>)>>),
     profile |-> [MacroStyle EXCEPT !.entryIsItem = FALSE]],
    [source  |-> Line("\\section", "S") \o ListOf("enumerate", <<Item(<<"x">>)>>)
                   \o Line("\\section", "T") \o List(<<Item(<<"y">>)>>),
     profile |-> TwoListStyle],
    [source  |-> Line("\\section", "S") \o Macros(<<<<"\\bullet", "%", "esc", "}", "nl", "{", "x", "}", "nl">>,
                                                  Macro(<<"y">>)>>),
     profile |-> MacroStyle] }
MCDocuments == HandMade \cup Generated
ASSUME DocumentsAreTidy == \A d \in MCDocuments : Tidy(d.source, BuildMask(d.source), d.profile)

\* The shape of the widespread template: the entries of a section stand in a list of entries.
JakeDocuments ==
  { [source  |-> Line("\\section", "S") \o Macros(<< Line("\\entry", "a") \o Macros(<<Macro(<<"x">>), Macro(<<"y">>)>>),
                                                   Line("\\entry", "b") \o Macros(<<Macro(<<"z">>)>>) >>),
     profile |-> MacroStyle] }

MCTexts == {<<"v">>, <<"v", "tech">>, <<"backslash", "%">>, <<"v", "v", "v">>}
=============================================================================
