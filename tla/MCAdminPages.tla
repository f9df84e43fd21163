---------------------------- MODULE MCAdminPages ----------------------------
(***************************************************************************)
(* The options of css/tailwind-input.css, with other options of the same    *)
(* plugins for the stylesheet, and a page of two copy buttons.              *)
(***************************************************************************)
EXTENDS AdminPages

AllVariables == {"primary", "base-content", "radius-box", "depth"}

Order == <<"light", "dark", "cupcake">>

Entry(n, flags) == [name |-> n, flags |-> flags]
Listed(list) == [kind |-> "list", list |-> list]
Plugin(n, default, prefersdark, scheme, sets) ==
    [name |-> n, default |-> default, prefersdark |-> prefersdark, scheme |-> scheme, sets |-> sets]
Options(themes, plugins, prefix, include, exclude) ==
    [themes |-> themes, plugins |-> plugins, prefix |-> prefix,
     include |-> include, exclude |-> exclude]

Ledgers == <<Plugin("ledger", TRUE, TRUE, "dark", AllVariables),
             Plugin("ledger-light", FALSE, FALSE, "light", AllVariables)>>

App == Options(Listed(<<Entry("ledger", {"--default", "--prefersdark"}),
                        Entry("ledger-light", {})>>), Ledgers, None, None, None)

(* Lists of up to two of the bundled themes, with any flags.                *)
Flags == SUBSET {"--default", "--prefersdark"}
Lists == UNION {[1..n -> [name : {"light", "dark", "unknown"}, flags : Flags]] : n \in 0..2}
ThemeChoices == {Listed(list) : list \in Lists}
                \cup {[kind |-> "none", list |-> <<>>], [kind |-> "all", list |-> <<>>]}

(* Plugins that complete a bundled theme, or define little.                 *)
PluginChoices == {<<>>, <<Plugin("dark", TRUE, FALSE, None, {"primary"})>>,
                  <<Plugin("mine", TRUE, TRUE, None, {"primary"}),
                    Plugin("mine", FALSE, TRUE, "dark", {"depth"})>>}

(***************************************************************************)
(* Styles.  Selectors are made of up to two of these parts.                 *)
(***************************************************************************)

Hex == {"0", "2", "e"}
AllWords == {"--", "tw", "a", "btn", "opacity", "rdp-", "d-"} \cup Hex
            \cup excludedPrefixes \cup excludedSelectors
AllAtRules == {"@layer ", "@media ", "@property ", "@keyframes ", "@supports "}

Own(mark, name) == [mark |-> mark, name |-> name, prefixed |-> TRUE]
Plain(text) == [mark |-> text, name |-> <<>>, prefixed |-> FALSE]
Variable(name) == Own(<<"--">>, name)
Word(w) == <<Plain(<<w>>)>>

Classes == <<
    Own(<<".">>, <<"btn">>), Own(<<".">>, <<"btn", "--", "a">>),
    Own(<<".">>, <<"prose", "a">>),
    Own(<<".">>, <<"a", "\\", ".", "btn">>),
    Own(<<".">>, <<"\\", "2", " ", "a">>),
    Own(<<".">>, <<"\\", "0", "0", "0", "0", "2", "e", "e">>),
    Plain(<<".", "prose">>), Plain(<<".", "rdp-", "a">>), Plain(<<".", "prose", "\\", ":", "a">>) >>
Others == <<
    Plain(<<>>), Plain(<<" ">>), Plain(<<">">>), Plain(<<",">>), Plain(<<":">>),
    Plain(<<"a">>), Plain(<<"a", "\\", ".", "btn">>),
    Plain(<<"[", "a", "=", ".", "btn", "]">>),
    Plain(<<"[", "a", "=", "\"", "]", ".", "btn", "\"", "]">>),
    Plain(<<"'", "\\", "'", ".", "a", "'">>),
    Plain(<<"/*", ".", "a", "'", "*/">>) >>

(* The i-th pair of a sequence's elements.                                  *)
Pair(s, i) == <<s[((i - 1) \div Len(s)) + 1], s[((i - 1) % Len(s)) + 1]>>

(* A type selector stands before the classes of its element.                *)
Selectors ==
    LET parts == Classes \o Others
    IN  SelectSeq([i \in 1..Len(parts) * Len(parts) |-> Pair(parts, i)],
                  LAMBDA s : /\ s[1].mark # <<>>
                             /\ s[1] \in ToSet(Classes) => s[2].mark = <<>> \/ s[2].mark[1] # "a")

Values == <<Word("a"), <<Variable(<<"btn", "--", "a">>), Plain(<<",">>), Variable(<<"opacity">>)>>,
             <<Plain(<<"--", "color-", "a">>), Plain(<<"(">>), Variable(<<"a">>)>>,
             <<Plain(<<".", "a">>), Plain(<<"--", "tw", "a">>)>>, <<Plain(<<"--">>)>> >>
Keys == <<<<Variable(<<"a">>)>>, <<Plain(<<"--", "depth">>)>>, <<Plain(<<"--", "tw", "a">>)>>,
          <<Plain(<<"@property ">>), Variable(<<"a">>)>>,
          <<Plain(<<"@property ", "--", "radius-", "a">>)>>,
          <<Plain(<<"@media ", "(", ".", "a", ")">>)>> >>

Sets(path, value, listed) == [path |-> path, value |-> value, listed |-> listed]
SelectorStyles == [i \in DOMAIN Selectors |-> Sets(<<Selectors[i], Word("a")>>, Word("a"), FALSE)]
KeyStyles == [i \in DOMAIN Keys |-> Sets(<<Keys[i]>>, Word("a"), FALSE)]
             \o [i \in DOMAIN Values |-> Sets(<<Word("a")>>, Values[i], FALSE)]
             \o <<Sets(<<Word("a")>>, <<Own(<<".">>, <<"btn">>)>>, TRUE)>>

(* Rules of two selectors, some in layers and at-rules, and a keyframe: any *)
(* three in any order.                                                      *)
Shapes == << <<<<>>, <<>>>>, <<<<"@layer ">>, <<"@media ">>>>, <<<<"@layer ", "@media ">>, <<>>>>,
             <<<<"@layer ", "@media ", "@supports ">>, <<>>>> >>
Path(shape, class) == [k \in DOMAIN shape[1] |-> Word(shape[1][k])] \o <<<<Own(<<".">>, <<class>>)>>>>
                      \o [k \in DOMAIN shape[2] |-> Word(shape[2][k])] \o <<Word("a")>>
RulePaths == [k \in DOMAIN Shapes |-> Path(Shapes[k], "a")]
             \o [k \in DOMAIN Shapes |-> Path(Shapes[k], "btn")]
             \o << <<Word("@keyframes "), Word("0"), Word("a")>> >>

(* An item is named after what it is made of.                               *)
BaseNames == {<<1>>, <<2>>}
RuleNames == {n \in [1..3 -> DOMAIN RulePaths] : n[1] # n[2] /\ n[2] # n[3] /\ n[1] # n[3]}
UtilityNames == {n \in RuleNames : n[1] = 1}
ComponentNames == RuleNames \ UtilityNames
AllParts == [n \in BaseNames \cup RuleNames |->
    CASE n = <<1>> -> SelectorStyles
      [] n = <<2>> -> KeyStyles
      [] n \in RuleNames -> [i \in 1..3 |-> Sets(RulePaths[n[i]], Word(<<"0", "2", "e">>[i]), FALSE)]]

(* The themes are chosen without items, the items without themes.           *)
Several ==
    {App}
    \cup {Options(t, p, prefix, {}, None) :
             t \in ThemeChoices, p \in PluginChoices, prefix \in {None, "d-"}}
    \cup {Options(Listed(<<>>), <<>>, prefix, None, None) : prefix \in {None, "d-"}}
    \cup {Options(Listed(<<>>), <<>>, "d-", include, exclude) :
             include \in {None, {<<2>>, <<2, 3, 4>>}}, exclude \in {{<<1>>}, UtilityNames}}

(* The hypothesis of AdminPagesProofs!ChosenThemesAreShown.                 *)
ASSUME AppAssumption == AppShowsThemes
=============================================================================
