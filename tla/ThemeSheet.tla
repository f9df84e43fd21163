----------------------------- MODULE ThemeSheet -----------------------------
(***************************************************************************)
(* The themes of the administrator's pages: the rules that the daisyUI      *)
(* plugin (css/daisyui.mjs) and its theme plugin (css/daisyui-theme.mjs)    *)
(* hand to Tailwind for given options, and what a browser makes of them.    *)
(*                                                                          *)
(* A rule is the set of its selectors, whether it stands in the media query *)
(* for dark mode, and the declarations it sets.  A selector and a value are *)
(* records, a declaration is a name; how they are spelt is left out.  An    *)
(* option that JavaScript leaves undefined is None.                         *)
(***************************************************************************)
EXTENDS Naturals, Sequences, FiniteSets, SequencesExt

CONSTANTS
    None,
    Bundled,            \* the themes daisyUI ships (theme/object.js)
    ThemeOrder,         \* themeOrder_default
    ThemeVariables      \* the variables every bundled theme sets

ColorScheme == "color-scheme"
Declared == ThemeVariables \cup {ColorScheme}

ASSUME SheetAssumption ==
    ThemeOrder \in Seq(Bundled) /\ Bundled = ToSet(ThemeOrder)

(***************************************************************************)
(* Theme rules.                                                             *)
(***************************************************************************)

(* :where(:root); :root:has(input.theme-controller[value=n]:checked), whose *)
(* class has the prefix p; [data-theme=n]; and :root:not([data-theme]).     *)
AnyRoot == [kind |-> "any", theme |-> None, prefix |-> None]
Controller(n, p) == [kind |-> "controller", theme |-> n, prefix |-> p]
Attribute(n) == [kind |-> "attribute", theme |-> n, prefix |-> None]
Unset == [kind |-> "unset", theme |-> None, prefix |-> None]

ThemeRule(n, p, isDefault, sets) ==
    [dark |-> FALSE, sets |-> sets,
     on |-> {Controller(n, p), Attribute(n)} \cup IF isDefault THEN {AnyRoot} ELSE {}]
DarkRule(sets) == [dark |-> TRUE, sets |-> sets, on |-> {Unset}]

(* A bundled theme sets every declaration to a value of its own.            *)
Bundle(n) == [d \in Declared |-> [theme |-> n, from |-> "bundle"]]

ApplyTheme(n, p, flags) ==
    IF n \notin Bundled THEN <<>>
    ELSE <<ThemeRule(n, p, "--default" \in flags, Bundle(n))>>
         \o IF "--prefersdark" \in flags THEN <<DarkRule(Bundle(n))>> ELSE <<>>

(* What F emits for each member of a list, in order.                        *)
ForEach(list, F(_)) == FlattenSeq([i \in DOMAIN list |-> F(list[i])])

(* addBase of a theme that does not exist adds an empty rule.               *)
DarkPass(entry) ==
    IF "--prefersdark" \in entry.flags /\ entry.name \in Bundled
    THEN <<DarkRule(Bundle(entry.name))>> ELSE <<>>
DefaultPass(entry, p) ==
    IF "--default" \in entry.flags THEN ApplyTheme(entry.name, p, {"--default"}) ELSE <<>>
ThreePasses(list, p) ==
    ForEach(list, LAMBDA e : DefaultPass(e, p))
    \o ForEach(list, DarkPass)
    \o ForEach(list, LAMBDA e : ApplyTheme(e.name, p, {}))

(* Mistaken: any list that starts with a default theme is taken for one     *)
(* that has no other.                                                       *)
ListedThemesShortcut(list, p) ==
    IF list # <<>> /\ "--default" \in Head(list).flags
    THEN ApplyTheme(Head(list).name, p, Head(list).flags)
    ELSE ThreePasses(list, p)

ListedThemes(list, p) ==
    IF Len(list) = 1 /\ "--default" \in Head(list).flags
    THEN ApplyTheme(Head(list).name, p, Head(list).flags)
    ELSE ThreePasses(list, p)

(* pluginOptionsHandler: no themes, all of them, or those the options list. *)
DaisyThemes(themes, p) ==
    CASE themes.kind = "none" -> <<>>
      [] themes.kind = "list" -> ListedThemes(themes.list, p)
      [] themes.kind = "all" ->
             ApplyTheme("light", p, {"--default"})
             \o (IF "dark" \in Bundled THEN <<DarkRule(Bundle("dark"))>> ELSE <<>>)
             \o ForEach(ThemeOrder, LAMBDA n : ApplyTheme(n, p, {}))

(* The theme plugin: the options' own tokens over those of a bundled theme  *)
(* of the same name, and always a color-scheme.                             *)
CustomTokens(o) ==
    LET own == o.sets \cup (IF o.scheme = None THEN {} ELSE {ColorScheme})
        inherited == IF o.name \in Bundled THEN Declared ELSE {}
    IN  [d \in own \cup inherited \cup {ColorScheme} |->
            [theme |-> o.name,
             from |-> IF d \in own THEN "options"
                      ELSE IF d \in inherited THEN "bundle" ELSE "normal"]]

CustomTheme(o) ==
    (IF o.prefersdark THEN <<DarkRule(CustomTokens(o))>> ELSE <<>>)
    \o <<ThemeRule(o.name, None, o.default, CustomTokens(o))>>

(* A build loads daisyUI and then each theme plugin of the CSS input.       *)
Sheet(options) ==
    DaisyThemes(options.themes, options.prefix) \o ForEach(options.plugins, CustomTheme)

(***************************************************************************)
(* What a browser shows.  A page is its data-theme attribute, the checked   *)
(* controller (the theme and the prefix of its class), and whether the      *)
(* system prefers dark.                                                     *)
(***************************************************************************)

Matches(selector, page) ==
    CASE selector.kind = "any" -> TRUE
      [] selector.kind = "controller" -> page.checked = <<selector.theme, selector.prefix>>
      [] selector.kind = "attribute" -> page.theme = selector.theme
      [] selector.kind = "unset" -> page.theme = None

(* Specificity, as classes * 10 + elements.                                 *)
Specificity == [any |-> 0, attribute |-> 10, unset |-> 20, controller |-> 41]

Weight(rule, page) ==
    LET weights == {Specificity[s.kind] : s \in {t \in rule.on : Matches(t, page)}}
    IN  CHOOSE w \in weights : \A x \in weights : x <= w

(* The cascade: the most specific matching rule, the later of equals.       *)
Shown(sheet, page, declaration) ==
    LET candidates == {i \in DOMAIN sheet :
            /\ sheet[i].dark => page.dark
            /\ declaration \in DOMAIN sheet[i].sets
            /\ \E s \in sheet[i].on : Matches(s, page)}
        w == [i \in candidates |-> Weight(sheet[i], page)]
        winner == CHOOSE i \in candidates : \A k \in candidates :
                      w[k] < w[i] \/ (w[k] = w[i] /\ k <= i)
    IN  IF candidates = {} THEN None ELSE sheet[winner].sets[declaration]

-----------------------------------------------------------------------------
(***************************************************************************)
(* What the options ask for, without rules, passes or a cascade.            *)
(***************************************************************************)

(* The themes the options declare, in order, each with its flags.           *)
Declarations(options) ==
    LET Bundles(n, default, prefersdark) ==
            [name |-> n, prefix |-> options.prefix, default |-> default,
             prefersdark |-> prefersdark, sets |-> Bundle(n)]
        listed ==
            CASE options.themes.kind = "none" -> <<>>
              [] options.themes.kind = "all" ->
                     [i \in DOMAIN ThemeOrder |->
                         Bundles(ThemeOrder[i], ThemeOrder[i] = "light", ThemeOrder[i] = "dark")]
              [] options.themes.kind = "list" ->
                     LET known == SelectSeq(options.themes.list, LAMBDA e : e.name \in Bundled)
                     IN  [i \in DOMAIN known |->
                            Bundles(known[i].name, "--default" \in known[i].flags,
                                    "--prefersdark" \in known[i].flags)]
    IN  listed \o [i \in DOMAIN options.plugins |->
            [name |-> options.plugins[i].name, prefix |-> None, default |-> options.plugins[i].default,
             prefersdark |-> options.plugins[i].prefersdark,
             sets |-> CustomTokens(options.plugins[i])]]

(* A page shows the theme of its checked controller; else the one it names; *)
(* else, if it names none and the system prefers dark, the last one meant   *)
(* for that; else the last default.  What a theme does not set comes from   *)
(* the next of these that does.                                             *)
Wished(options, page, declaration) ==
    LET themes == Declarations(options)
        Latest(P(_)) == LET those == {i \in DOMAIN themes :
                                P(themes[i]) /\ declaration \in DOMAIN themes[i].sets}
                      IN  {themes[i].sets[declaration] : i \in
                              {k \in those : \A x \in those : x <= k}}
        layers == << Latest(LAMBDA t : page.checked = <<t.name, t.prefix>>),
                     Latest(LAMBDA t : page.theme = t.name),
                     Latest(LAMBDA t : page.theme = None /\ page.dark /\ t.prefersdark),
                     Latest(LAMBDA t : t.default) >>
        used == SelectSeq(layers, LAMBDA values : values # {})
    IN  IF used = <<>> THEN None ELSE CHOOSE v \in Head(used) : TRUE
=============================================================================
