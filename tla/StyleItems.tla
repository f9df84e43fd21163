----------------------------- MODULE StyleItems -----------------------------
(***************************************************************************)
(* The styles that daisyUI adds beside its themes (css/daisyui.mjs): which  *)
(* of its items the options take, how the prefix of the options reaches the *)
(* names in them, and how the cascade layers of components and utilities    *)
(* are moved inside their selectors.                                        *)
(*                                                                          *)
(* A style is the list of its declarations in the order of the object: the  *)
(* keys on the way to a declaration, outermost first, and its value; listed *)
(* says that the value stands in an array.  Keys and values are texts.  A   *)
(* text is a sequence of atoms: a punctuation character, a comment mark, a  *)
(* hexadecimal digit, an at-rule's word with the blank after it, or a piece *)
(* of a name, cut where the code looks for the start of a name.             *)
(***************************************************************************)
EXTENDS ThemeSheet

CONSTANTS
    Words,              \* the atoms made of [a-zA-Z0-9_-]
    HexDigits,          \* those of one hexadecimal digit
    AtRules,            \* the atoms that start with @
    Base, Components, Utilities,    \* the items of imports.js
    Parts               \* item -> its styles, in parts (see the end)

(* isIdentifierCharacter.                                                   *)
IdentifierAtoms == Words \cup {"\\"}

excludedPrefixes == {"color-", "size-", "radius-", "border", "depth", "noise"}
excludedSelectors ==
    {"prose", "is-hidden", "is-bound", "is-disabled", "is-today", "is-selected", "has-event",
     "is-inrange", "is-startrange", "is-endrange", "is-outside-current-month",
     "is-selection-disabled", "pick-whole-week"}

ASSUME ItemsAssumption ==
    /\ {"--", "tw"} \cup excludedPrefixes \cup excludedSelectors \cup HexDigits \subseteq Words
    /\ Words \cap AtRules = {} /\ {"@layer ", "@property "} \subseteq AtRules
    /\ Base \cap Components = {} /\ (Base \cup Components) \cap Utilities = {}
    /\ DOMAIN Parts = Base \cup Components \cup Utilities

(***************************************************************************)
(* addPrefix.  The prefix p is a text, empty if the options have none.      *)
(***************************************************************************)

(* The first place from i on whose atom satisfies P, or the end of the text.*)
FirstFrom(t, i, P(_)) ==
    LET k == SelectInSubSeq(t, i, Len(t), P) IN IF k = 0 THEN Len(t) + 1 ELSE k

shouldExcludeVariable(name) == Head(name) \in {"tw"} \cup excludedPrefixes

(* The word that an identifier starts with decides; an escape ends it.      *)
shouldExcludeSelector(identifier) ==
    LET word == SubSeq(identifier, 1,
                       FirstFrom(identifier, 1, LAMBDA a : a \notin Words) - 1)
    IN  /\ word # <<>>
        /\ \/ Len(word) = 1 /\ Head(word) \in excludedSelectors
           \/ Head(word) \in {"rdp-", "pika-", "vc-"}

(* The place after the escape at i: up to six hexadecimal digits and a      *)
(* blank, or any one character.                                             *)
getEscapeEnd(t, i) ==
    LET digits == FirstFrom(t, i + 1, LAMBDA a : a \notin HexDigits)
        end == Min({digits, i + 7})
    IN  IF digits = i + 1 THEN Min({i + 2, Len(t) + 1})
        ELSE IF end <= Len(t) /\ t[end] = " " THEN end + 1 ELSE end

getIdentifierEnd(t, start) ==
    LET end[i \in Nat] ==
            IF i > Len(t) THEN i
            ELSE CASE t[i] = "\\" -> end[getEscapeEnd(t, i)]
                   [] t[i] \in Words -> end[i + 1]
                   [] OTHER -> i
    IN  end[start]

(* Mistaken: a dot in a quoted string or in an attribute starts a class.    *)
PrefixEveryDot(t, p) ==
    FlattenSeq([i \in DOMAIN t |->
        IF t[i] = "." /\ i < Len(t) /\ t[i + 1] \in IdentifierAtoms
           /\ ~shouldExcludeSelector(SubSeq(t, i + 1, getIdentifierEnd(t, i + 1) - 1))
        THEN <<t[i]>> \o p ELSE <<t[i]>>])

(* One pass over a selector, in which dots start classes except in strings, *)
(* comments, escapes and attributes (depth counts open brackets).           *)
prefixSelectorClasses(t, p) ==
    LET Quotes == {"\"", "'"}
        scan[i \in Nat, depth \in Nat, quote \in Quotes \cup {""}] ==
            LET Copy(end, d, q) == SubSeq(t, i, end - 1) \o scan[end, d, q]
                comment == FirstFrom(t, i + 1, LAMBDA a : a = "*/")
                d == CASE t[i] = "[" -> depth + 1
                       [] t[i] = "]" /\ depth > 0 -> depth - 1
                       [] OTHER -> depth
                end == getIdentifierEnd(t, i + 1)
                identifier == SubSeq(t, i + 1, end - 1)
            IN  IF i > Len(t) THEN <<>>
                ELSE CASE t[i] = "\\" -> Copy(getEscapeEnd(t, i), depth, quote)
                       [] t[i] # "\\" /\ quote # "" ->
                              Copy(i + 1, depth, IF t[i] = quote THEN "" ELSE quote)
                       [] quote = "" /\ t[i] \in Quotes -> Copy(i + 1, depth, t[i])
                       [] quote = "" /\ t[i] = "/*" ->
                              Copy(Min({comment + 1, Len(t) + 1}), depth, quote)
                       [] OTHER ->
                              IF t[i] = "." /\ d = 0 /\ end > i + 1
                                 /\ ~shouldExcludeSelector(identifier)
                              THEN <<".">> \o p \o identifier \o scan[end, d, quote]
                              ELSE Copy(i + 1, d, quote)
    IN  scan[1, 0, ""]

(* Every variable in a text: the first -- of a run of words, with a name.   *)
processStringValue(t, p) ==
    LET Named(i) ==
            /\ t[i] = "--" /\ i < Len(t) /\ t[i + 1] \in Words
            /\ ~\E k \in 1..i-1 : t[k] = "--" /\ \A m \in k..i : t[m] \in Words
    IN  FlattenSeq([i \in DOMAIN t |->
            IF Named(i) /\ ~shouldExcludeVariable(SubSeq(t, i + 1, Len(t)))
            THEN <<t[i]>> \o p ELSE <<t[i]>>])

(* A selector that starts with a combinator is set off by a blank.          *)
getPrefixedKey(key, p) ==
    LET property == IsPrefix(<<"@property ", "--">>, key)
        selector == prefixSelectorClasses(key, p)
    IN  IF p = <<>> THEN key
        ELSE CASE Head(key) = "--" ->
                      IF shouldExcludeVariable(Tail(key)) THEN key ELSE <<"--">> \o p \o Tail(key)
               [] property -> processStringValue(key, p)
               [] Head(key) \in AtRules /\ ~property -> key
               [] OTHER ->
                      IF Head(selector) \in {">", "+", "~"} /\ "," \notin ToSet(selector)
                      THEN <<" ">> \o selector ELSE selector

(* processValue and processArrayValue.                                      *)
processValue(declaration, p) ==
    IF declaration.listed /\ Head(declaration.value) = "."
    THEN getPrefixedKey(declaration.value, p)
    ELSE processStringValue(declaration.value, p)

addPrefix(styles, p) ==
    [i \in DOMAIN styles |->
        [path |-> [k \in DOMAIN styles[i].path |-> getPrefixedKey(styles[i].path[k], p)],
         value |-> processValue(styles[i], p), listed |-> styles[i].listed]]

(***************************************************************************)
(* nestCssLayers.                                                           *)
(***************************************************************************)

(* A declaration joins the others of its outermost key.                     *)
appendRule(nested, declaration) ==
    LET last == SelectLastInSeq(nested, LAMBDA d : Head(d.path) = Head(declaration.path))
    IN  IF last = 0 THEN Append(nested, declaration) ELSE InsertAt(nested, last + 1, declaration)

(* The at-rules that a path starts with.                                    *)
AtRulesOf(path) ==
    SubSeq(path, 1, FirstFrom(path, 1, LAMBDA key : Head(key) \notin AtRules) - 1)

(* Mistaken: the inner at-rules end up around the outer ones.               *)
WrapFromLeft(path) ==
    LET n == Len(AtRulesOf(path))
    IN  <<path[n + 1]>> \o Reverse(AtRulesOf(path)) \o SubSeq(path, n + 2, Len(path))

(* The first selector comes to the outside of the at-rules before it.       *)
moveLayerRules(path) ==
    LET n == Len(AtRulesOf(path))
    IN  <<path[n + 1]>> \o AtRulesOf(path) \o SubSeq(path, n + 2, Len(path))

InLayer(path) == Head(Head(path)) = "@layer "

nestCssLayers(styles) ==
    FoldLeft(appendRule, <<>>,
             [i \in DOMAIN styles |->
                 IF InLayer(styles[i].path) THEN [styles[i] EXCEPT !.path = moveLayerRules(@)]
                 ELSE styles[i]])

(***************************************************************************)
(* The items.  A part of a text is what stands before a name and the name,  *)
(* or a text without one; prefixed says whether the name is daisyUI's own,  *)
(* so that a prefix belongs to it.                                          *)
(***************************************************************************)

Text(parts) == FlattenSeq([i \in DOMAIN parts |-> parts[i].mark \o parts[i].name])

Written(n, Spelled(_)) ==
    [i \in DOMAIN Parts[n] |->
        [path |-> [k \in DOMAIN Parts[n][i].path |-> Spelled(Parts[n][i].path[k])],
         value |-> Spelled(Parts[n][i].value), listed |-> Parts[n][i].listed]]
Styles(n) == Written(n, Text)

PrefixOf(options) == IF options.prefix = None THEN <<>> ELSE <<options.prefix>>

shouldIncludeItem(options, n) ==
    /\ options.include # None => n \in options.include
    /\ options.exclude # None => n \notin options.exclude

BaseItem(n, options) ==
    [add |-> "base", name |-> n, styles |-> addPrefix(Styles(n), PrefixOf(options))]
ComponentItem(n, options) ==
    [add |-> "components", name |-> n,
     styles |-> nestCssLayers(addPrefix(Styles(n), PrefixOf(options)))]
UtilityItem(n, options) ==
    [add |-> "utilities", name |-> n,
     styles |-> nestCssLayers(addPrefix(Styles(n), PrefixOf(options)))]

Items(options) ==
    LET Taken(names) == {n \in names : shouldIncludeItem(options, n)}
    IN  {BaseItem(n, options) : n \in Taken(Base)}
        \cup {ComponentItem(n, options) : n \in Taken(Components)}
        \cup {UtilityItem(n, options) : n \in Taken(Utilities)}

-----------------------------------------------------------------------------
(***************************************************************************)
(* What the options ask of an item, read off the parts.                     *)
(***************************************************************************)

Asked(n, options) ==
    Written(n, LAMBDA parts :
        FlattenSeq([i \in DOMAIN parts |->
            parts[i].mark \o (IF parts[i].prefixed THEN PrefixOf(options) ELSE <<>>)
            \o parts[i].name]))

(* A blank before a combinator means nothing.                               *)
Unspaced(key) == IF key # <<>> /\ Head(key) = " " THEN Tail(key) ELSE key

(* A declaration means its value, under its selectors and its at-rules in   *)
(* the order they nest in, wherever the two meet.                           *)
Meaning(declaration) ==
    [under |-> SelectSeq(declaration.path, LAMBDA key : Head(key) \in AtRules),
     of |-> LET names == SelectSeq(declaration.path, LAMBDA key : Head(key) \notin AtRules)
            IN  [k \in DOMAIN names |-> Unspaced(names[k])],
     value |-> declaration.value, listed |-> declaration.listed]
Meanings(styles) == [i \in DOMAIN styles |-> Meaning(styles[i])]

(* What styles say of a selector in a cascade layer, in order.              *)
Layers(m) == SelectSeq(m.under, LAMBDA key : Head(key) = "@layer ")
Said(styles, selector, layers) ==
    SelectSeq(Meanings(styles), LAMBDA m : Head(m.of) = selector /\ Layers(m) = layers)
SameSayings(styles, others) ==
    \A m \in ToSet(Meanings(styles)) \cup ToSet(Meanings(others)) :
        Said(styles, Head(m.of), Layers(m)) = Said(others, Head(m.of), Layers(m))
=============================================================================
