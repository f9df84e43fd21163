----------------------------- MODULE AdminPages -----------------------------
(***************************************************************************)
(* A browser on the administrator's pages: the stylesheet it is served, the *)
(* theme it chose (src/routes/admin.rs, set_theme and theme), the pages     *)
(* that carry that theme, and the script of the page list.  One tab is      *)
(* followed; the browser's other tabs show through the cookie they share.   *)
(*                                                                          *)
(* A navigation is a request whose answer has not arrived.  The old page    *)
(* stays alive under it, and a newer navigation takes its place.            *)
(***************************************************************************)
EXTENDS StyleItems, CopyLinks

CONSTANTS
    Configs,            \* options of the two plugins
    AppConfig,          \* those of css/tailwind-input.css
    DarkTheme, LightTheme,
    Foreign,            \* values no page offers (tests/e2e/auth.rs posts one)
    Sizes,              \* the page sizes the list offers
    DefaultSize

Themes == {DarkTheme, LightTheme}

(* A page is at the list, at the publish form, or is the answer to a        *)
(* rejected POST /sites, a path that answers no GET.  It has its theme, the *)
(* size of its list and the one its form selects; scripted: its script has  *)
(* run; early: a size was selected before that.                             *)
Places == {"list", "new", "rejected"}
Docs == [at : Places, theme : Themes, size : Sizes, select : Sizes,
         scripted : BOOLEAN, early : BOOLEAN]

(* A GET carries the cookie, and the choice it redirects from; POST /theme  *)
(* the choice and the page it comes from.                                   *)
Requests == [to : Places \cup {"publish"}, size : Sizes,
             cookie : Themes \cup {None}, chose : Themes \cup {None}]
            \cup [to : {"theme"}, choice : Themes \cup Foreign, back : Places, size : Sizes]

ASSUME PagesAssumption ==
    /\ AppConfig \in Configs /\ DefaultSize \in Sizes
    /\ \A c \in Configs : c.prefix \in Words \cup {None}
    /\ None \notin Docs \cup Requests

VARIABLES
    config,     \* what the stylesheet is built from
    sheet,      \* the theme rules of the built stylesheet, None before
    dark,       \* the system prefers a dark color scheme
    cookie,     \* pb_theme
    doc,        \* the page the tab shows, None for one without a theme
    nav         \* the request it waits for

pages == <<config, sheet, dark, cookie, doc, nav>>
pvars == <<pages, cvars>>

(* theme: only the light choice is recognised, everything else is dark.     *)
ThemeOf(c) == IF c = LightTheme THEN LightTheme ELSE DarkTheme

(* theme.html posts the theme the page is not in.                           *)
Other(t) == IF t = DarkTheme THEN LightTheme ELSE DarkTheme

Get(place, size, chose, c) == [to |-> place, size |-> size, cookie |-> c, chose |-> chose]

(***************************************************************************)
(* The build and the browser.                                               *)
(***************************************************************************)

Build ==
    /\ sheet = None
    /\ sheet' = Sheet(config)
    /\ UNCHANGED <<config, dark, cookie, doc, nav, cvars>>

(* The program embeds the stylesheet of its own options.                    *)
Running == sheet # None /\ config = AppConfig

SwitchSystem ==
    /\ dark' = ~dark
    /\ UNCHANGED <<config, sheet, cookie, doc, nav, cvars>>

Navigate(request) ==
    /\ nav' = request
    /\ UNCHANGED <<config, sheet, dark, cookie, doc, cvars>>

Open ==
    /\ Running
    /\ \E place \in {"list", "new"} : Navigate(Get(place, DefaultSize, None, cookie))

Publish ==
    /\ doc # None /\ doc.at \in {"new", "rejected"}
    /\ Navigate(Get("publish", DefaultSize, None, cookie))

Toggle ==
    /\ doc # None
    /\ \E choice \in {Other(doc.theme)} \cup Foreign :
           Navigate([to |-> "theme", choice |-> choice, back |-> doc.at, size |-> doc.size])

(* The deferred script of the list: the copy buttons, then the page size.   *)
RunScript ==
    /\ doc # None /\ doc.at = "list" /\ ~doc.scripted
    /\ doc' = [doc EXCEPT !.scripted = TRUE]
    /\ \E able \in BOOLEAN : Attach(able)
    /\ UNCHANGED <<config, sheet, dark, cookie, nav>>

(* Mistaken: the change is remembered and not submitted.                    *)
SelectSizeOnly ==
    /\ doc # None /\ doc.at = "list"
    /\ \E size \in Sizes \ {doc.select} : doc' = [doc EXCEPT !.select = size]
    /\ UNCHANGED <<config, sheet, dark, cookie, nav, cvars>>

(* A new page size submits the form once the script listens to it.          *)
SelectSize ==
    /\ doc # None /\ doc.at = "list"
    /\ \E size \in Sizes \ {doc.select} :
        /\ doc' = [doc EXCEPT !.select = size, !.early = @ \/ ~doc.scripted]
        /\ nav' = IF doc.scripted THEN Get("list", size, None, cookie) ELSE nav
    /\ UNCHANGED <<config, sheet, dark, cookie, cvars>>

Search ==
    /\ doc # None /\ doc.at = "list"
    /\ Navigate(Get("list", doc.select, None, cookie))

(* Any other tab of this browser, or the cookie's end.                      *)
OtherTab ==
    /\ Running
    /\ cookie' \in Themes \cup {None}
    /\ UNCHANGED <<config, sheet, dark, doc, nav, cvars>>

CopyStep ==
    /\ doc # None
    /\ \E g \in Groups : Click(g) \/ Settle(g)
    /\ UNCHANGED pages

(***************************************************************************)
(* The answers.                                                             *)
(***************************************************************************)

Answered(to) == nav # None /\ nav.to = to

(* Mistaken: the redirect is followed with the cookie of before.            *)
AnswerThemeLate ==
    /\ Answered("theme") /\ nav.choice \in Themes
    /\ cookie' = nav.choice
    /\ nav' = Get(nav.back, nav.size, nav.choice, cookie)
    /\ UNCHANGED <<config, sheet, dark, doc, cvars>>

(* set_theme: the browser stores the choice and follows the redirect to     *)
(* where it came from.                                                      *)
AnswerTheme ==
    /\ Answered("theme") /\ nav.choice \in Themes
    /\ cookie' = nav.choice
    /\ nav' = Get(nav.back, nav.size, nav.choice, nav.choice)
    /\ UNCHANGED <<config, sheet, dark, doc, cvars>>

(* A page without a theme: an unknown choice, or a path that has no GET.    *)
Refuse ==
    /\ \/ Answered("theme") /\ nav.choice \notin Themes
       \/ Answered("rejected")
    /\ doc' = None /\ nav' = None
    /\ Leave
    /\ UNCHANGED <<config, sheet, dark, cookie>>

(* A rendered page, with the theme of the request's cookie.                 *)
AnswerPage ==
    /\ nav # None /\ nav.to \in {"list", "new", "publish"}
    /\ doc' = [at |-> IF nav.to = "publish" THEN "rejected" ELSE nav.to,
               theme |-> ThemeOf(nav.cookie), size |-> nav.size, select |-> nav.size,
               scripted |-> FALSE, early |-> FALSE]
    /\ nav' = None
    /\ Leave
    /\ UNCHANGED <<config, sheet, dark, cookie>>

PInit ==
    /\ config \in Configs /\ sheet = None
    /\ dark \in BOOLEAN /\ cookie = None
    /\ doc = None /\ nav = None
    /\ CInit

PNext ==
    \/ Build \/ SwitchSystem
    \/ Open \/ Publish \/ Toggle \/ RunScript \/ SelectSize \/ Search \/ OtherTab \/ CopyStep
    \/ AnswerTheme \/ Refuse \/ AnswerPage

PSpec == PInit /\ [][PNext]_pvars /\ CFairness

-----------------------------------------------------------------------------
Displayed(page, declaration) == Shown(sheet', page, declaration)

(* Whatever themes the options list or define, with whatever flags, and in  *)
(* whatever order, a page shows of every declaration what they ask for: its *)
(* own theme, a choice of the system's only where the page makes none, the  *)
(* default under both (daisyui.mjs:47-119, daisyui-theme.mjs:25-65).        *)
ThemesFollowOptions ==
    [][sheet = None /\ sheet' # None =>
           LET declared == ToSet(Declarations(config))
               named == {d.name : d \in declared} \cup Foreign \cup {None}
               controls == {<<d.name, d.prefix>> : d \in declared} \cup {None}
           IN  \A t \in named, c \in controls, prefersDark \in BOOLEAN :
               \A d \in Declared :
                   LET page == [theme |-> t, checked |-> c, dark |-> prefersDark]
                   IN  Displayed(page, d) = Wished(config, page, d)]_pvars

(* Every included base style reaches Tailwind as it is written, with the    *)
(* prefix before daisyUI's own classes and variables and nowhere else: not  *)
(* in strings, attributes, comments, escapes or at-rules, nor before a name *)
(* on the lists of exceptions (daisyui.mjs:206-381).                        *)
PrefixReachesNames ==
    [][sheet = None /\ sheet' # None =>
           \A item \in Items(config) : item.add = "base" =>
               Meanings(item.styles) = Meanings(Asked(item.name, config))]_pvars

(* Every included component and utility reaches Tailwind without a layer at *)
(* the outside, with each of its declarations once, under its selectors and *)
(* at-rules as they were nested, and those of one selector in one layer in  *)
(* their order (daisyui.mjs:134-166).                                       *)
LayersKeepRules ==
    [][sheet = None /\ sheet' # None =>
           \A item \in Items(config) : item.add # "base" =>
               /\ SameSayings(item.styles, Asked(item.name, config))
               /\ \A d \in ToSet(item.styles) : ~InLayer(d.path)]_pvars

(* A theme that was chosen on a page is the one the next page shows, in     *)
(* every declaration and whatever the system prefers, though other tabs may *)
(* choose another in the meantime; an answer that has no theme at all       *)
(* comes only to a page that was itself the answer to a POST.               *)
ChosenThemeIsShown ==
    [][nav # None /\ nav' = None /\ nav.to # "theme" /\ nav.chose # None =>
           IF nav.to = "rejected" THEN doc' = None
           ELSE \A d \in Declared, prefersDark \in BOOLEAN :
                    LET page == [theme |-> doc'.theme, checked |-> None, dark |-> prefersDark]
                    IN  Displayed(page, d).theme = nav.chose]_pvars

(* The options of the program show a page in the theme it names, in every   *)
(* declaration and whatever the system prefers.                             *)
AppShowsThemes ==
    \A t \in Themes, d \in Declared, prefersDark \in BOOLEAN :
        LET page == [theme |-> t, checked |-> None, dark |-> prefersDark]
        IN  Shown(Sheet(AppConfig), page, d).theme = t

(* Once nothing is loading, the list has the page size its form shows,      *)
(* except where the choice was made before the script was listening.        *)
SizeIsApplied ==
    doc # None /\ doc.at = "list" /\ nav = None /\ ~doc.early => doc.select = doc.size
=============================================================================
