-------------------------- MODULE AdminPagesProofs --------------------------
(* What is proved of a browser on the administrator's pages, for any number *)
(* of copy buttons, themes, options and page sizes.                         *)
EXTENDS AdminPages, TLAPS

-----------------------------------------------------------------------------
(* The copy buttons on their own.                                           *)

CopyTypes ==
    /\ shown \in [Groups -> BOOLEAN] /\ disabled \in [Groups -> BOOLEAN]
    /\ status \in [Groups -> {"empty", "copying", "copied", "failed"}]
    /\ writing \in [Groups -> {0, 1}]

CopyInv == CopyTypes /\ CopyStatusAgrees

LEMMA BlankPageAgrees == Rendered => CopyInv
BY DEF Rendered, Everywhere, CopyInv, CopyTypes, CopyStatusAgrees

LEMMA CopyStepAgrees ==
    ASSUME CopyInv, [CNext]_cvars
    PROVE  CopyInv'
<1> USE DEF CopyInv, CopyTypes, CopyStatusAgrees
<1>1. ASSUME NEW able \in BOOLEAN, Attach(able) PROVE CopyInv'
  <2>1. \A g \in Groups : ~disabled[g]
    BY <1>1 DEF Attach, Everywhere
  <2> QED
    BY <1>1, <2>1 DEF Attach
<1>2. ASSUME NEW g \in Groups, Click(g) PROVE CopyInv'
  BY <1>2 DEF Click
<1>3. ASSUME NEW g \in Groups, Settle(g) PROVE CopyInv'
  <2>1. disabled[g] /\ writing[g] = 1
    BY <1>3 DEF Settle
  <2>2. writing' = [writing EXCEPT ![g] = 0]
    BY <1>3, <2>1 DEF Settle
  <2> QED
    BY <1>3, <2>1, <2>2 DEF Settle
<1>4. CASE Leave
  BY <1>4 DEF Leave, Everywhere
<1>5. CASE UNCHANGED cvars
  BY <1>5 DEF cvars
<1> QED
  BY <1>1, <1>2, <1>3, <1>4, <1>5 DEF CNext

(* However clicks, settled writes and departures interleave, every button   *)
(* agrees with its status and has at most one write of its own outstanding  *)
(* (admin.js:13-24).                                                        *)
THEOREM CopyAgreement == CSpec => []CopyStatusAgrees
<1>1. CInit => CopyInv
  BY BlankPageAgrees DEF CInit
<1>2. CopyInv /\ [CNext]_cvars => CopyInv'
  BY CopyStepAgrees
<1>3. CopyInv => CopyStatusAgrees
  BY DEF CopyInv
<1> QED
  BY <1>1, <1>2, <1>3, PTL DEF CSpec

(* The pages use their buttons only as CopyLinks says: every step of the    *)
(* browser is a step of the buttons or leaves them alone.                   *)
THEOREM PagesUseCopyLinks == PSpec => CSpec
<1>1. PInit => CInit
  BY DEF PInit
<1>2. [PNext]_pvars => [CNext]_cvars
  BY DEF PNext, pvars, CNext, Build, SwitchSystem, Open, Publish, Toggle, RunScript,
         SelectSize, Search, OtherTab, CopyStep, AnswerTheme, Refuse, AnswerPage, Navigate
<1> QED
  BY <1>1, <1>2, PTL DEF PSpec, CSpec

THEOREM PagesCopyAgreement == PSpec => []CopyStatusAgrees
BY PagesUseCopyLinks, CopyAgreement, PTL

-----------------------------------------------------------------------------
(* Page sizes.                                                              *)

PageTypes ==
    /\ cookie \in Themes \cup {None}
    /\ doc \in Docs \cup {None}
    /\ nav \in Requests \cup {None}

SizeInv == PageTypes /\ SizeIsApplied

LEMMA GetTyped ==
    ASSUME NEW p \in Places \cup {"publish"}, NEW size \in Sizes,
           NEW chose \in Themes \cup {None}, NEW c \in Themes \cup {None}
    PROVE  Get(p, size, chose, c) \in Requests
BY DEF Get, Requests

LEMMA NavigateKeeps ==
    ASSUME SizeInv, NEW request \in Requests, Navigate(request)
    PROVE  SizeInv'
BY PagesAssumption DEF SizeInv, PageTypes, SizeIsApplied, Navigate

LEMMA SizeStep ==
    ASSUME SizeInv, [PNext]_pvars
    PROVE  SizeInv'
<1>1. CASE Build \/ SwitchSystem \/ CopyStep \/ UNCHANGED pvars
  BY <1>1 DEF Build, SwitchSystem, CopyStep, pvars, pages, SizeInv, PageTypes, SizeIsApplied
<1>2. CASE Open
  BY <1>2, NavigateKeeps, GetTyped, PagesAssumption DEF Open, SizeInv, PageTypes, Places
<1>3. CASE Publish
  BY <1>3, NavigateKeeps, GetTyped, PagesAssumption DEF Publish, SizeInv, PageTypes
<1>4. CASE Toggle
  <2>1. doc \in Docs
    BY <1>4 DEF Toggle, SizeInv, PageTypes
  <2>2. Other(doc.theme) \in Themes
    BY <2>1 DEF Other, Themes
  <2>3. \A choice \in {Other(doc.theme)} \cup Foreign :
           [to |-> "theme", choice |-> choice, back |-> doc.at, size |-> doc.size] \in Requests
    BY <2>1, <2>2 DEF Docs, Requests
  <2> QED
    BY <1>4, <2>3, NavigateKeeps DEF Toggle
<1>5. CASE RunScript
  <2>1. doc \in Docs /\ doc' = [doc EXCEPT !.scripted = TRUE] /\ nav' = nav /\ cookie' = cookie
    BY <1>5 DEF RunScript, SizeInv, PageTypes
  <2>2. doc' \in Docs /\ doc'.at = doc.at /\ doc'.select = doc.select
        /\ doc'.size = doc.size /\ doc'.early = doc.early
    BY <2>1 DEF Docs
  <2> QED
    BY <2>1, <2>2, PagesAssumption DEF SizeInv, PageTypes, SizeIsApplied
<1>6. CASE SelectSize
  <2>1. doc \in Docs /\ cookie' = cookie
    BY <1>6 DEF SelectSize, SizeInv, PageTypes
  <2>2. PICK size \in Sizes :
            /\ doc' = [doc EXCEPT !.select = size, !.early = @ \/ ~doc.scripted]
            /\ nav' = IF doc.scripted THEN Get("list", size, None, cookie) ELSE nav
    BY <1>6 DEF SelectSize
  <2>3. doc' \in Docs /\ (~doc.scripted => doc'.early)
    BY <2>1, <2>2 DEF Docs
  <2>4. Get("list", size, None, cookie) \in Requests
    BY GetTyped DEF SizeInv, PageTypes, Places
  <2>5. nav' \in Requests \cup {None} /\ (doc.scripted => nav' # None)
    BY <2>2, <2>4, PagesAssumption DEF SizeInv, PageTypes
  <2> QED
    BY <2>1, <2>3, <2>5 DEF SizeInv, PageTypes, SizeIsApplied
<1>7. CASE Search
  <2>1. doc \in Docs
    BY <1>7 DEF Search, SizeInv, PageTypes
  <2>2. doc.select \in Sizes
    BY <2>1 DEF Docs
  <2> QED
    BY <1>7, <2>2, NavigateKeeps, GetTyped DEF Search, SizeInv, PageTypes, Places
<1>8. CASE OtherTab
  BY <1>8 DEF OtherTab, SizeInv, PageTypes, SizeIsApplied
<1>9. CASE AnswerTheme
  <2>1. nav \in Requests /\ nav.to = "theme" /\ nav.choice \in Themes
    BY <1>9 DEF AnswerTheme, Answered, SizeInv, PageTypes
  <2>2. nav.back \in Places /\ nav.size \in Sizes
    BY <2>1 DEF Requests, Places
  <2>3. nav' \in Requests
    BY <1>9, <2>1, <2>2, GetTyped DEF AnswerTheme
  <2> QED
    BY <1>9, <2>1, <2>3, PagesAssumption DEF AnswerTheme, SizeInv, PageTypes, SizeIsApplied
<1>10. CASE Refuse
  BY <1>10 DEF Refuse, SizeInv, PageTypes, SizeIsApplied
<1>11. CASE AnswerPage
  <2>1. nav \in Requests /\ nav.to \in {"list", "new", "publish"}
    BY <1>11 DEF AnswerPage, SizeInv, PageTypes
  <2>2. nav.size \in Sizes
    BY <2>1 DEF Requests
  <2>3. ThemeOf(nav.cookie) \in Themes
    BY DEF ThemeOf, Themes
  <2>4. doc' \in Docs /\ doc'.select = doc'.size
    BY <1>11, <2>1, <2>2, <2>3 DEF AnswerPage, Docs, Places
  <2> QED
    BY <1>11, <2>4 DEF AnswerPage, SizeInv, PageTypes, SizeIsApplied
<1> QED
  BY <1>1, <1>2, <1>3, <1>4, <1>5, <1>6, <1>7, <1>8, <1>9, <1>10, <1>11 DEF PNext

(* Whatever sizes are selected and whichever navigations replace each       *)
(* other, a list that has finished loading has the size its form shows,     *)
(* unless the choice came before the script (admin.js:29-32).               *)
THEOREM SizesAreApplied == PSpec => []SizeIsApplied
<1>1. PInit => SizeInv
  BY DEF PInit, SizeInv, PageTypes, SizeIsApplied
<1>2. SizeInv /\ [PNext]_pvars => SizeInv'
  BY SizeStep
<1>3. SizeInv => SizeIsApplied
  BY DEF SizeInv
<1> QED
  BY <1>1, <1>2, <1>3, PTL DEF PSpec

-----------------------------------------------------------------------------
(***************************************************************************)
(* The chosen theme: a page that answers a choice carries it, through any   *)
(* redirect and whatever other tabs choose in the meantime.                 *)
(***************************************************************************)

ChoiceInv ==
    /\ sheet = None \/ sheet = Sheet(config)
    /\ doc # None \/ nav # None => config = AppConfig /\ sheet = Sheet(config)
    /\ nav # None /\ nav.to # "theme" /\ nav.chose # None =>
           nav.chose \in Themes /\ nav.cookie = nav.chose /\ nav.to # "publish"

LEMMA GetChosen ==
    ASSUME NEW p \in Places \cup {"publish"}, NEW size, NEW c, NEW chose,
           chose = None \/ (chose \in Themes /\ c = chose /\ p # "publish")
    PROVE  LET g == Get(p, size, chose, c)
           IN  g.to # "theme" /\ (g.chose # None =>
                   g.chose \in Themes /\ g.cookie = g.chose /\ g.to # "publish")
BY DEF Get, Places

(* Every step that starts a navigation leaves one to wait for.              *)
LEMMA NavigationsPend ==
    ASSUME SizeInv, PNext, nav # None, nav' = None
    PROVE  Refuse \/ AnswerPage
<1>1. ASSUME NEW request \in Requests, nav' = request
      PROVE  FALSE
  BY <1>1, PagesAssumption
<1>2. \A size \in Sizes, p \in Places \cup {"publish"} : Get(p, size, None, cookie) \in Requests
  BY GetTyped DEF SizeInv, PageTypes
<1>3. doc # None => doc.select \in Sizes /\ doc.size \in Sizes /\ doc.at \in Places
                    /\ Other(doc.theme) \in Themes
  BY DEF SizeInv, PageTypes, Docs, Other, Themes
<1>4. ~Open /\ ~Publish
  BY <1>1, <1>2, PagesAssumption DEF Open, Publish, Navigate, Places
<1>5. ~Search /\ ~SelectSize
  BY <1>1, <1>2, <1>3 DEF Search, SelectSize, Navigate, Places
<1>6. ~Toggle
  <2> SUFFICES ASSUME Toggle PROVE FALSE
    OBVIOUS
  <2>1. PICK choice \in {Other(doc.theme)} \cup Foreign :
           nav' = [to |-> "theme", choice |-> choice, back |-> doc.at, size |-> doc.size]
    BY DEF Toggle, Navigate
  <2>2. nav' \in Requests
    BY <1>3, <2>1 DEF Toggle, Requests
  <2> QED
    BY <1>1, <2>2
<1>7. ~AnswerTheme
  <2> SUFFICES ASSUME AnswerTheme PROVE FALSE
    OBVIOUS
  <2>1. nav \in Requests /\ nav.to = "theme" /\ nav.choice \in Themes
    BY DEF AnswerTheme, Answered, SizeInv, PageTypes
  <2>2. nav.back \in Places /\ nav.size \in Sizes
    BY <2>1 DEF Requests, Places
  <2>3. nav' \in Requests
    BY <2>1, <2>2, GetTyped DEF AnswerTheme
  <2> QED
    BY <1>1, <2>3
<1> QED
  BY <1>4, <1>5, <1>6, <1>7
     DEF PNext, Build, SwitchSystem, RunScript, OtherTab, CopyStep, pages

LEMMA ChoiceStep ==
    ASSUME SizeInv, ChoiceInv, [PNext]_pvars
    PROVE  ChoiceInv'
<1>1. CASE Build
  BY <1>1 DEF Build, ChoiceInv
<1>2. CASE SwitchSystem \/ RunScript \/ OtherTab \/ CopyStep \/ UNCHANGED pvars
  BY <1>2 DEF SwitchSystem, RunScript, OtherTab, CopyStep, pvars, pages, ChoiceInv
<1>3. CASE Open \/ Publish \/ Search
  <2>1. config = AppConfig /\ sheet = Sheet(config) /\ UNCHANGED <<config, sheet, doc>>
    BY <1>3 DEF Open, Publish, Search, Running, Navigate, ChoiceInv
  <2>2. PICK p \in Places \cup {"publish"}, size \in {DefaultSize, doc.select} :
           nav' = Get(p, size, None, cookie)
    BY <1>3 DEF Open, Publish, Search, Navigate, Places
  <2> QED
    BY <2>1, <2>2, GetChosen DEF ChoiceInv
<1>4. CASE Toggle
  BY <1>4 DEF Toggle, Navigate, ChoiceInv
<1>5. CASE SelectSize
  <2>1. doc # None /\ doc' # None /\ UNCHANGED <<config, sheet>>
    <3>1. doc \in Docs
      BY <1>5 DEF SelectSize, SizeInv, PageTypes
    <3>2. doc' \in Docs
      BY <1>5, <3>1 DEF SelectSize, Docs
    <3> QED
      BY <1>5, <3>2, PagesAssumption DEF SelectSize
  <2>2. nav' = nav \/ \E size \in Sizes : nav' = Get("list", size, None, cookie)
    BY <1>5 DEF SelectSize
  <2>3. "list" \in Places
    BY DEF Places
  <2> QED
    BY <2>1, <2>2, <2>3, GetChosen DEF ChoiceInv
<1>6. CASE AnswerTheme
  <2>1. nav \in Requests /\ nav.to = "theme" /\ nav.choice \in Themes
    BY <1>6 DEF AnswerTheme, Answered, SizeInv, PageTypes
  <2>2. nav.back \in Places
    BY <2>1 DEF Requests, Places
  <2>3. nav' = Get(nav.back, nav.size, nav.choice, nav.choice) /\ nav.back # "publish"
        /\ nav # None /\ UNCHANGED <<config, sheet, doc>>
    BY <1>6, <2>2 DEF AnswerTheme, Answered, Places
  <2> QED
    BY <2>1, <2>2, <2>3, GetChosen DEF ChoiceInv
<1>7. CASE Refuse \/ AnswerPage
  BY <1>7 DEF Refuse, AnswerPage, Answered, ChoiceInv
<1> QED
  BY <1>1, <1>2, <1>3, <1>4, <1>5, <1>6, <1>7 DEF PNext

(* A theme chosen on a page is the one the next page shows, however many    *)
(* navigations replace each other and whatever other tabs choose meanwhile  *)
(* (admin.rs, set_theme and theme), given that the stylesheet shows a page  *)
(* in the theme it names.                                                   *)
THEOREM ChosenThemesAreShown == ASSUME AppShowsThemes PROVE PSpec => ChosenThemeIsShown
<1> DEFINE A == nav # None /\ nav' = None /\ nav.to # "theme" /\ nav.chose # None =>
                    IF nav.to = "rejected" THEN doc' = None
                    ELSE \A d \in Declared, prefersDark \in BOOLEAN :
                           LET page == [theme |-> doc'.theme, checked |-> None, dark |-> prefersDark]
                           IN  Displayed(page, d).theme = nav.chose
<1>1. PInit => ChoiceInv
  BY DEF PInit, ChoiceInv
<1>2. PInit => SizeInv
  BY DEF PInit, SizeInv, PageTypes, SizeIsApplied
<1>3. SizeInv /\ [PNext]_pvars => SizeInv'
  BY SizeStep
<1>4. SizeInv /\ ChoiceInv /\ [PNext]_pvars => ChoiceInv'
  BY ChoiceStep
<1>5. SizeInv /\ ChoiceInv /\ [PNext]_pvars => [A]_pvars
  <2> SUFFICES ASSUME SizeInv, ChoiceInv, PNext, nav # None, nav' = None,
                      nav.to # "theme", nav.chose # None
               PROVE  A
    OBVIOUS
  <2>1. nav.chose \in Themes /\ nav.cookie = nav.chose /\ nav.to # "publish"
        /\ sheet = Sheet(AppConfig)
    BY DEF ChoiceInv
  <2>2. Refuse \/ AnswerPage
    BY NavigationsPend
  <2>3. CASE Refuse
    BY <2>3 DEF Refuse, Answered
  <2>4. CASE AnswerPage
    <3>1. doc'.theme = ThemeOf(nav.cookie) /\ sheet' = sheet /\ nav.to # "rejected"
      BY <2>4 DEF AnswerPage
    <3>2. doc'.theme = nav.chose
      BY <2>1, <3>1 DEF ThemeOf, Themes
    <3>3. ASSUME NEW d \in Declared, NEW prefersDark \in BOOLEAN
          PROVE  Displayed([theme |-> doc'.theme, checked |-> None, dark |-> prefersDark], d).theme
                     = nav.chose
      BY <2>1, <3>1, <3>2, <3>3 DEF Displayed, AppShowsThemes
    <3> QED
      BY <3>1, <3>3
  <2> QED
    BY <2>2, <2>3, <2>4
<1> QED
  BY <1>1, <1>2, <1>3, <1>4, <1>5, PTL DEF PSpec, ChosenThemeIsShown
=============================================================================
