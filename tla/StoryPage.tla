----------------------------- MODULE StoryPage -----------------------------
(***************************************************************************)
(* The page in the browser: the story polls the city snapshot and hands it *)
(* to the explore panels, while the reader scrolls, picks cities and opens *)
(* receipts, and answers to earlier requests come in, in any order.        *)
(*                                                                         *)
(*   src/public/js/story.js, src/public/js/ui.js, src/public/js/data.js    *)
(*                                                                         *)
(* JavaScript runs one callback at a time: an action is one callback, with *)
(* the events it dispatches (pulse:data, pulse:exploring-changed), whose   *)
(* listeners run before it returns. Cards, colours, sparklines and wording *)
(* are left out; what is kept of a post or a series is whether it came     *)
(* from the API or from the bundled demo data.                             *)
(***************************************************************************)
EXTENDS Naturals, FiniteSets

CONSTANTS
    SpCities,           \* cities a snapshot may have
    SpNoCity,
    SpAnswers,          \* what loadCityData may return: a mode and its cities
    SpMaxLoads,         \* bound: polls of the snapshot
    SpMaxClicks         \* bound: clicks, and scrolls past the last chapter

Modes == {"unknown", "live", "none", "demo", "mixed", "fallback"}

ASSUME StoryPageAssumption ==
    /\ SpNoCity \notin SpCities /\ SpMaxLoads \in Nat /\ SpMaxClicks \in Nat
    /\ SpAnswers \subseteq [mode : Modes \ {"unknown"}, cities : SUBSET SpCities]

VARIABLES
    loading, blocks,            \* state.loading; the requests it still waits for
    cityData,                   \* state.cities and state.dataMode, of both modules
    exploring, uiExploring,     \* of the story, of the explore panels
    pendingCity,                \* the drill chip's city, not picked up yet
    storySel, uiSel, globeSel,  \* the selected city, as each of them has it
    slot,                       \* the featured post of a card: "hidden" or "api"
    panel, postReqs,            \* the city panel; requests for posts in flight
    series, seriesReqs, ribbon, \* the timeseries; requests for it; what is drawn
    drawer, receiptReqs,        \* the receipt drawer; requests for receipts
    loadsLeft, clicksLeft

spStory == <<loading, blocks, cityData, slot>>
spChoice == <<exploring, uiExploring, pendingCity, storySel, uiSel, globeSel>>
spPanel == <<panel, postReqs>>
spRibbon == <<series, seriesReqs, ribbon>>
spDrawer == <<drawer, receiptReqs>>
spBounds == <<loadsLeft, clicksLeft>>
StoryPageVars == <<spStory, spChoice, spPanel, spRibbon, spDrawer, spBounds>>

MaybeCity == SpCities \cup {SpNoCity}
Posts(o) == [origin : o, city : MaybeCity]
MaxPanels == SpMaxLoads + SpMaxClicks

\* The type invariant of the page.
StoryPageTypeOK ==
    /\ loading \in BOOLEAN /\ blocks \subseteq {"cities", "themes", "featured"}
    /\ cityData \in [mode : Modes, cities : SUBSET SpCities]
    /\ exploring \in BOOLEAN /\ uiExploring \in BOOLEAN /\ slot \in {"hidden", "api"}
    /\ {pendingCity, storySel, uiSel, globeSel} \subseteq MaybeCity
    /\ panel \in [city : MaybeCity, wrap : 0 .. MaxPanels,
                  posts : {"closed", "asking", "api", "empty", "bundled", "apology"}]
    /\ postReqs \subseteq [city : SpCities, wrap : 1 .. MaxPanels]
    /\ series \in [rows : {"null", "api"}, failed : BOOLEAN, fresh : BOOLEAN]
    /\ seriesReqs \in 0 .. MaxPanels /\ ribbon \in {"flat", "api", "synthesized", "bare"}
    /\ drawer \in [open : BOOLEAN, post : Posts({"api", "bundled", "none"}),
                   shows : {"nothing", "loading", "receipt", "synthesized", "outage"}]
    /\ receiptReqs \subseteq Posts({"api", "bundled"})
    /\ loadsLeft \in 0 .. SpMaxLoads /\ clicksLeft \in 0 .. SpMaxClicks

StoryPageInit ==
    /\ loading = FALSE /\ blocks = {} /\ slot = "hidden"
    /\ cityData = [mode |-> "unknown", cities |-> {}]
    /\ exploring = FALSE /\ uiExploring = FALSE /\ pendingCity = SpNoCity
    /\ storySel = SpNoCity /\ uiSel = SpNoCity /\ globeSel = SpNoCity
    /\ panel = [city |-> SpNoCity, wrap |-> 0, posts |-> "closed"] /\ postReqs = {}
    /\ series = [rows |-> "null", failed |-> FALSE, fresh |-> FALSE] /\ seriesReqs = 0
    /\ ribbon = "flat"
    /\ drawer = [open |-> FALSE, post |-> [origin |-> "none", city |-> SpNoCity], shows |-> "nothing"]
    /\ receiptReqs = {} /\ loadsLeft = SpMaxLoads /\ clicksLeft = SpMaxClicks

FellBack(mode) == mode = "fallback"
Click == clicksLeft > 0 /\ clicksLeft' = clicksLeft - 1 /\ UNCHANGED loadsLeft

---------------------------------------------------------------------------
(* What the callbacks share.                                               *)

\* selectCity: the story, the globe and the panels are told together.
Selected(c) == uiSel' = c /\ storySel' = c /\ globeSel' = c

\* renderDetail: a new element for the posts. The requests of earlier ones
\* stay in flight and write to theirs, which are off the page.
ShowsCity(c, mode) ==
    IF c = SpNoCity
    THEN panel' = [panel EXCEPT !.city = SpNoCity, !.posts = "closed"] /\ UNCHANGED postReqs
    ELSE /\ panel' = [city |-> c, wrap |-> panel.wrap + 1,
                      posts |-> IF FellBack(mode) THEN "bundled" ELSE "asking"]
         /\ postReqs' = IF FellBack(mode) THEN postReqs
                        ELSE postReqs \cup {[city |-> c, wrap |-> panel.wrap + 1]}

\* renderRibbon: a category without posts is flat; a series that was fetched is drawn
\* before one is made up, which only the fallback may do.
Drawn(rows, mode) ==
    IF mode \in {"unknown", "none"} THEN "flat"
    ELSE IF rows = "api" THEN "api"
    ELSE IF FellBack(mode) THEN "synthesized" ELSE "bare"

\* loadTimeseries: what is drawn stays until the answer is there.
AsksSeries(mode, drawn) ==
    IF FellBack(mode)
    THEN /\ series' = [series EXCEPT !.rows = "null", !.failed = FALSE]
         /\ ribbon' = Drawn("null", mode) /\ UNCHANGED seriesReqs
    ELSE seriesReqs' = seriesReqs + 1 /\ ribbon' = drawn /\ UNCHANGED series

---------------------------------------------------------------------------
(* The story's data.                                                       *)

\* loadAndRender, on the timer: only when the last load has settled.
StartLoad ==
    /\ ~loading /\ loadsLeft > 0 /\ loadsLeft' = loadsLeft - 1
    /\ loading' = TRUE /\ blocks' = {"cities"}
    /\ UNCHANGED <<cityData, slot, spChoice, spPanel, spRibbon, spDrawer, clicksLeft>>

\* Mutant: a snapshot does not draw the open city panel again.
KeepsPanel(mode, cities) ==
    LET gone == uiSel # SpNoCity /\ uiSel \notin cities
    IN  /\ IF gone THEN Selected(SpNoCity) /\ ShowsCity(SpNoCity, mode)
           ELSE UNCHANGED <<uiSel, storySel, globeSel, spPanel>>
        /\ UNCHANGED spRibbon

\* Mutant: a city that is gone is deselected in the panels only.
ForgetsGlobe(mode, cities) ==
    LET gone == uiSel # SpNoCity /\ uiSel \notin cities
    IN  /\ uiSel' = (IF gone THEN SpNoCity ELSE uiSel) /\ UNCHANGED <<storySel, globeSel, spRibbon>>
        /\ IF gone THEN ShowsCity(SpNoCity, mode) ELSE UNCHANGED spPanel

\* onCitiesData: a selected city that is gone is deselected everywhere; the
\* open panels are drawn again from the new snapshot.
OnCitiesData(mode, cities) ==
    LET gone == uiSel # SpNoCity /\ uiSel \notin cities
    IN  /\ IF gone THEN Selected(SpNoCity) ELSE UNCHANGED <<uiSel, storySel, globeSel>>
        /\ IF gone THEN ShowsCity(SpNoCity, mode)
           ELSE IF uiExploring /\ uiSel # SpNoCity THEN ShowsCity(uiSel, mode) ELSE UNCHANGED spPanel
        /\ IF ~uiExploring THEN UNCHANGED spRibbon
           ELSE IF ~FellBack(mode) /\ ~series.fresh THEN AsksSeries(mode, ribbon)
           ELSE ribbon' = Drawn(series.rows, mode) /\ UNCHANGED <<series, seriesReqs>>

\* The snapshot: the cards are built anew, the panels told, and the requests
\* for what the cards embed are made; in the fallback no post is asked for.
CitiesArrive(a, featured) ==
    /\ "cities" \in blocks /\ (FellBack(a.mode) => ~featured)
    /\ cityData' = a /\ slot' = "hidden"
    /\ blocks' = {"themes"} \cup {b \in {"featured"} : featured}
    /\ OnCitiesData(a.mode, a.cities)
    /\ UNCHANGED <<loading, exploring, uiExploring, pendingCity, spDrawer, spBounds>>

\* loadThemes and loadFeaturedPosts settle, with or without an answer.
BlockSettles(b, ok) ==
    /\ b \in blocks \ {"cities"} /\ blocks' = blocks \ {b}
    /\ loading' = (blocks' # {})
    /\ slot' = IF b = "featured" /\ ok THEN "api" ELSE slot
    /\ UNCHANGED <<cityData, spChoice, spPanel, spRibbon, spDrawer, spBounds>>

---------------------------------------------------------------------------
(* The reader.                                                             *)

\* drill: a chip of a card, and the scroll it starts arrives later.
Drill(c) ==
    /\ ~exploring /\ c \in cityData.cities /\ Click /\ pendingCity' = c
    /\ UNCHANGED <<spStory, exploring, uiExploring, storySel, uiSel, globeSel, spPanel, spRibbon, spDrawer>>

\* Past the last chapter: the panels open and pick the pending city up, once.
EnterExplore ==
    /\ ~exploring /\ Click /\ exploring' = TRUE /\ uiExploring' = TRUE /\ pendingCity' = SpNoCity
    /\ LET c == IF pendingCity \in cityData.cities THEN pendingCity ELSE uiSel
       IN  IF c = SpNoCity THEN UNCHANGED <<uiSel, storySel, globeSel, spPanel>>
           ELSE Selected(c) /\ ShowsCity(c, cityData.mode)
    /\ AsksSeries(cityData.mode, Drawn(series.rows, cityData.mode))
    /\ UNCHANGED <<spStory, spDrawer>>

ExitExplore ==
    /\ exploring /\ exploring' = FALSE /\ uiExploring' = FALSE
    /\ uiSel' = SpNoCity /\ globeSel' = SpNoCity
    /\ IF uiSel = SpNoCity THEN UNCHANGED <<storySel, spPanel>>
       ELSE storySel' = SpNoCity /\ ShowsCity(SpNoCity, cityData.mode)
    /\ UNCHANGED <<spStory, pendingCity, spRibbon, spDrawer, spBounds>>

\* A row of the list or a city of the globe: selected, or no longer. Dragging
\* the globe and the panel's close button deselect as well.
SelectCity(c) ==
    /\ exploring /\ c \in cityData.cities /\ Click
    /\ LET d == IF uiSel = c THEN SpNoCity ELSE c
       IN  Selected(d) /\ ShowsCity(d, cityData.mode)
    /\ UNCHANGED <<spStory, exploring, uiExploring, pendingCity, spRibbon, spDrawer>>

\* loadCityPosts: the answer is for the selected city, and its element is
\* still on the page. When the API fails, bundled posts with an apology.
PostsArrive(r, what) ==
    /\ r \in postReqs /\ postReqs' = postReqs \ {r}
    /\ panel' = IF uiSel = r.city /\ panel.wrap = r.wrap THEN [panel EXCEPT !.posts = what] ELSE panel
    /\ UNCHANGED <<spStory, spChoice, spRibbon, spDrawer, spBounds>>

SeriesArrives(ok) ==
    /\ seriesReqs > 0 /\ seriesReqs' = seriesReqs - 1
    /\ series' = IF ok THEN [rows |-> "api", failed |-> FALSE, fresh |-> TRUE]
                 ELSE [series EXCEPT !.rows = "null", !.failed = TRUE]
    /\ ribbon' = Drawn(series'.rows, cityData.mode)
    /\ UNCHANGED <<spStory, spChoice, spPanel, spDrawer, spBounds>>

\* REFRESH_MS goes by.
SeriesAges ==
    /\ series.fresh /\ series' = [series EXCEPT !.fresh = FALSE]
    /\ UNCHANGED <<spStory, spChoice, spPanel, seriesReqs, ribbon, spDrawer, spBounds>>

---------------------------------------------------------------------------
(* Receipts.                                                               *)

\* The posts with a "why?" button on the page.
Traceable ==
    {p \in Posts({"api", "bundled"}) :
        \/ p.city = SpNoCity /\ p.origin = "api" /\ slot = "api" /\ ~exploring
        \/ p.city = panel.city /\ p.origin = "api" /\ panel.posts = "api"
        \/ p.city = panel.city /\ p.origin = "bundled" /\ panel.posts \in {"bundled", "apology"}}

\* openAudit: a bundled post's receipt is made up on the page.
OpenAudit(p) ==
    /\ p \in Traceable /\ Click
    /\ LET local == FellBack(cityData.mode) \/ p.origin = "bundled"
       IN  /\ drawer' = [open |-> TRUE, post |-> p, shows |-> IF local THEN "synthesized" ELSE "loading"]
           /\ receiptReqs' = IF local THEN receiptReqs ELSE receiptReqs \cup {p}
    /\ UNCHANGED <<spStory, spChoice, spPanel, spRibbon>>

\* Whatever the drawer shows by then, or shows no more, is overwritten.
ReceiptArrives(p, ok) ==
    /\ p \in receiptReqs /\ receiptReqs' = receiptReqs \ {p}
    /\ drawer' = [drawer EXCEPT !.post = p, !.shows = IF ok THEN "receipt" ELSE "outage"]
    /\ UNCHANGED <<spStory, spChoice, spPanel, spRibbon, spBounds>>

CloseAudit ==
    /\ drawer.open /\ drawer' = [drawer EXCEPT !.open = FALSE]
    /\ UNCHANGED <<spStory, spChoice, spPanel, spRibbon, receiptReqs, spBounds>>

StoryPageNext ==
    \/ StartLoad
    \/ \E a \in SpAnswers, f \in BOOLEAN : CitiesArrive(a, f)
    \/ \E b \in blocks, ok \in BOOLEAN : BlockSettles(b, ok)
    \/ \E c \in SpCities : Drill(c) \/ SelectCity(c)
    \/ EnterExplore \/ ExitExplore
    \/ \E r \in postReqs, what \in {"api", "empty", "apology"} : PostsArrive(r, what)
    \/ \E ok \in BOOLEAN : SeriesArrives(ok)
    \/ SeriesAges
    \/ \E p \in Traceable : OpenAudit(p)
    \/ \E p \in receiptReqs, ok \in BOOLEAN : ReceiptArrives(p, ok)
    \/ CloseAudit

StoryPageSpec == StoryPageInit /\ [][StoryPageNext]_StoryPageVars

---------------------------------------------------------------------------
(* Properties.                                                             *)

\* However polls, clicks and answers cross: a page that fell back to the bundled
\* data shows no post of the API; a page with the API's data shows bundled posts
\* only with an apology, and a made-up series only while it waits for the real
\* one; no receipt of a live post is made up, and the API is not asked for the
\* receipt of a bundled one (loadCityPosts, openAudit, onCitiesData).
PageHonest ==
    /\ FellBack(cityData.mode) => slot = "hidden" /\ panel.posts \in {"closed", "bundled"}
    /\ panel.posts = "bundled" => FellBack(cityData.mode)
    /\ exploring /\ ribbon = "synthesized" => FellBack(cityData.mode) \/ seriesReqs > 0
    /\ drawer.shows = "synthesized" => drawer.post.origin = "bundled"
    /\ \A p \in receiptReqs : p.origin = "api"

\* Scrolls, drill chips, clicks and snapshots that lose a city leave the
\* story, the panels and the globe with one selection: a city of the snapshot,
\* chosen while exploring, whose panel is open; and a drill chip's city never
\* waits while the panels are open (selectCity, enterExplore, exitExplore).
SelectionAgrees ==
    /\ uiExploring = exploring /\ storySel = uiSel /\ globeSel = uiSel /\ panel.city = uiSel
    /\ uiSel # SpNoCity => exploring /\ uiSel \in cityData.cities /\ panel.posts # "closed"
    /\ exploring => pendingCity = SpNoCity
=============================================================================
