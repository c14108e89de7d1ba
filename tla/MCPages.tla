------------------------------- MODULE MCPages -------------------------------
(***************************************************************************)
(* The pages and dialogs of the web client, and the parts of the server    *)
(* that stand alone, on small instances. One of them is open at a time     *)
(* (part), so the modules share the variables v1 to v17: what a page calls *)
(* its state is the substitution of its INSTANCE. The tables of            *)
(* EmbeddingTx keep their variables; when they are not open, nothing is    *)
(* left in them but a document in the trash.                               *)
(***************************************************************************)
EXTENDS EmbeddingTx, TLC

VARIABLES part, v1, v2, v3, v4, v5, v6, v7, v8, v9, v10, v11, v12, v13, v14, v15, v16, v17
pageVars == <<part, txVars, v1, v2, v3, v4, v5, v6, v7, v8, v9, v10, v11, v12, v13, v14, v15, v16, v17>>

(***************************************************************************)
(* The instances                                                           *)
(***************************************************************************)

\* Note 1 has the tag "t", and the search "w" finds note 2.
NoteHits == [x \in {"", "w", "/", "t"} |-> CASE x = "w" -> {2} [] x = "t" -> {1} [] OTHER -> {1, 2}]
NoteTags == {[q |-> "", view |-> x] : x \in {"all", "shared"}} \cup {[q |-> "w", view |-> "all"]}
ClosePolicy == ("d1" :> "always") @@ ("d2" :> "when-idle") @@ ("d3" :> "explicit")
DialogTriggers == [d \in {"d1", "d2", "d3"} |-> IF d = "d2" THEN {"b"} ELSE {}]
MenuEntries == LET E(on, has) == [enabled |-> on, children |-> has]
               IN  ("x" :> <<E(TRUE, FALSE), E(FALSE, FALSE), E(TRUE, TRUE)>>)
                   @@ ("y" :> <<E(FALSE, FALSE), E(TRUE, FALSE)>>)
\* Three rows in pages of one; the search "x" finds the middle one.
Found == [q \in {"", "x"} |-> IF q = "" THEN <<"a", "b", "c">> ELSE <<"b">>]
AssetKinds == [a \in {"a", "b", "c"} |-> CASE a = "a" -> "pdf" [] a = "b" -> "media" [] a = "c" -> "image"]
\* Lines kept, moved, doubled and removed.
NoteTexts == {<<"a">>, <<"b">>, <<"a", "b">>, <<"b", "a">>, <<"a", "b", "a">>, <<"b", "b", "a">>}
TagMatches == ("a" :> {"a", "ab"}) @@ ("ab" :> {"ab"})
TagFinds == [q \in {"", "x"} |-> IF q = "" THEN {"a", "b", "c", "n"} ELSE {"b", "n"}]
\* "A_" is "A" with a blank behind it, "?" is no diagram.
TrimmedChart == [c \in {"A", "A_", "?"} |-> IF c = "?" THEN "?" ELSE "A"]
BlockLanguages == ("p" :> "golang") @@ ("q" :> "go") @@ ("l" :> "lua")
LanguageNames == ("js" :> "javascript") @@ ("golang" :> "go")
LinesUsed == {"ticks", "4 ticks", "tildes", "toc", "math", "admonition", "end", "quote", "list", "heading", "text"}
\* Two builds that follow each other, and one with a file edited after its release.
File(version, sum) == [version |-> version, sum |-> sum]
Builds == [p \in {"old", "new", "edited"} |->
             CASE p = "old" -> <<File("000", "x"), File("001", "x")>>
               [] p = "new" -> <<File("000", "x"), File("001", "x"), File("002", "x")>>
               [] OTHER     -> <<File("000", "x"), File("001", "y")>>]
Line(kind, size, stop) == [kind |-> kind, size |-> size, stop |-> stop]
NoteLines == {Line("text", 2, 0), Line("text", 5, 2), Line("text", 9, 4), Line("blank", 0, 0), Line("#", 1, 0),
              Line("##", 1, 0), Line("ticks", 1, 0), Line("tildes", 1, 0)}

\* The components with proofs come as their proof modules, several at a time, so
\* that the theorems there are about the definitions that run here.
Answers == INSTANCE AnswersProofs WITH
    Notes <- {1, 2}, Tags <- {"t"}, Queries <- {"", "w"}, Hits <- NoteHits, Tagged <- {1},
    Used <- NoteTags, PageSize <- 1, Toggles <- {<<1, "star">>}, MaxLate <- 1,
    CutBodies <- TRUE,
    filter <- v1, wait <- v2, list <- v3, late <- v4, sem <- v5, flags <- v6, puts <- v7,
    asked <- v8,
    LinkDocs <- {1, 2}, Others <- {1, 2}, LinkPage <- 1, MaxClock <- 3,
    doc <- v1, links <- v2, meta <- v3, refreshReq <- v4, moreReq <- v5, world <- v6,
    clock <- v7, saved <- v8, heard <- v9, readAt <- v10,
    MaxComments <- 5, CommentPage <- 2, Protected <- TRUE,
    gate <- v1, comments <- v2, reading <- v3, posting <- v4, draft <- v5, posted <- v6,
    beside <- v7, top <- v8, replies <- v9, replyReq <- v10, replyPost <- v11,
    target <- v12, replyDraft <- v13, replied <- v14,
    WikiLinks <- {"w"}, IDLinks <- {"i", "j"}, MaxHovers <- 3, Charts <- {"A", "A_", "?"},
    Trimmed <- TrimmedChart, Invalid <- {"?"}, MaxDrawings <- 3, MaxFrames <- 1,
    MaxZoom <- 1,
    pointer <- v1, popover <- v2, hoverTimer <- v3, hoverID <- v4, hovers <- v5,
    snippets <- v6, opening <- v7, chart <- v8, drawn <- v9, drawings <- v10,
    svgCache <- v11, drawingNo <- v12, modal <- v13, copies <- v14,
    ImportNotes <- {1, 2}, ImportWorkers <- {"w1", "w2"}, MaxAttempts <- 2,
    flow <- v1, request <- v2, job <- v3, noteRows <- v4, library <- v5, worker <- v6,
    written <- v7, export <- v8
Catalogs == INSTANCE CatalogProofs WITH
    AssetHits <- Found, AssetKind <- AssetKinds, AssetPage <- 1, PDFPages <- 2,
    MaxMounts <- 3, MaxViews <- 2,
    shelf <- v1, pageReqs <- v2, cited <- v3, citeReqs <- v4, shown <- v5, probe <- v6,
    heads <- v7, media <- v8, pdf <- v9, held <- v10, paints <- v11, mounts <- v12,
    views <- v13,
    TagHits <- TagFinds, TagOrder <- <<"a", "b", "c">>, NewTags <- {"n"}, TagPage <- 2,
    TagsVanish <- TRUE, MaxPins <- 1,
    rows <- v1, listing <- v2, gets <- v3, removing <- v4, pinned <- v5, side <- v6,
    sideGet <- v7, pins <- v8, chosen <- v9, index <- v10,
    TemplateIDs <- {"a", "c"}, Spare <- "c", MaxEdits <- 2,
    CatalogPage <- 1, Matching <- Found,
    templates <- v1, selectedID <- v2, loaded <- v3, content <- v4, details <- v5,
    detail <- v6, saving <- v7, guard <- v8, posts <- v9, removal <- v10, modal <- v11,
    edits <- v12, typed <- v13, catalog <- v14, lists <- v15,
    Months <- {3, 4, 5}, ThisMonth <- 4, Radius <- 0, Batch <- 1, MaxTodos <- 1,
    MaxWrites <- 2,
    cal <- v1, load <- v2, fetch <- v3, todos <- v4, forms <- v5, writes <- v6,
    stored <- v7, issued <- v8, doubt <- v9
Forms == INSTANCE FormsProofs WITH
    TagNames <- {"a", "ab"}, Matches <- TagMatches, MAX_TAGS <- 1, MaxTagSaves <- 2,
    MaxAdding <- 1,
    field <- v1, lookups <- v2, adding <- v3, picked <- v4, known <- v5, puts <- v6,
    tagRows <- v7, docTags <- v8, asked <- v9, newest <- v10, unsure <- v11,
    MaxShares <- 2, MaxCalls <- 2,
    shares <- v1, calls <- v2, docLock <- v3, activeShare <- v4, form <- v5, loaded <- v6,
    last <- v7, secured <- v8, takenBack <- v9,
    Contents <- NoteTexts, MaxRevisions <- 3, ByVersionID <- TRUE,
    note <- v1, version <- v2, compared <- v3, reads <- v4, restore <- v5,
    Typed <- {"x", "xy"}, Documents <- {"a", "b"}, MaxAsked <- 2,
    quick <- v1, searches <- v2, recents <- v3, wiki <- v4, wikiAsks <- v5, inserted <- v6,
    peek <- v7, wanted <- v8, peeks <- v9, similar <- v10, asks <- v11, rail <- v12,
    preference <- v13, isDocked <- v14,
    Dialogs <- {"d1", "d2", "d3"}, Policy <- ClosePolicy, Triggers <- {"a", "b"},
    ReturnTo <- DialogTriggers, Messages <- {"m", "n"}, MaxToasts <- 3, Menus <- {"x", "y"},
    Entries <- MenuEntries,
    stack <- v1, busy <- v2, restoreFocus <- v3, timers <- v4, order <- v5, focus <- v6,
    lock <- v7, origin <- v8, strayed <- v9, toasts <- v10, clocks <- v11, hovered <- v12,
    focused <- v13, shown <- v14, openMenu <- v15, submenu <- v16, item <- v17,
    Markers <- <<<<1, 0>>, <<3, 4>>>>, Heads <- <<1, 3>>, Lines <- 3, PreviewMax <- 4,
    MaxGestures <- 3, MaxSettle <- 3,
    editor <- v1, preview <- v2, events <- v3, queue <- v4, running <- v5, phase <- v6,
    scrollingSource <- v7, suppress <- v8, work <- v9, measure <- v10, glide <- v11, toc <- v12,
    enabled <- v13, reduced <- v14, clicked <- v15, gestures <- v16
Services == INSTANCE ServicesProofs WITH
    FileKeys <- {"k", "l"},
    rows <- v1, objects <- v2, uploads <- v3, cleanup <- v4, cited <- v5, overtaken <- v6,
    Workers <- {"a", "b"}, Jobs <- {"i", "j"}, MaxHandlers <- 2,
    main <- v1, ready <- v2, handlers <- v3, canceled <- v4, workers <- v5, cron <- v6,
    running <- v7, runs <- v8, errors <- v9,
    Processes <- {"old", "new", "edited"}, Build <- Builds, MaxStarts <- 2,
    ledger <- v1, schema <- v2, holder <- v3, process <- v4,
    Callers <- {"c", "d"}, Texts <- {"s", "t"}, Endpoints <- <<"p">>, CircuitLimit <- 2,
    CircuitDelay <- 3, Timeout <- 1, RetryAfters <- {1, 3}, MaxClock <- 3, MaxCalls <- 2,
    clock <- v1, circuits <- v2, cooldowns <- v3, cached <- v4, calls <- v5, leaders <- v6,
    answered <- v7, streaks <- v8, spared <- v9
Fallbacks == INSTANCE ServicesProofs WITH
    FileKeys <- {"k", "l"},
    rows <- v1, objects <- v2, uploads <- v3, cleanup <- v4, cited <- v5, overtaken <- v6,
    Workers <- {"a", "b"}, Jobs <- {"i", "j"}, MaxHandlers <- 2,
    main <- v1, ready <- v2, handlers <- v3, canceled <- v4, workers <- v5, cron <- v6,
    running <- v7, runs <- v8, errors <- v9,
    Processes <- {"old", "new", "edited"}, Build <- Builds, MaxStarts <- 2,
    ledger <- v1, schema <- v2, holder <- v3, process <- v4,
    Callers <- {"c", "d"}, Texts <- {"s"}, Endpoints <- <<"p", "q">>, CircuitLimit <- 2,
    CircuitDelay <- 4, Timeout <- 1, RetryAfters <- {3}, MaxClock <- 3, MaxCalls <- 2,
    clock <- v1, circuits <- v2, cooldowns <- v3, cached <- v4, calls <- v5, leaders <- v6,
    answered <- v7, streaks <- v8, spared <- v9
Accounts == INSTANCE Account WITH
    Clients <- {1, 2}, MaxCodes <- 2, Owners <- {"A", "B"}, MaxTokens <- 2,
    MaxExchanges <- 1, Providers <- {"github", "google"},
    mails <- v1, user <- v2, signup <- v3, stored <- v4, tokens <- v5, exchanges <- v6,
    tabs <- v7, account <- v8, settings <- v9
Runs == INSTANCE CodeRuns WITH
    Blocks <- {"p", "q", "l"}, LanguageOf <- BlockLanguages, Alias <- LanguageNames,
    Fetched <- {"go", "lua"}, Sequential <- {"lua"}, MaxRuns <- 2,
    sandboxes <- v1, envs <- v2, workers <- v3, listeners <- v4, programs <- v5,
    posted <- v6, started <- v7
Pipe == INSTANCE MarkdownPipeline WITH 
    LineKinds <- LinesUsed, MaxLines <- 4, Headings <- {"a", "b", "a-1"},
    document <- v1, lines <- v2, pass <- v3, titles <- v4
Chunking == INSTANCE Chunker WITH 
    NoteLines <- NoteLines, MaxLines <- 4, TitleSizes <- {0, 2}, TargetUnits <- 8,
    HardUnits <- 10, OverlapUnits <- 2, PrefixLimit <- 4,
    title <- v1, note <- v2, chunks <- v3

(***************************************************************************)
(* One part open                                                           *)
(***************************************************************************)

\* The variables that a page with fewer than 17 leaves over, and what they hold.
Rest17 == <<v17>>
Rest16 == <<v16, Rest17>>
Rest15 == <<v15, Rest16>>
Rest14 == <<v14, Rest15>>
Rest13 == <<v13, Rest14>>
Rest12 == <<v12, Rest13>>
Rest11 == <<v11, Rest12>>
Rest10 == <<v10, Rest11>>
Rest9 == <<v9, Rest10>>
Rest8 == <<v8, Rest9>>
Rest7 == <<v7, Rest8>>
Rest6 == <<v6, Rest7>>
Rest5 == <<v5, Rest6>>
Rest4 == <<v4, Rest5>>
Blank17 == v17 = 0
Blank16 == v16 = 0 /\ Blank17
Blank15 == v15 = 0 /\ Blank16
Blank14 == v14 = 0 /\ Blank15
Blank13 == v13 = 0 /\ Blank14
Blank12 == v12 = 0 /\ Blank13
Blank11 == v11 = 0 /\ Blank12
Blank10 == v10 = 0 /\ Blank11
Blank9 == v9 = 0 /\ Blank10
Blank8 == v8 = 0 /\ Blank9
Blank7 == v7 = 0 /\ Blank8
Blank6 == v6 = 0 /\ Blank7
Blank5 == v5 = 0 /\ Blank6
Blank4 == v4 = 0 /\ Blank5

NoTables == /\ db = [t \in Tables |-> IF t = "doc" THEN [state |-> "deleted", hash |-> "h1", revision |-> 1] ELSE NoRow]
            /\ lock = 0 /\ write = 0 /\ pc = 0 /\ snap = 0 /\ shared = 0 /\ gen = 0 /\ claim = 0 /\ ran = 0
NoPage == v1 = 0 /\ v2 = 0 /\ v3 = 0 /\ Blank4
PageInit ==
  \/ part = "docs" /\ Answers!DocsInit /\ Blank9
  \/ part = "links" /\ Answers!LinksInit /\ Blank11
  \/ part = "todos" /\ Catalogs!TodoInit /\ Blank10
  \/ part \in {"dialogs", "toasts", "menus"} /\ Forms!DialogInit /\ Forms!ToastInit /\ Forms!MenuInit
  \/ Answers!ShareInit /\ Answers!ReplyInit /\ Blank15 /\ ((part = "share" /\ v14 = 0) \/ (part = "replies" /\ v6 = 0))
  \/ part \in {"templates", "catalog"} /\ Catalogs!EditorStart /\ Catalogs!CatalogInit /\ Blank16
  \/ part \in {"assets", "preview"} /\ Catalogs!AssetsInit /\ Catalogs!PreviewInit /\ Blank14
  \/ part = "revert" /\ Forms!RevertInit /\ Blank6
  \/ part = "tags" /\ Forms!TagInit /\ Blank12 /\ v7 \subseteq {"a"}
  \/ /\ Catalogs!TagPageInit /\ Catalogs!SideInit /\ Catalogs!ChooserInit /\ Blank11
     /\ part \in {"tag page", "sidebar"} /\ v9.current = "all"
  \/ /\ Catalogs!TagPageInit /\ Catalogs!ChooserInit /\ Blank11 /\ part = "chooser"
     /\ v5 = {} /\ v6 = Catalogs!SideListed /\ v7 = Catalogs!NoGet /\ v8 = {}
  \/ part \in {"hover", "diagram"} /\ Answers!HoverInit /\ Answers!DiagramInit /\ Blank15 /\ (part = "hover" => v8 = "A")
  \/ part = "pipeline" /\ Pipe!PipelineInit /\ Blank5
  \/ part = "scroll" /\ Forms!ScrollInit /\ Blank17
  \/ part = "share tab" /\ Forms!ShareTabInit /\ Blank10
  \/ /\ Forms!QuickInit /\ Forms!WikiInit /\ Forms!PeekInit /\ Forms!RailInit /\ Blank15
     /\ \/ part \in {"quick open", "wikilink"} /\ v10.doc = "a" /\ v13 /\ v14
        \/ part = "peek" /\ v13 /\ v14
        \/ part = "rail" /\ v10.doc = "a"
  \/ part = "uploads" /\ Services!UploadsInit /\ Blank7
  \/ part = "server" /\ Services!LifeInit /\ Blank10
  \/ part = "migrations" /\ Services!MigrationsInit /\ Blank5
  \/ part = "provider" /\ Services!ProvidersInit /\ Blank10
  \/ part = "fallback" /\ Fallbacks!ProvidersInit /\ Blank10
  \/ part = "chunker" /\ Chunking!ChunkerInit /\ Blank4
  \/ part \in {"import", "export"} /\ Answers!ImportInit /\ Answers!ExportInit /\ Blank9
  \/ /\ Accounts!RegisterInit /\ Accounts!SessionInit /\ Accounts!SettingsInit /\ Blank10
     /\ (part \in {"register", "session"} /\ v8.password /\ v8.bound = {}) \/ part = "settings"
  \/ part = "runs" /\ Runs!RunInit /\ Blank8
Init ==
  \/ PageInit /\ NoTables
  \/ part = "tables" /\ TxInit /\ NoPage

DocumentList == part = "docs" /\ Answers!DocsNext /\ UNCHANGED <<part, txVars, Rest9>>
LinksPanel == part = "links" /\ Answers!LinksNext /\ UNCHANGED <<part, txVars, Rest11>>
TodoPage == part = "todos" /\ Catalogs!TodoNext /\ UNCHANGED <<part, txVars, Rest10>>
DialogStack == part = "dialogs" /\ Forms!DialogNext /\ UNCHANGED <<part, txVars, v10, v11, v12, v13, v14, v15, v16, v17>>
Toasts == part = "toasts" /\ Forms!ToastNext /\ UNCHANGED <<part, txVars, v1, v2, v3, v4, v5, v6, v7, v8, v9, v14, v15, v16, v17>>
DropdownMenus == part = "menus" /\ Forms!MenuNext /\ UNCHANGED <<part, txVars, v1, v2, v3, v4, v5, v6, v7, v8, v9, v10, v11, v12, v13>>
SharedNote == part = "share" /\ Answers!ShareNext /\ UNCHANGED <<part, txVars, v9, v10, v11, v12, v13, v14, Rest15>>
CommentReplies == part = "replies" /\ Answers!ReplyNext /\ UNCHANGED <<part, txVars, v1, v2, v3, v4, v5, v6, v7, v8, Rest15>>
TemplatePage == part = "templates" /\ Catalogs!EditorStep /\ UNCHANGED <<part, txVars, v14, v15, Rest16>>
TemplateCatalog == part = "catalog" /\ Catalogs!CatalogNext /\ UNCHANGED <<part, txVars, v1, v2, v3, v4, v5, v6, v7, v8, v9, v10, v11, v12, v13, Rest16>>
AssetPage == part = "assets" /\ Catalogs!AssetsNext /\ UNCHANGED <<part, txVars, v5, v6, v7, v8, v9, v10, v11, v12, v13, Rest14>>
AssetPreview == part = "preview" /\ Catalogs!PreviewNext /\ UNCHANGED <<part, txVars, v1, v2, v3, v4, Rest14>>
Comparison == part = "revert" /\ Forms!RevertNext /\ UNCHANGED <<part, txVars, Rest6>>
TagField == part = "tags" /\ Forms!TagNext /\ UNCHANGED <<part, txVars, Rest12>>
TagManagement == part = "tag page" /\ Catalogs!TagPageNext /\ UNCHANGED <<part, txVars, v5, v6, v7, v8, v9, v10, Rest11>>
SidebarTags == part = "sidebar" /\ Catalogs!SideNext /\ UNCHANGED <<part, txVars, v1, v2, v3, v4, v9, v10, Rest11>>
TagChooser == part = "chooser" /\ Catalogs!ChooserNext /\ UNCHANGED <<part, txVars, v1, v2, v3, v4, v5, v6, v7, v8, Rest11>>
HoverCard == part = "hover" /\ Answers!HoverNext /\ UNCHANGED <<part, txVars, v8, v9, v10, v11, v12, v13, v14, Rest15>>
Diagrams == part = "diagram" /\ Answers!DiagramNext /\ UNCHANGED <<part, txVars, v1, v2, v3, v4, v5, v6, v7, Rest15>>
Preview == part = "pipeline" /\ Pipe!PipelineNext /\ UNCHANGED <<part, txVars, Rest5>>
Scrolling == part = "scroll" /\ Forms!ScrollNext /\ UNCHANGED <<part, txVars, Rest17>>
ShareTab == part = "share tab" /\ Forms!ShareTabNext /\ UNCHANGED <<part, txVars, Rest10>>
QuickOpen == part = "quick open" /\ Forms!QuickNext /\ UNCHANGED <<part, txVars, v4, v5, v6, v7, v8, v9, v10, v11, v12, v13, v14, Rest15>>
WikilinkMenu == part = "wikilink" /\ Forms!WikiNext /\ UNCHANGED <<part, txVars, v1, v2, v3, v7, v8, v9, v10, v11, v12, v13, v14, Rest15>>
DocumentPeek == part = "peek" /\ Forms!PeekNext /\ UNCHANGED <<part, txVars, v1, v2, v3, v4, v5, v6, v12, v13, v14, Rest15>>
SideRail == part = "rail" /\ Forms!RailNext /\ UNCHANGED <<part, txVars, v1, v2, v3, v4, v5, v6, v7, v8, v9, v10, v11, Rest15>>
AssetRows == part = "uploads" /\ Services!UploadsNext /\ UNCHANGED <<part, txVars, Rest7>>
ServerProcess == part = "server" /\ Services!LifeNext /\ UNCHANGED <<part, txVars, Rest10>>
SchemaMigrations == part = "migrations" /\ Services!MigrationsNext /\ UNCHANGED <<part, txVars, Rest5>>
OneProvider == part = "provider" /\ Services!ProvidersNext /\ UNCHANGED <<part, txVars, Rest10>>
TwoProviders == part = "fallback" /\ Fallbacks!ProvidersNext /\ UNCHANGED <<part, txVars, Rest10>>
NoteChunks == part = "chunker" /\ Chunking!ChunkerNext /\ UNCHANGED <<part, txVars, Rest4>>

Importing == part = "import" /\ Answers!ImportNext /\ UNCHANGED <<part, txVars, Rest8>>
Exporting == part = "export" /\ Answers!ExportNext /\ UNCHANGED <<part, txVars, v1, v2, v3, v4, v5, v6, v7, Rest9>>
Registering == part = "register" /\ Accounts!RegisterNext /\ UNCHANGED <<part, txVars, Rest4>>
SigningIn == part = "session" /\ Accounts!SessionNext /\ UNCHANGED <<part, txVars, v1, v2, v3, Rest8>>
AccountSettings == part = "settings" /\ Accounts!SettingsNext /\ UNCHANGED <<part, txVars, v1, v2, v3, v4, v5, v6, v7, Rest10>>
CodeBlocks == part = "runs" /\ Runs!RunNext /\ UNCHANGED <<part, txVars, Rest8>>
Transactions == part = "tables" /\ TxNext /\ UNCHANGED <<part, v1, v2, v3, Rest4>>

Next ==
  \/ DocumentList
  \/ LinksPanel
  \/ TodoPage
  \/ DialogStack
  \/ Toasts
  \/ DropdownMenus
  \/ SharedNote
  \/ CommentReplies
  \/ TemplatePage
  \/ TemplateCatalog
  \/ AssetPage
  \/ AssetPreview
  \/ Comparison
  \/ TagField
  \/ TagManagement
  \/ SidebarTags
  \/ TagChooser
  \/ HoverCard
  \/ Diagrams
  \/ Preview
  \/ Scrolling
  \/ ShareTab
  \/ QuickOpen
  \/ WikilinkMenu
  \/ DocumentPeek
  \/ SideRail
  \/ AssetRows
  \/ ServerProcess
  \/ SchemaMigrations
  \/ OneProvider
  \/ TwoProviders
  \/ NoteChunks
  \/ Importing
  \/ Exporting
  \/ Registering
  \/ SigningIn
  \/ AccountSettings
  \/ CodeBlocks
  \/ Transactions
Spec == Init /\ [][Next]_pageVars
\* The page of the templates alone.
TemplateSpec == (Init /\ part = "templates") /\ [][TemplatePage]_pageVars

(***************************************************************************)
(* Properties                                                              *)
(***************************************************************************)

\* Every part keeps its types.
PagesTypeOK ==
  /\ part = "docs" => Answers!DocsTypeOK
  /\ part = "links" => Answers!LinksTypeOK
  /\ part = "todos" => Catalogs!TodoTypeOK
  /\ part \in {"dialogs", "toasts", "menus"} => Forms!OverlaysTypeOK
  /\ part \in {"share", "replies"} => Answers!ShareTypeOK
  /\ part \in {"templates", "catalog"} => Catalogs!TemplatesTypeOK
  /\ part \in {"assets", "preview"} => Catalogs!AssetsTypeOK
  /\ part = "revert" => Forms!RevertTypeOK
  /\ part = "tags" => Forms!TagTypeOK
  /\ part \in {"tag page", "sidebar", "chooser"} => Catalogs!TagPagesTypeOK
  /\ part \in {"hover", "diagram"} => Answers!PreviewTypeOK
  /\ part = "scroll" => Forms!ScrollTypeOK
  /\ part = "share tab" => Forms!ShareTabTypeOK
  /\ part \in {"quick open", "wikilink", "peek", "rail"} => Forms!MenusTypeOK
  /\ part = "uploads" => Services!UploadsTypeOK
  /\ part = "server" => Services!LifeTypeOK
  /\ part = "migrations" => Services!MigrationsTypeOK
  /\ part = "provider" => Services!ProvidersTypeOK
  /\ part = "fallback" => Fallbacks!ProvidersTypeOK
  /\ part = "tables" => TablesTypeOK
  /\ part \in {"import", "export"} => Answers!ImportTypeOK
  /\ part \in {"register", "session", "settings"} => Accounts!AccountTypeOK
  /\ part = "runs" => Runs!CodeRunsTypeOK

\* No part waits for nobody: whatever shows that it loads, or refuses an action
\* because one is under way, has the request or the timer that will end it
\* (each hook clears its flags in another way: finally, a request number, a ref).
NothingStuck ==
  /\ part = "docs" => Answers!NeverStuckLoading
  /\ part = "links" => Answers!LinksNeverStuck
  /\ part \in {"share", "replies"} => Answers!ShareNeverStuck
  /\ part \in {"assets", "preview"} => Catalogs!PreviewSettles
  /\ part \in {"hover", "diagram"} => Answers!HoverNeverStuck
  /\ part \in {"quick open", "wikilink", "peek", "rail"} => Forms!MenusNeverStuck
  /\ part = "provider" => Services!WaitersHaveLeader
  /\ part = "fallback" => Fallbacks!WaitersHaveLeader
  /\ part \in {"import", "export"} => Answers!ImportNeverStuck

\* What a list, a menu or a detail shows once it is quiet answers the search,
\* the filter or the selection beside it, although older answers come late: but
\* for a page of notes that was cancelled while it waited for its tags, and for
\* the tags beside the list that were read again after a pin with the search of
\* before it (DocsList!OldAnswersStayOut and TagPages!SidebarFollowsSearch say it
\* without). And the links of a note are never called fresh when a save came after
\* their read.
AnswersQuestion ==
  /\ part = "docs" => Answers!ListMatchesFilter
  /\ part = "links" => Answers!FreshIsAfterSave
  /\ part \in {"tag page", "sidebar", "chooser"} => Catalogs!TagListBelongs /\ Catalogs!SidebarMatchesSearch
  /\ part \in {"quick open", "wikilink", "peek", "rail"} => Forms!QuickOpenAnswersQuery /\ Forms!PreviewIsLastAsked
  /\ part \in {"templates", "catalog"} => Catalogs!CatalogMatchesQuery /\ Catalogs!DetailIsCurrent
  /\ part \in {"assets", "preview"} => Catalogs!AssetsBelong
  /\ part \in {"hover", "diagram"} => Answers!DiagramMatchesChart

\* What the reader last did is what remains: the stars and pins of the list, the
\* todos that change before the server agrees but for those written while the list
\* shown was read, the forms that wait for it, and what was typed into a template
\* and not given up, but for what was typed beside a save, a creation or a deletion
\* (TodoCalendar!NoOldListShown and NothingTypedIsLost say it without).
UserChangesStay ==
  /\ part = "docs" => Answers!LastClickWins
  /\ part = "todos" => Catalogs!OptimismSettles /\ Catalogs!FormSurvives
  /\ part \in {"templates", "catalog"} => Catalogs!NoEditLost

\* docs/009:98, "no unsaved content is lost", without that exception: TemplateSpec
\* breaks it.
NothingTypedIsLost == part = "templates" => Catalogs!NothingTypedIsLost

\* Dialogs, toasts and menus that open and close in any order give back what they
\* took: the focus, the scrolling of the page, the corner and the one open menu.
OverlaysHandBack ==
  part \in {"dialogs", "toasts", "menus"} =>
    Forms!FocusHandedBack /\ Forms!PageLockedWhileOpen /\ Forms!OneMenu /\ Forms!ToastsGoAway

\* Pages that grow while others write: the comments of a shared note are all shown
\* and none twice, no page of links is skipped by paging beside a refresh, and
\* neither replies, cards nor documents of PDF.js are doubled.
NothingLostOrDoubled ==
  /\ part \in {"share", "replies"} => Answers!CommentsComplete /\ Answers!RepliesShownOnce
  /\ part = "links" => Answers!NothingSkipped
  /\ part = "docs" => Answers!NoDuplicateCards
  /\ part \in {"assets", "preview"} => Catalogs!OnePDF

\* A restore replaces exactly the content its reader saw on the left.
RevertIsFaithful == [][part = "revert" => Forms!RestoresWhatWasCompared]_pageVars

\* An archive is imported once, however often its job is taken over, crashes or is
\* retried: see ImportFlow.
ImportedOnce == part = "import" => Answers!ImportedOnce

\* A mailed code makes at most one account and is kept while it makes none, the
\* tabs of a browser share one session, and nobody loses the last way to sign in,
\* whatever two clients ask for at once: see Account.
CodeConsumedWithAccount == part = "register" => Accounts!CodeConsumedWithAccount
OneSession == part = "session" => Accounts!OneSession
AlwaysSignIn == part = "settings" => Accounts!AlwaysSignIn

\* A block that somebody listens to stops running, unless its worker could not load,
\* and no block shows the output of another language: see CodeRuns.
RunIsReleased == part = "runs" => Runs!RunIsReleased
LanguagesApart == part = "runs" => Runs!LanguagesApart

\* Scrolling one pane drives the other and not itself, every lock is released,
\* and the outline marks the heading at the top of the preview.
ScrollSettles == part = "scroll" => Forms!NoEcho /\ Forms!LocksAreReleased /\ Forms!ActiveHeadingIsLast

\* The passes of the preview keep every line of a note in its place, code as it
\* is, and the headings those of the outline, also where the table of contents is
\* shown inline; two headings share an anchor only when the text of one is the
\* numbered anchor of another.
PreviewIsFaithful ==
  part = "pipeline" => Pipe!NothingLost /\ Pipe!OutlineMatchesPreview /\ Pipe!CodeStays /\ Pipe!AnchorsDiffer

\* What is made of a text is all of it: the rows of a comparison are the document
\* and the version, in both layouts; every byte is embedded in a chunk that names
\* its section, in order and within the limits.
TextsAreWhole ==
  /\ part = "revert" => Forms!DiffIsFaithful
  /\ part = "chunker" => Chunking!ChunksCoverText /\ Chunking!ChunksFollowText

\* Tags added by name, picked or created settle to what the server has, within
\* the limit although the handler waits in between and saves overlap: unless the
\* answer of one was lost, one failed beside another, or they were applied out of
\* order. The share tab shows the share that visitors meet once its last answer was
\* good and not overtaken, and its password holds unless another update wrote back
\* what it had read before.
FormsAreTruthful ==
  /\ part = "tags" => Forms!TagsSettle /\ Forms!TagCap
  /\ part = "share tab" => Forms!SettingsShowShare /\ Forms!PasswordHolds

\* The store and the assets table, which no transaction joins: an upload that was
\* reported has its row and its object, a file that a note counts has its row, and
\* an object has a row by which it can be removed, whatever step fails, whichever
\* answer is lost and wherever the server stops: unless the cleanup claimed the row
\* while its upload was still at work (AssetUploads!ReadyKeepsObject asks for the
\* object of every ready row).
FilesAreWhole == part = "uploads" => Services!ReadyHasObject /\ Services!NoOrphan

\* A provider that asked for a pause or failed too often gets no new call until the
\* pause is over, and no text is paid for twice when callers ask at once.
ProvidersSpared ==
  /\ part = "provider" => Services!BlockedIsSpared /\ Services!AnsweredOnce
  /\ part = "fallback" => Fallbacks!BlockedIsSpared /\ Fallbacks!AnsweredOnce

\* Processes that start and stop at any point: each migration runs once and in
\* order, none serves a schema its build does not know, nothing uses the database
\* after it is closed, and no job runs beside itself.
ServerStartsAndStops ==
  /\ part = "migrations" => Services!MigratedOnce /\ Services!ServesOwnSchema
  /\ part = "server" => Services!NothingUsedAfterClose /\ Services!OneRunPerJob
==============================================================================
