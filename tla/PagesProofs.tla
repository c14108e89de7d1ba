---------------------------- MODULE PagesProofs ----------------------------
(***************************************************************************)
(* What is proved of the components for all constants, for the instances   *)
(* of MCPages: the properties that its run checks hold of Spec. MCPages    *)
(* instantiates the proof modules, so their theorems are about what it     *)
(* runs; what is left is that one part is open, for good, and that the     *)
(* constants it chooses meet the assumptions of the theorems.              *)
(***************************************************************************)
EXTENDS MCPages, FiniteSetTheorems, SequenceTheorems, TLAPS

-----------------------------------------------------------------------------
(* One part is open, for good.                                              *)

LEMMA OpenPart ==
  ASSUME [Next]_pageVars
  PROVE  /\ part' = part
         /\ part = "uploads" => Services!UploadsNext \/ UNCHANGED <<v1, v2, v3, v4, v5, v6>>
         /\ part = "server" => Services!LifeNext \/ UNCHANGED <<v1, v2, v3, v4, v5, v6, v7, v8, v9>>
         /\ part = "migrations" => Services!MigrationsNext \/ UNCHANGED <<v1, v2, v3, v4>>
         /\ part = "provider" => Services!ProvidersNext \/ UNCHANGED <<v1, v2, v3, v4, v5, v6, v7, v8, v9>>
         /\ part = "fallback" => Fallbacks!ProvidersNext \/ UNCHANGED <<v1, v2, v3, v4, v5, v6, v7, v8, v9>>
         /\ part = "tags" => Forms!TagNext \/ UNCHANGED <<v1, v2, v3, v4, v5, v6, v7, v8, v9, v10, v11>>
         /\ part = "share tab" => Forms!ShareTabNext \/ UNCHANGED <<v1, v2, v3, v4, v5, v6, v7, v8, v9>>
         /\ part = "revert" => Forms!RevertNext \/ UNCHANGED <<v1, v2, v3, v4, v5>>
  BY Zenon DEF Next, pageVars, DocumentList, LinksPanel, TodoPage, DialogStack, Toasts, DropdownMenus, SharedNote, CommentReplies,
         TemplatePage, TemplateCatalog, AssetPage, AssetPreview, Comparison, TagField, TagManagement, SidebarTags, TagChooser,
         HoverCard, Diagrams, Preview, Scrolling, ShareTab, QuickOpen, WikilinkMenu, DocumentPeek, SideRail, AssetRows,
         ServerProcess, SchemaMigrations, OneProvider, TwoProviders, NoteChunks, Importing, Exporting, Registering,
         SigningIn, AccountSettings, CodeBlocks, Transactions

LEMMA OpenPage ==
  ASSUME [Next]_pageVars
  PROVE  /\ part' = part
         /\ part = "docs" => Answers!DocsNext \/ UNCHANGED <<v1, v2, v3, v4, v5, v6, v7, v8>>
         /\ part = "links" => Answers!LinksNext \/ UNCHANGED <<v1, v2, v3, v4, v5, v6, v7, v8, v9, v10>>
         /\ part \in {"share", "replies"} => Answers!ShareNext \/ UNCHANGED <<v1, v2, v3, v4, v5, v6, v7, v8>>
         /\ part \in {"hover", "diagram"} => Answers!HoverNext \/ UNCHANGED <<v1, v2, v3, v4, v5, v6, v7>>
         /\ part \in {"assets", "preview"} => Catalogs!AssetsNext \/ UNCHANGED <<v1, v2, v3, v4>>
         /\ part \in {"assets", "preview"} => Catalogs!PreviewNext \/ UNCHANGED <<v5, v6, v7, v8, v9, v10, v11, v12, v13>>
         /\ part \in {"quick open", "wikilink", "peek", "rail"} => Forms!QuickNext \/ UNCHANGED <<v1, v2, v3>>
         /\ part \in {"quick open", "wikilink", "peek", "rail"} => Forms!PeekNext \/ UNCHANGED <<v7, v8, v9, v10, v11>>
  BY Zenon DEF Next, pageVars, DocumentList, LinksPanel, TodoPage, DialogStack, Toasts, DropdownMenus, SharedNote, CommentReplies,
         TemplatePage, TemplateCatalog, AssetPage, AssetPreview, Comparison, TagField, TagManagement, SidebarTags, TagChooser,
         HoverCard, Diagrams, Preview, Scrolling, ShareTab, QuickOpen, WikilinkMenu, DocumentPeek, SideRail, AssetRows,
         ServerProcess, SchemaMigrations, OneProvider, TwoProviders, NoteChunks, Importing, Exporting, Registering,
         SigningIn, AccountSettings, CodeBlocks, Transactions

LEMMA OpenList ==
  ASSUME [Next]_pageVars
  PROVE  /\ part' = part
         /\ part \in {"tag page", "sidebar", "chooser"} => Catalogs!TagPageNext \/ UNCHANGED <<v1, v2, v3, v4>>
         /\ part \in {"tag page", "sidebar", "chooser"} => Catalogs!SideNext \/ UNCHANGED <<v5, v6, v7, v8>>
         /\ part \in {"templates", "catalog"} =>
              Catalogs!EditorStep \/ UNCHANGED <<v1, v2, v3, v4, v5, v6, v7, v8, v9, v10, v11, v12, v13>>
         /\ part \in {"templates", "catalog"} => Catalogs!CatalogNext \/ UNCHANGED <<v14, v15>>
         /\ part \in {"hover", "diagram"} => Answers!DiagramNext \/ UNCHANGED <<v8, v9, v10, v11, v12, v13, v14>>
         /\ part = "todos" => Catalogs!TodoNext \/ UNCHANGED <<v1, v2, v3, v4, v5, v6, v7, v8, v9>>
  BY Zenon DEF Next, pageVars, DocumentList, LinksPanel, TodoPage, DialogStack, Toasts, DropdownMenus, SharedNote, CommentReplies,
         TemplatePage, TemplateCatalog, AssetPage, AssetPreview, Comparison, TagField, TagManagement, SidebarTags, TagChooser,
         HoverCard, Diagrams, Preview, Scrolling, ShareTab, QuickOpen, WikilinkMenu, DocumentPeek, SideRail, AssetRows,
         ServerProcess, SchemaMigrations, OneProvider, TwoProviders, NoteChunks, Importing, Exporting, Registering,
         SigningIn, AccountSettings, CodeBlocks, Transactions, Rest11, Rest12, Rest13, Rest14, Rest15, Rest16, Rest17

LEMMA FirstPart ==
  ASSUME Init
  PROVE  /\ part = "uploads" => Services!UploadsInit
         /\ part = "server" => Services!LifeInit
         /\ part = "migrations" => Services!MigrationsInit
         /\ part = "provider" => Services!ProvidersInit
         /\ part = "fallback" => Fallbacks!ProvidersInit
         /\ part = "tags" => Forms!TagInit
         /\ part = "share tab" => Forms!ShareTabInit
         /\ part = "revert" => Forms!RevertInit
  BY Zenon DEF Init, PageInit

LEMMA FirstPage ==
  ASSUME Init
  PROVE  /\ part = "docs" => Answers!DocsInit
         /\ part = "links" => Answers!LinksInit
         /\ part \in {"share", "replies"} => Answers!ShareInit
         /\ part \in {"hover", "diagram"} => Answers!HoverInit
         /\ part \in {"assets", "preview"} => Catalogs!AssetsInit /\ Catalogs!PreviewInit
         /\ part \in {"quick open", "wikilink", "peek", "rail"} => Forms!QuickInit /\ Forms!PeekInit
         /\ part \in {"import", "export"} => Answers!ImportInit /\ Answers!ExportInit
  BY Zenon DEF Init, PageInit

LEMMA FirstList ==
  ASSUME Init
  PROVE  /\ part \in {"tag page", "sidebar", "chooser"} => Catalogs!TagPageInit
         /\ part \in {"tag page", "sidebar", "chooser"} =>
              Catalogs!SideInit \/ (v6 = Catalogs!SideListed /\ v7 = Catalogs!NoGet /\ v8 = {})
         /\ part \in {"templates", "catalog"} => Catalogs!EditorStart /\ Catalogs!CatalogInit
         /\ part \in {"hover", "diagram"} => Answers!DiagramInit
         /\ part = "todos" => Catalogs!TodoInit
  BY Zenon DEF Init, PageInit

-----------------------------------------------------------------------------
(* The services of Spec.                                                    *)

LEMMA BuildsAreSound == Services!SoundBuilds
  BY DEF Services!SoundBuilds, Services!FilesOf, Builds, File

OpenUploads == part = "uploads" => Services!UploadsIInv
OpenServer == part = "server" => Services!LifeIInv
OpenMigrations == part = "migrations" => Services!MigrationsIInv

\* FileHandler.persistUpload and AssetCleanupWorker beside the store: whatever step fails,
\* a ready row has its object and an object has a row.
THEOREM PagesFilesAreWhole == Spec => []FilesAreWhole
  <1>1. Init => OpenUploads
    BY Zenon, FirstPart, Services!UploadsStart DEF OpenUploads
  <1>2. OpenUploads /\ [Next]_pageVars => OpenUploads'
    <2> SUFFICES ASSUME OpenUploads, [Next]_pageVars, part = "uploads" PROVE Services!UploadsIInv'
      BY Zenon, OpenPart DEF OpenUploads
    <2>1. [Services!UploadsNext]_(Services!assetVars)
      BY Zenon, OpenPart DEF Services!assetVars
    <2> QED
      BY Zenon, <2>1, Services!UploadsStep DEF OpenUploads
  <1>3. OpenUploads => FilesAreWhole
    BY Zenon, Services!UploadsSound DEF OpenUploads, FilesAreWhole
  <1> QED
    BY <1>1, <1>2, <1>3, PTL DEF Spec

\* The migrator of db.go and App.shutdown: see SchemaMigratedOnce and ShutdownInOrder.
THEOREM PagesServerStartsAndStops == Spec => []ServerStartsAndStops
  <1>1. Init => OpenServer /\ OpenMigrations
    BY Zenon, FirstPart, BuildsAreSound, Services!LifeStart, Services!MigrationsStart
       DEF OpenServer, OpenMigrations
  <1>2. OpenServer /\ [Next]_pageVars => OpenServer'
    <2> SUFFICES ASSUME OpenServer, [Next]_pageVars, part = "server" PROVE Services!LifeIInv'
      BY Zenon, OpenPart DEF OpenServer
    <2>1. [Services!LifeNext]_(Services!lifeVars)
      BY Zenon, OpenPart DEF Services!lifeVars
    <2> QED
      BY Zenon, <2>1, Services!LifeStep DEF OpenServer
  <1>3. OpenMigrations /\ [Next]_pageVars => OpenMigrations'
    <2> SUFFICES ASSUME OpenMigrations, [Next]_pageVars, part = "migrations" PROVE Services!MigrationsIInv'
      BY Zenon, OpenPart DEF OpenMigrations
    <2>1. [Services!MigrationsNext]_(Services!migrationVars)
      BY Zenon, OpenPart DEF Services!migrationVars
    <2> QED
      BY Zenon, <2>1, BuildsAreSound, Services!MigrationsStep DEF OpenMigrations
  <1>4. OpenServer /\ OpenMigrations => ServerStartsAndStops
    BY Zenon, BuildsAreSound, Services!LifeSound, Services!MigrationsSound
       DEF OpenServer, OpenMigrations, ServerStartsAndStops
  <1> QED
    BY <1>1, <1>2, <1>3, <1>4, PTL DEF Spec

LEMMA ProfilesAreSound == Services!SoundProfile /\ Fallbacks!SoundProfile
  BY DEF Services!SoundProfile, Services!Names, Fallbacks!SoundProfile, Fallbacks!Names

OpenProviders == (part = "provider" => Services!ProvidersIInv) /\ (part = "fallback" => Fallbacks!ProvidersIInv)

LEMMA ProvidersBegin == Init => OpenProviders
  BY Zenon, FirstPart, ProfilesAreSound, Services!ProvidersStart, Fallbacks!ProvidersStart
     DEF OpenProviders

LEMMA ProvidersStay == OpenProviders /\ [Next]_pageVars => OpenProviders'
  <1> SUFFICES ASSUME OpenProviders, [Next]_pageVars
               PROVE  (part = "provider" => Services!ProvidersIInv') /\ (part = "fallback" => Fallbacks!ProvidersIInv')
    BY Zenon, OpenPart DEF OpenProviders
  <1>1. part = "provider" => [Services!ProvidersNext]_(Services!providerVars)
    BY Zenon, OpenPart DEF Services!providerVars
  <1>2. part = "fallback" => [Fallbacks!ProvidersNext]_(Fallbacks!providerVars)
    BY Zenon, OpenPart DEF Fallbacks!providerVars
  <1> QED
    BY Zenon, <1>1, <1>2, ProfilesAreSound, Services!ProvidersStep, Fallbacks!ProvidersStep DEF OpenProviders

\* profile_embedder.go and profile_cache.go: see ProvidersLeftAlone.
THEOREM PagesProvidersSpared == Spec => []ProvidersSpared
  <1>1. OpenProviders => ProvidersSpared
    BY Zenon, Services!ProvidersSound, Fallbacks!ProvidersSound DEF OpenProviders, ProvidersSpared
  <1> QED
    BY <1>1, ProvidersBegin, ProvidersStay, PTL DEF Spec

-----------------------------------------------------------------------------
(* The forms of Spec.                                                       *)

OpenForms == (part = "tags" => Forms!TagsIInv) /\ (part = "share tab" => Forms!ShareTabIInv)
OpenRevert == part = "revert" => Forms!RevertIInv

LEMMA TagsAreBounded == Forms!TagsBounded
  <1>1. IsFiniteSet({"a"}) /\ {"a", "ab"} = {"a"} \cup {"ab"}
    BY Zenon, FS_Singleton
  <1>2. IsFiniteSet({"a", "ab"})
    BY <1>1, FS_AddElement
  <1> QED
    BY <1>2 DEF Forms!TagsBounded, Forms!IsFiniteSet, IsFiniteSet

\* useDocumentTags and useShareSettings: see TagsKeepTheCap, TagsSettleInOrder and ShareTabIsTruthful.
THEOREM PagesFormsAreTruthful == Spec => []FormsAreTruthful
  <1>1. Init => OpenForms
    BY Zenon, FirstPart, TagsAreBounded, Forms!TagsStart, Forms!ShareTabStarts DEF OpenForms
  <1>2. OpenForms /\ [Next]_pageVars => OpenForms'
    <2> SUFFICES ASSUME OpenForms, [Next]_pageVars
                 PROVE  (part = "tags" => Forms!TagsIInv') /\ (part = "share tab" => Forms!ShareTabIInv')
      BY Zenon, OpenPart DEF OpenForms
    <2>1. part = "tags" => [Forms!TagNext]_(Forms!tagVars)
      BY Zenon, OpenPart DEF Forms!tagVars
    <2>2. part = "share tab" => [Forms!ShareTabNext]_(Forms!shareTabVars)
      BY Zenon, OpenPart DEF Forms!shareTabVars
    <2> QED
      BY Zenon, <2>1, <2>2, TagsAreBounded, Forms!TagsStep, Forms!ShareTabStep DEF OpenForms
  <1>3. OpenForms => FormsAreTruthful
    <2>1. Forms!ShareTabIInv => Forms!SettingsShowShare /\ Forms!PasswordHolds
      BY Zenon DEF Forms!ShareTabIInv
    <2> QED
      BY Zenon, <2>1, Forms!TagsSound DEF OpenForms, FormsAreTruthful
  <1> QED
    BY <1>1, <1>2, <1>3, PTL DEF Spec

\* page.tsx of the comparison beside DocumentService.Save: see RestoreIsFaithful.
THEOREM PagesRevertIsFaithful == Spec => RevertIsFaithful
  <1>1. Init => OpenRevert
    BY Zenon, FirstPart, Forms!RevertStarts DEF OpenRevert
  <1>2. OpenRevert /\ [Next]_pageVars => OpenRevert'
    <2> SUFFICES ASSUME OpenRevert, [Next]_pageVars, part = "revert" PROVE Forms!RevertIInv'
      BY Zenon, OpenPart DEF OpenRevert
    <2>1. [Forms!RevertNext]_(Forms!revertVars)
      BY Zenon, OpenPart DEF Forms!revertVars
    <2> QED
      BY Zenon, <2>1, Forms!RevertStep DEF OpenRevert
  <1>3. OpenRevert => [part = "revert" => Forms!RestoresWhatWasCompared]_pageVars
    BY Zenon, Forms!RevertSound DEF OpenRevert
  <1> QED
    BY <1>1, <1>2, <1>3, PTL DEF Spec, RevertIsFaithful

OpenMenus == part \in {"quick open", "wikilink", "peek", "rail"} => Forms!QuickIInv /\ Forms!PeekIInv

LEMMA MenusStart == Init => OpenMenus
  BY Zenon, FirstPage, Forms!QuickStarts, Forms!PeekStarts DEF OpenMenus

LEMMA MenusStay == OpenMenus /\ [Next]_pageVars => OpenMenus'
  <1> SUFFICES ASSUME OpenMenus, [Next]_pageVars, part \in {"quick open", "wikilink", "peek", "rail"}
               PROVE  Forms!QuickIInv' /\ Forms!PeekIInv'
    BY Zenon, OpenPage DEF OpenMenus
  <1>1. [Forms!QuickNext]_(Forms!quickVars)
    BY Zenon, OpenPage DEF Forms!quickVars
  <1>2. [Forms!PeekNext]_(Forms!peekVars)
    BY Zenon, OpenPage DEF Forms!peekVars
  <1> QED
    BY Zenon, <1>1, <1>2, Forms!QuickSound, Forms!PeekSound DEF OpenMenus

-----------------------------------------------------------------------------
(* The lists of Spec and what is chosen in them.                            *)

\* The assumptions of CatalogProofs hold of the instance.
LEMMA AssetsAreKnown == Catalogs!AssetKindsKnown
  BY Zenon DEF Catalogs!AssetKindsKnown, AssetKinds

OpenAssets == part \in {"assets", "preview"} => Catalogs!BelongsIInv /\ Catalogs!PreviewIInv

OpenTagLists == part \in {"tag page", "sidebar", "chooser"} => Catalogs!TagListIInv /\ Catalogs!SideIInv
OpenTemplates == part \in {"templates", "catalog"} => Catalogs!CatalogIInv /\ Catalogs!DetailIInv

LEMMA FoundRows ==
  /\ DOMAIN Found = {"", "x"}
  /\ Found[""] = <<"a", "b", "c">> /\ Found["x"] = <<"b">>
  BY DEF Found
LEMMA Distinct ==
  /\ Catalogs!IsInjective(<<"a", "b", "c">>) /\ Catalogs!IsInjective(<<"b">>)
  /\ Catalogs!ToSet(<<"a", "b", "c">>) = {"a", "b", "c"}
  <1>1. Catalogs!IsInjective(<<"b">>)
    BY DEF Catalogs!IsInjective
  <1>2. PICK s : s = <<"a", "b", "c">>
    BY Zenon
  <1>3. DOMAIN s = 1..3 /\ s[1] = "a" /\ s[2] = "b" /\ s[3] = "c"
    BY <1>2
  <1>4. \A i \in 1..3 : i = 1 \/ i = 2 \/ i = 3
    OBVIOUS
  <1>5. Catalogs!IsInjective(s)
    BY <1>3, <1>4 DEF Catalogs!IsInjective
  <1>6. Catalogs!ToSet(s) = {"a", "b", "c"}
    BY <1>3, <1>4 DEF Catalogs!ToSet
  <1> QED
    BY <1>1, <1>2, <1>5, <1>6
LEMMA FoundSound ==
  ASSUME NEW S, "a" \in S, "b" \in S, "c" \in S
  PROVE  \A q \in DOMAIN Found : Found[q] \in Seq(S) /\ Catalogs!IsInjective(Found[q])
  <1>1. <<"a", "b", "c">> \in Seq(S) /\ <<"b">> \in Seq(S)
    OBVIOUS
  <1>2. \A q \in DOMAIN Found : Found[q] = <<"a", "b", "c">> \/ Found[q] = <<"b">>
    BY Zenon DEF Found
  <1> QED
    BY Zenon, <1>1, <1>2, Distinct
LEMMA AssetHitsAreSound == Catalogs!AssetHitsSound
  <1>1. "" \in DOMAIN Found
    BY Zenon, FoundRows
  <1>n. 1 \in Nat \ {0}
    OBVIOUS
  <1>2. "a" \in DOMAIN AssetKinds /\ "b" \in DOMAIN AssetKinds /\ "c" \in DOMAIN AssetKinds
    BY DEF AssetKinds
  <1> QED
    BY Zenon, <1>1, <1>n, <1>2, FoundSound DEF Catalogs!AssetHitsSound
LEMMA MatchingIsSound == Catalogs!MatchingSound
  <1>1. "" \in DOMAIN Found
    BY Zenon, FoundRows
  <1>n. 1 \in Nat \ {0}
    OBVIOUS
  <1>2. \A e \in {"a", "b", "c"} : e \in Catalogs!TemplateRows
    <2>1. {"a", "b", "c"} = Catalogs!ToSet(Found[""])
      BY Zenon, FoundRows, Distinct
    <2> QED
      BY <1>1, <2>1, Zenon DEF Catalogs!TemplateRows
  <1>3. "a" \in Catalogs!TemplateRows /\ "b" \in Catalogs!TemplateRows /\ "c" \in Catalogs!TemplateRows
    BY <1>2
  <1> QED
    BY Zenon, <1>1, <1>n, <1>3, FoundSound DEF Catalogs!MatchingSound
LEMMA TagOrderIsSound == Catalogs!TagOrderSound
  <1>1. "" \in Catalogs!SearchTexts /\ 2 \in Nat \ {0}
    BY DEF TagFinds, Catalogs!SearchTexts
  <1>2. PICK S : S = Catalogs!AllTags
    OBVIOUS
  <1>3. "a" \in S /\ "b" \in S /\ "c" \in S
    BY <1>2, Distinct DEF Catalogs!AllTags
  <1>4. <<"a", "b", "c">> \in Seq(S)
    BY <1>3
  <1> QED
    BY <1>1, <1>2, <1>4, Distinct, Zenon DEF Catalogs!TagOrderSound

LEMMA AssetsBegin == Init => OpenAssets
  BY Zenon, FirstPage, AssetHitsAreSound, Catalogs!BelongsStart, Catalogs!PreviewStarts DEF OpenAssets

LEMMA AssetsStay == OpenAssets /\ [Next]_pageVars => OpenAssets'
  <1> SUFFICES ASSUME OpenAssets, [Next]_pageVars, part \in {"assets", "preview"}
               PROVE  Catalogs!BelongsIInv' /\ Catalogs!PreviewIInv'
    BY Zenon, OpenPage DEF OpenAssets
  <1>1. [Catalogs!AssetsNext]_(Catalogs!assetVars)
    BY Zenon, OpenPage DEF Catalogs!assetVars
  <1>2. [Catalogs!PreviewNext]_(Catalogs!previewVars)
    BY Zenon, OpenPage DEF Catalogs!previewVars
  <1> QED
    BY Zenon, <1>1, <1>2, AssetHitsAreSound, Catalogs!BelongsStep, Catalogs!PreviewSound DEF OpenAssets

LEMMA TagListsBegin == Init => OpenTagLists
  <1> SUFFICES ASSUME Init, part \in {"tag page", "sidebar", "chooser"}
               PROVE  Catalogs!TagListIInv /\ Catalogs!SideIInv
    BY Zenon DEF OpenTagLists
  <1>1. Catalogs!TagListIInv
    BY Zenon, FirstList, TagOrderIsSound, Catalogs!TagListStart
  <1>2. CASE Catalogs!SideInit
    BY Zenon, <1>2, TagOrderIsSound, Catalogs!SideStarts, <1>1
  <1>3. CASE v6 = Catalogs!SideListed /\ v7 = Catalogs!NoGet /\ v8 = {}
    <2>1. <<"a", "b", "c">> \in Seq(Catalogs!AllTags)
      BY Zenon, TagOrderIsSound DEF Catalogs!TagOrderSound
    <2>2. Catalogs!SideIInv
      BY Zenon, <1>3, <2>1, TagOrderIsSound, Catalogs!SideStart DEF Catalogs!SideListed
    <2> QED
      BY Zenon, <1>1, <2>2
  <1> QED
    BY Zenon, <1>2, <1>3, FirstList

LEMMA TagListsStay == OpenTagLists /\ [Next]_pageVars => OpenTagLists'
  <1> SUFFICES ASSUME OpenTagLists, [Next]_pageVars, part \in {"tag page", "sidebar", "chooser"}
               PROVE  Catalogs!TagListIInv' /\ Catalogs!SideIInv'
    BY Zenon, OpenList DEF OpenTagLists
  <1>1. [Catalogs!TagPageNext]_(Catalogs!tagPageVars)
    BY Zenon, OpenList DEF Catalogs!tagPageVars
  <1>2. [Catalogs!SideNext]_(Catalogs!sideVars)
    BY Zenon, OpenList DEF Catalogs!sideVars
  <1> QED
    BY Zenon, <1>1, <1>2, TagOrderIsSound, Catalogs!TagListStep, Catalogs!SideStep DEF OpenTagLists

LEMMA TemplatesBegin == Init => OpenTemplates
  BY Zenon, FirstList, MatchingIsSound, Catalogs!CatalogStart, Catalogs!DetailStart DEF OpenTemplates

LEMMA TemplatesStay == OpenTemplates /\ [Next]_pageVars => OpenTemplates'
  <1> SUFFICES ASSUME OpenTemplates, [Next]_pageVars, part \in {"templates", "catalog"}
               PROVE  Catalogs!CatalogIInv' /\ Catalogs!DetailIInv'
    BY Zenon, OpenList DEF OpenTemplates
  <1>1. [Catalogs!CatalogNext]_(Catalogs!catalogVars)
    BY Zenon, OpenList DEF Catalogs!catalogVars
  <1>2. [Catalogs!EditorStep]_(Catalogs!editorVars)
    BY Zenon, OpenList DEF Catalogs!editorVars
  <1> QED
    BY Zenon, <1>1, <1>2, MatchingIsSound, Catalogs!CatalogStep, Catalogs!DetailStep DEF OpenTemplates

-----------------------------------------------------------------------------
(* What waits, in every part of Spec.                                       *)

LEMMA LinksAreNamed == Answers!Nowhere \notin Answers!Links
  BY Zenon DEF Answers!Nowhere, Answers!Links

OpenLists == /\ part = "docs" => Answers!ListIInv
             /\ part = "links" => Answers!LinksIInv
             /\ part \in {"share", "replies"} => Answers!ShareIInv
             /\ part \in {"hover", "diagram"} => Answers!HoverIInv

LEMMA ChartsAreDrawable == Answers!DrawableTexts
  BY DEF Answers!DrawableTexts, TrimmedChart

OpenDiagrams == part \in {"hover", "diagram"} => Answers!DiagramIInv

LEMMA ListsBegin == Init => OpenLists
  BY Zenon, FirstPage, Answers!ListInit, Answers!LinksStarts,
     Answers!ShareStarts, Answers!HoverStarts DEF OpenLists

LEMMA ListsStay == OpenLists /\ [Next]_pageVars => OpenLists'
  <1> SUFFICES ASSUME OpenLists, [Next]_pageVars
               PROVE  /\ part = "docs" => Answers!ListIInv'
                      /\ part = "links" => Answers!LinksIInv'
                      /\ part \in {"share", "replies"} => Answers!ShareIInv'
                      /\ part \in {"hover", "diagram"} => Answers!HoverIInv'
    BY Zenon, OpenPage DEF OpenLists
  <1>1. part = "docs" => [Answers!DocsNext]_(Answers!docsVars)
    BY Zenon, OpenPage DEF Answers!docsVars
  <1>2. part = "links" => [Answers!LinksNext]_(Answers!linksVars)
    BY Zenon, OpenPage DEF Answers!linksVars
  <1>3. part \in {"share", "replies"} => [Answers!ShareNext]_(Answers!shareVars)
    BY Zenon, OpenPage DEF Answers!shareVars
  <1>4. part \in {"hover", "diagram"} => [Answers!HoverNext]_(Answers!hoverVars)
    BY Zenon, OpenPage DEF Answers!hoverVars
  <1>5. part = "docs" => Answers!ListIInv'
    BY Zenon, <1>1, Answers!ListStep DEF OpenLists
  <1>6. part = "links" => Answers!LinksIInv'
    BY Zenon, <1>2, Answers!LinksSound DEF OpenLists
  <1>7. part \in {"share", "replies"} => Answers!ShareIInv'
    BY Zenon, <1>3, Answers!ShareSound DEF OpenLists
  <1>8. part \in {"hover", "diagram"} => Answers!HoverIInv'
    BY Zenon, <1>4, LinksAreNamed, Answers!HoverSound DEF OpenLists
  <1> QED
    BY Zenon, <1>5, <1>6, <1>7, <1>8

LEMMA OpenDialog ==
  ASSUME [Next]_pageVars
  PROVE  /\ part' = part
         /\ part \in {"import", "export"} => Answers!FlowNext \/ UNCHANGED <<v1, v2, v3, v4, v5, v6, v7, v8>>
  BY Zenon DEF Next, pageVars, DocumentList, LinksPanel, TodoPage, DialogStack, Toasts, DropdownMenus, SharedNote, CommentReplies,
         TemplatePage, TemplateCatalog, AssetPage, AssetPreview, Comparison, TagField, TagManagement, SidebarTags, TagChooser,
         HoverCard, Diagrams, Preview, Scrolling, ShareTab, QuickOpen, WikilinkMenu, DocumentPeek, SideRail, AssetRows,
         ServerProcess, SchemaMigrations, OneProvider, TwoProviders, NoteChunks, Importing, Exporting, Registering,
         SigningIn, AccountSettings, CodeBlocks, Transactions, Rest8, Answers!FlowNext, Answers!exportVars, Answers!importVars

OpenDialogs == part \in {"import", "export"} => Answers!DialogIInv

LEMMA DialogsOpen == Init => OpenDialogs
  BY Zenon, FirstPage, Answers!DialogStarts DEF OpenDialogs

LEMMA DialogsStay == OpenDialogs /\ [Next]_pageVars => OpenDialogs'
  <1> SUFFICES ASSUME OpenDialogs, [Next]_pageVars, part \in {"import", "export"} PROVE Answers!DialogIInv'
    BY Zenon, OpenDialog DEF OpenDialogs
  <1>1. [Answers!FlowNext]_<<Answers!importVars, Answers!exportVars>>
    BY Zenon, OpenDialog DEF Answers!importVars, Answers!exportVars
  <1> QED
    BY Zenon, <1>1, Answers!DialogSteps DEF OpenDialogs

\* Each hook of the pages, the dialogs and the provider clears its flags in another way; no
\* part of Spec shows that it waits, or refuses an action for it, when nothing is under way.
THEOREM PagesNothingStuck == Spec => []NothingStuck
  <1>1. Init => OpenLists /\ OpenAssets /\ OpenMenus
    BY Zenon, ListsBegin, AssetsBegin, MenusStart
  <1>2. Init => OpenProviders /\ OpenDialogs
    BY Zenon, ProvidersBegin, DialogsOpen
  <1>3. OpenLists /\ OpenAssets /\ OpenMenus /\ OpenProviders /\ OpenDialogs => NothingStuck
    <2> SUFFICES ASSUME OpenLists, OpenAssets, OpenMenus, OpenProviders, OpenDialogs PROVE NothingStuck
      OBVIOUS
    <2>1. /\ part = "docs" => Answers!NeverStuckLoading
          /\ part = "links" => Answers!LinksNeverStuck
      BY Zenon, Answers!ListSound DEF OpenLists, Answers!LinksIInv
    <2>2. /\ part \in {"share", "replies"} => Answers!ShareNeverStuck
          /\ part \in {"hover", "diagram"} => Answers!HoverNeverStuck
      BY Zenon DEF OpenLists, Answers!ShareIInv, Answers!HoverIInv
    <2>3. part \in {"assets", "preview"} => Catalogs!PreviewSettles
      BY Zenon, AssetsAreKnown, Catalogs!AssetsSettle DEF OpenAssets, Catalogs!BelongsIInv
    <2>4. part \in {"quick open", "wikilink", "peek", "rail"} => Forms!MenusNeverStuck
      BY Zenon, Forms!MenusSettle DEF OpenMenus
    <2>5. /\ part = "provider" => Services!WaitersHaveLeader
          /\ part = "fallback" => Fallbacks!WaitersHaveLeader
      BY Zenon, Services!ProvidersSound, Fallbacks!ProvidersSound DEF OpenProviders
    <2>6. part \in {"import", "export"} => Answers!ImportNeverStuck
      BY Zenon DEF OpenDialogs, Answers!DialogIInv
    <2> QED
      BY Zenon, <2>1, <2>2, <2>3, <2>4, <2>5, <2>6 DEF NothingStuck
  <1> QED
    BY <1>1, <1>2, <1>3, ListsStay, AssetsStay, MenusStay, ProvidersStay, DialogsStay, PTL DEF Spec

-----------------------------------------------------------------------------
(* What the lists, menus and details of Spec show.                          *)

LEMMA DiagramsBegin == Init => OpenDiagrams
  BY Zenon, FirstList, Answers!DiagramStarts DEF OpenDiagrams

LEMMA DiagramsStay == OpenDiagrams /\ [Next]_pageVars => OpenDiagrams'
  <1> SUFFICES ASSUME OpenDiagrams, [Next]_pageVars, part \in {"hover", "diagram"} PROVE Answers!DiagramIInv'
    BY Zenon, OpenList DEF OpenDiagrams
  <1>1. [Answers!DiagramNext]_(Answers!diagramVars)
    BY Zenon, OpenList DEF Answers!diagramVars
  <1> QED
    BY Zenon, <1>1, ChartsAreDrawable, Answers!DiagramSound DEF OpenDiagrams

\* The hooks number, abort or compare their requests, each in another way; in every part of
\* Spec what is shown once nothing runs answers the question beside it, and the links of a
\* note are never called fresh when a save came after their read.
THEOREM PagesAnswersQuestion == Spec => []AnswersQuestion
  <1>1. Init => OpenLists /\ OpenAssets /\ OpenMenus /\ OpenTagLists /\ OpenTemplates /\ OpenDiagrams
    BY Zenon, ListsBegin, AssetsBegin, MenusStart, TagListsBegin, TemplatesBegin, DiagramsBegin
  <1>2. OpenLists /\ OpenAssets /\ OpenMenus /\ OpenTagLists /\ OpenTemplates /\ OpenDiagrams => AnswersQuestion
    <2> SUFFICES ASSUME OpenLists, OpenAssets, OpenMenus, OpenTagLists, OpenTemplates, OpenDiagrams
                 PROVE  AnswersQuestion
      OBVIOUS
    <2>1. part = "docs" => Answers!ListMatchesFilter
      BY Zenon, Answers!ListSound DEF OpenLists
    <2>2. part = "links" => Answers!FreshIsAfterSave
      BY Zenon DEF OpenLists, Answers!LinksIInv
    <2>3. part \in {"tag page", "sidebar", "chooser"} => Catalogs!TagListBelongs /\ Catalogs!SidebarMatchesSearch
      BY Zenon, Catalogs!TagListSound, Catalogs!SideSound DEF OpenTagLists
    <2>4. part \in {"quick open", "wikilink", "peek", "rail"} => Forms!QuickOpenAnswersQuery /\ Forms!PreviewIsLastAsked
      BY Zenon, Forms!MenusSettle DEF OpenMenus
    <2>5. part \in {"templates", "catalog"} => Catalogs!CatalogMatchesQuery /\ Catalogs!DetailIsCurrent
      BY Zenon, Catalogs!CatalogMatches, Catalogs!DetailSound DEF OpenTemplates
    <2>6. part \in {"assets", "preview"} => Catalogs!AssetsBelong
      BY Zenon, AssetHitsAreSound, Catalogs!BelongsSound DEF OpenAssets
    <2>7. part \in {"hover", "diagram"} => Answers!DiagramMatchesChart
      BY Zenon, Answers!DiagramsMatch DEF OpenDiagrams
    <2> QED
      BY Zenon, <2>1, <2>2, <2>3, <2>4, <2>5, <2>6, <2>7 DEF AnswersQuestion
  <1> QED
    BY <1>1, <1>2, ListsStay, AssetsStay, MenusStay, TagListsStay, TemplatesStay, DiagramsStay, PTL DEF Spec

-----------------------------------------------------------------------------
(* What the reader of Spec changes.                                         *)

LEMMA TogglesAreNamed == Answers!TogglesNamed
  BY DEF Answers!TogglesNamed, Answers!Kinds
LEMMA TemplatesAreKnown == Catalogs!TemplatesKnown
  BY DEF Catalogs!TemplatesKnown

OpenChanges == /\ part = "docs" => Answers!ClicksIInv
               /\ part = "todos" => Catalogs!TodoIInv
               /\ part \in {"templates", "catalog"} => Catalogs!EditIInv

LEMMA ChangesBegin == Init => OpenChanges
  BY Zenon, FirstPage, FirstList, Answers!ClicksStart, Catalogs!TodosStart, Catalogs!EditStarts DEF OpenChanges

LEMMA ChangesStay == OpenChanges /\ [Next]_pageVars => OpenChanges'
  <1> SUFFICES ASSUME OpenChanges, [Next]_pageVars
               PROVE  /\ part = "docs" => Answers!ClicksIInv'
                      /\ part = "todos" => Catalogs!TodoIInv'
                      /\ part \in {"templates", "catalog"} => Catalogs!EditIInv'
    BY Zenon, OpenPage DEF OpenChanges
  <1>1. part = "docs" => Answers!ClicksIInv'
    <2>1. part = "docs" => [Answers!DocsNext]_(Answers!docsVars)
      BY Zenon, OpenPage DEF Answers!docsVars
    <2> QED
      BY Zenon, <2>1, TogglesAreNamed, Answers!ClicksStep DEF OpenChanges
  <1>2. part = "todos" => Catalogs!TodoIInv'
    <2>1. part = "todos" => [Catalogs!TodoNext]_(Catalogs!todoVars)
      BY Zenon, OpenList DEF Catalogs!todoVars
    <2>2. 1 \in Nat
      OBVIOUS
    <2> QED
      BY Zenon, <2>1, <2>2, Catalogs!TodosStep DEF OpenChanges
  <1>3. part \in {"templates", "catalog"} => Catalogs!EditIInv'
    <2>1. part \in {"templates", "catalog"} => [Catalogs!EditorStep]_(Catalogs!editorVars)
      BY Zenon, OpenList DEF Catalogs!editorVars
    <2> QED
      BY Zenon, <2>1, TemplatesAreKnown, Catalogs!EditSteps DEF OpenChanges
  <1> QED
    BY Zenon, <1>1, <1>2, <1>3

\* useDocumentActions, useTodoCalendar and useTemplateEditor: whatever answers late, fails or is
\* taken back, what Spec ends up with is what its reader last did: see LastClicksWin, TodosSettle
\* and TemplateEditsStay.
THEOREM PagesUserChangesStay == Spec => []UserChangesStay
  <1>1. OpenChanges => UserChangesStay
    <2> SUFFICES ASSUME OpenChanges PROVE UserChangesStay
      OBVIOUS
    <2>1. part = "docs" => Answers!LastClickWins
      BY Zenon DEF OpenChanges, Answers!ClicksIInv
    <2>2. part = "todos" => Catalogs!OptimismSettles /\ Catalogs!FormSurvives
      BY Zenon, Catalogs!TodosSound DEF OpenChanges
    <2>3. part \in {"templates", "catalog"} => Catalogs!NoEditLost
      BY Zenon, Catalogs!EditSound DEF OpenChanges
    <2> QED
      BY Zenon, <2>1, <2>2, <2>3 DEF UserChangesStay
  <1> QED
    BY <1>1, ChangesBegin, ChangesStay, PTL DEF Spec

-----------------------------------------------------------------------------
(* What the lists of Spec lose or show twice.                               *)

LEMMA OpenRows ==
  ASSUME [Next]_pageVars
  PROVE  part \in {"share", "replies"} => Answers!ReplyNext \/ UNCHANGED <<v9, v10, v11, v12, v13, v14>>
  BY Zenon DEF Next, pageVars, DocumentList, LinksPanel, TodoPage, DialogStack, Toasts, DropdownMenus, SharedNote, CommentReplies,
         TemplatePage, TemplateCatalog, AssetPage, AssetPreview, Comparison, TagField, TagManagement, SidebarTags, TagChooser,
         HoverCard, Diagrams, Preview, Scrolling, ShareTab, QuickOpen, WikilinkMenu, DocumentPeek, SideRail, AssetRows,
         ServerProcess, SchemaMigrations, OneProvider, TwoProviders, NoteChunks, Importing, Exporting, Registering,
         SigningIn, AccountSettings, CodeBlocks, Transactions

LEMMA FirstRows == ASSUME Init PROVE part \in {"share", "replies"} => Answers!ReplyInit
  BY Zenon DEF Init, PageInit

\* The assumptions of AnswersProofs hold of the instance.
LEMMA NotesAreFinite == Answers!FiniteNotes
  <1>1. {1, 2} \subseteq Nat /\ 1 \in Nat
    OBVIOUS
  <1>2. IsFiniteSet({1, 2})
    <2>1. IsFiniteSet({1}) /\ {1} \cup {2} = {1, 2}
      BY FS_Singleton
    <2> QED
      BY <2>1, FS_AddElement
  <1> QED
    BY Zenon, <1>1, <1>2 DEF Answers!FiniteNotes, Answers!IsFiniteSet, IsFiniteSet
LEMMA LinksAreCounted == Answers!LinkNumbers
  <1>1. 3 \in Nat /\ 1 \in Nat \ {0}
    OBVIOUS
  <1> QED
    BY Zenon, <1>1 DEF Answers!LinkNumbers
LEMMA CommentsAreCounted == 5 \in Nat /\ 2 \in Nat
  OBVIOUS

OpenAnswers == /\ part = "docs" => Answers!CardsIInv
               /\ part = "links" => Answers!CoverIInv
               /\ part \in {"share", "replies"} => Answers!CommentsIInv /\ Answers!RepliesIInv

LEMMA AnswersBegin == Init => OpenAnswers
  BY Zenon, FirstPage, FirstRows, LinksAreCounted, CommentsAreCounted, Answers!CardsStart, Answers!CoverStarts,
     Answers!CommentsStart, Answers!ReplyStarts DEF OpenAnswers

LEMMA AnswersStay == OpenAnswers /\ [Next]_pageVars => OpenAnswers'
  <1> SUFFICES ASSUME OpenAnswers, [Next]_pageVars
               PROVE  /\ part = "docs" => Answers!CardsIInv'
                      /\ part = "links" => Answers!CoverIInv'
                      /\ part \in {"share", "replies"} => Answers!CommentsIInv' /\ Answers!RepliesIInv'
    BY Zenon, OpenPage DEF OpenAnswers
  <1>1. part = "docs" => Answers!CardsIInv'
    <2>1. part = "docs" => [Answers!DocsNext]_(Answers!docsVars)
      BY Zenon, OpenPage DEF Answers!docsVars
    <2> QED
      BY Zenon, <2>1, NotesAreFinite, TogglesAreNamed, Answers!CardSteps DEF OpenAnswers
  <1>2. part = "links" => Answers!CoverIInv'
    <2>1. part = "links" => [Answers!LinksNext]_(Answers!linksVars)
      BY Zenon, OpenPage DEF Answers!linksVars
    <2> QED
      BY Zenon, <2>1, LinksAreCounted, Answers!CoverSteps DEF OpenAnswers
  <1>3. part \in {"share", "replies"} => Answers!CommentsIInv'
    <2>1. part \in {"share", "replies"} => [Answers!ShareNext]_(Answers!shareVars)
      BY Zenon, OpenPage DEF Answers!shareVars
    <2> QED
      BY Zenon, <2>1, CommentsAreCounted, Answers!CommentsSound DEF OpenAnswers
  <1>4. part \in {"share", "replies"} => Answers!RepliesIInv'
    <2>1. part \in {"share", "replies"} => [Answers!ReplyNext]_(Answers!replyVars)
      BY Zenon, OpenRows DEF Answers!replyVars
    <2> QED
      BY Zenon, <2>1, CommentsAreCounted, Answers!ReplySteps DEF OpenAnswers
  <1> QED
    BY Zenon, <1>1, <1>2, <1>3, <1>4

\* useShareComments, CommentItem, useDocumentLinks, useDocsData and PDF.js: lists that grow while
\* others write lose nothing and show nothing twice in Spec: see CommentsAreComplete,
\* RepliesAppearOnce, PagingSkipsNothing, OneCardForEachNote and AssetPageSettles.
THEOREM PagesNothingLostOrDoubled == Spec => []NothingLostOrDoubled
  <1>1. OpenAnswers /\ OpenAssets => NothingLostOrDoubled
    <2> SUFFICES ASSUME OpenAnswers, OpenAssets PROVE NothingLostOrDoubled
      OBVIOUS
    <2>1. part \in {"share", "replies"} => Answers!CommentsComplete /\ Answers!RepliesShownOnce
      BY Zenon, Answers!CommentsAll, Answers!RepliesOnce DEF OpenAnswers
    <2>2. part = "links" => Answers!NothingSkipped
      BY Zenon, Answers!CoverAll DEF OpenAnswers
    <2>3. part = "docs" => Answers!NoDuplicateCards
      BY Zenon, Answers!CardsDiffer DEF OpenAnswers
    <2>4. part \in {"assets", "preview"} => Catalogs!OnePDF
      BY Zenon, AssetsAreKnown, Catalogs!AssetsSettle DEF OpenAssets, Catalogs!BelongsIInv
    <2> QED
      BY Zenon, <2>1, <2>2, <2>3, <2>4 DEF NothingLostOrDoubled
  <1> QED
    BY <1>1, AnswersBegin, AnswersStay, AssetsBegin, AssetsStay, PTL DEF Spec

-----------------------------------------------------------------------------
(* The overlays and the two panes of Spec.                                  *)

LEMMA OpenOverlay ==
  ASSUME [Next]_pageVars
  PROVE  /\ part' = part
         /\ part \in {"dialogs", "toasts", "menus"} => Forms!DialogNext \/ UNCHANGED <<v1, v2, v3, v4, v5, v6, v7, v8, v9>>
         /\ part \in {"dialogs", "toasts", "menus"} => Forms!ToastNext \/ UNCHANGED <<v10, v11, v12, v13>>
         /\ part \in {"dialogs", "toasts", "menus"} => Forms!MenuNext \/ UNCHANGED <<v14, v15, v16, v17>>
         /\ part = "scroll" =>
              Forms!ScrollNext \/ UNCHANGED <<v1, v2, v3, v4, v5, v6, v7, v8, v9, v10, v11, v12, v13, v14, v15, v16>>
  BY Zenon DEF Next, pageVars, DocumentList, LinksPanel, TodoPage, DialogStack, Toasts, DropdownMenus, SharedNote, CommentReplies,
         TemplatePage, TemplateCatalog, AssetPage, AssetPreview, Comparison, TagField, TagManagement, SidebarTags, TagChooser,
         HoverCard, Diagrams, Preview, Scrolling, ShareTab, QuickOpen, WikilinkMenu, DocumentPeek, SideRail, AssetRows,
         ServerProcess, SchemaMigrations, OneProvider, TwoProviders, NoteChunks, Importing, Exporting, Registering,
         SigningIn, AccountSettings, CodeBlocks, Transactions

LEMMA FirstOverlay ==
  ASSUME Init
  PROVE  /\ part \in {"dialogs", "toasts", "menus"} => Forms!DialogInit /\ Forms!ToastInit /\ Forms!MenuInit
         /\ part = "scroll" => Forms!ScrollInit
  BY Zenon DEF Init, PageInit

\* The assumptions of FormsProofs hold of the instance.
LEMMA FocusIsReturned == Forms!FocusReturns
  BY DEF Forms!FocusReturns, DialogTriggers
LEMMA ToastsAreCounted == Forms!SomeToasts
  <1>1. 3 \in Nat \ {0}
    OBVIOUS
  <1> QED
    BY Zenon, <1>1 DEF Forms!SomeToasts
LEMMA PreviewIsMeasured == 4 \in Nat
  OBVIOUS

OpenOverlays == part \in {"dialogs", "toasts", "menus"} => Forms!DialogsIInv /\ Forms!ToastsIInv /\ Forms!MenusIInv
OpenScroll == part = "scroll" => Forms!ScrollIInv

LEMMA OverlaysBegin == Init => OpenOverlays
  BY Zenon, FirstOverlay, ToastsAreCounted, Forms!DialogsBegin, Forms!ToastsBegin, Forms!MenusBegin DEF OpenOverlays

LEMMA OverlaysStay == OpenOverlays /\ [Next]_pageVars => OpenOverlays'
  <1> SUFFICES ASSUME OpenOverlays, [Next]_pageVars, part \in {"dialogs", "toasts", "menus"}
               PROVE  Forms!DialogsIInv' /\ Forms!ToastsIInv' /\ Forms!MenusIInv'
    BY Zenon, OpenOverlay DEF OpenOverlays
  <1>1. [Forms!DialogNext]_(Forms!dialogVars)
    BY Zenon, OpenOverlay DEF Forms!dialogVars
  <1>2. [Forms!ToastNext]_(Forms!toastVars)
    BY Zenon, OpenOverlay DEF Forms!toastVars
  <1>3. [Forms!MenuNext]_(Forms!menuVars)
    BY Zenon, OpenOverlay DEF Forms!menuVars
  <1>4. Forms!DialogsIInv'
    BY Zenon, <1>1, FocusIsReturned, Forms!DialogsSteps DEF OpenOverlays
  <1>5. Forms!ToastsIInv'
    BY Zenon, <1>2, ToastsAreCounted, Forms!ToastsSteps DEF OpenOverlays
  <1>6. Forms!MenusIInv'
    BY Zenon, <1>3, Forms!MenusSteps DEF OpenOverlays
  <1> QED
    BY Zenon, <1>4, <1>5, <1>6

LEMMA ScrollBeginsOpen == Init => OpenScroll
  BY Zenon, FirstOverlay, Forms!ScrollBegins DEF OpenScroll

LEMMA ScrollStays == OpenScroll /\ [Next]_pageVars => OpenScroll'
  <1> SUFFICES ASSUME OpenScroll, [Next]_pageVars, part = "scroll" PROVE Forms!ScrollIInv'
    BY Zenon, OpenOverlay DEF OpenScroll
  <1>1. [Forms!ScrollNext]_(Forms!scrollVars)
    BY Zenon, OpenOverlay DEF Forms!scrollVars
  <1> QED
    BY Zenon, <1>1, Forms!ScrollSteps DEF OpenScroll

\* dialog.tsx, toast.tsx and menu.tsx: overlays that open and close in any order give the page
\* back in Spec: see DialogsGiveBack, NoticesGoAway and MenusTakeTurns.
THEOREM PagesOverlaysHandBack == Spec => []OverlaysHandBack
  <1>1. OpenOverlays => OverlaysHandBack
    BY Zenon, Forms!DialogsHandBack, Forms!ToastsLeave, Forms!MenusAlone DEF OpenOverlays, OverlaysHandBack
  <1> QED
    BY <1>1, OverlaysBegin, OverlaysStay, PTL DEF Spec

\* useScrollSync and the outline: the panes follow the reader and never each other, and the
\* outline marks the heading that is read: see ScrollFollowsTheReader.
THEOREM PagesScrollSettles == Spec => []ScrollSettles
  <1>1. OpenScroll => ScrollSettles
    BY Zenon, PreviewIsMeasured, Forms!ScrollFollows, Forms!ActiveHeadingFound DEF OpenScroll, ScrollSettles
  <1> QED
    BY <1>1, ScrollBeginsOpen, ScrollStays, PTL DEF Spec
=============================================================================
