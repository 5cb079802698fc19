--------------------------- MODULE MCRecordsProofs ---------------------------
(***************************************************************************)
(* The services together.  MCRecords lets one of them take its steps while   *)
(* the others rest, so its behaviours are behaviours of each, and what each  *)
(* promises on its own (RecordProofs, ServiceProofs) holds there.            *)
(***************************************************************************)
EXTENDS MCRecords, RecordProofs, ServiceProofs

\* Every step of the composition is, for each service, one of its steps or none, and the
\* service that is looked at stays.
LEMMA RecordsCompose ==
    /\ RecordsInit => ExplainInit /\ HandleInit /\ UserKeysInit /\ IntakeInit /\ EditInit
    /\ RecordsInit => HarvestInit /\ EngagementInit /\ BriefInit /\ FeedInit /\ SeminarInit
    /\ RecordsInit => BreakersInit /\ FlagsInit /\ HtmlInit
    /\ RecordsInit => SyncInit /\ IdentityInit /\ AnnouncementInit
    /\ RecordsInit => PassportInit /\ RerunInit /\ SessionsInit /\ IndexInit /\ FiguresInit
    /\ [RecordsNext]_recordVars =>
        /\ [ExplainNext]_askVars /\ [HandleNext]_pickVars /\ [UserKeysNext]_keyVars
        /\ [IntakeNext]_intakeVars /\ [EditNext]_editVars
    /\ [RecordsNext]_recordVars =>
        /\ [HarvestNext]_oaiVars /\ [EngagementNext]_engageVars /\ [BriefNext]_briefVars
        /\ [FeedsNext]_feedVars /\ [SeminarNext]_seminarVars
    /\ [RecordsNext]_recordVars =>
        /\ [BreakersNext]_breakerVars /\ [FlagsNext]_flagVars /\ [HtmlNext]_htmlVars
    /\ [RecordsNext]_recordVars =>
        /\ [SyncNext]_syncVars /\ [IdentityNext]_idVars /\ [AnnouncementNext]_bridgeVars
    /\ [RecordsNext]_recordVars =>
        /\ [PassportNext]_passVars /\ [RerunNext]_rerunVars /\ [SessionsNext]_sessVars
        /\ [IndexNext]_indexVars /\ [FiguresNext]_figVars
<1>1. /\ RecordsInit => ExplainInit /\ HandleInit /\ UserKeysInit /\ IntakeInit /\ EditInit
      /\ RecordsInit => HarvestInit /\ EngagementInit /\ BriefInit /\ FeedInit /\ SeminarInit
      /\ RecordsInit => BreakersInit /\ FlagsInit /\ HtmlInit
      /\ RecordsInit => SyncInit /\ IdentityInit /\ AnnouncementInit
      /\ RecordsInit => PassportInit /\ RerunInit /\ SessionsInit /\ IndexInit /\ FiguresInit
    BY DEF RecordsInit
<1>2. UNCHANGED recordVars =>
        /\ UNCHANGED <<askVars, pickVars, keyVars, intakeVars, editVars>>
        /\ UNCHANGED <<oaiVars, engageVars, briefVars, feedVars, seminarVars>>
        /\ UNCHANGED <<breakerVars, flagVars, htmlVars, syncVars, idVars, bridgeVars>>
        /\ UNCHANGED <<passVars, rerunVars, sessVars, indexVars, figVars>>
    BY DEF recordVars, userVars, readVars, writeVars, opsVars
<1>3. RecordsNext =>
        /\ ExplainNext \/ UNCHANGED askVars
        /\ HandleNext \/ UNCHANGED pickVars
        /\ UserKeysNext \/ UNCHANGED keyVars
        /\ IntakeNext \/ UNCHANGED intakeVars
        /\ EditNext \/ UNCHANGED editVars
    BY DEF RecordsNext
<1>4. RecordsNext =>
        /\ HarvestNext \/ UNCHANGED oaiVars
        /\ EngagementNext \/ UNCHANGED engageVars
        /\ BriefNext \/ UNCHANGED briefVars
        /\ FeedsNext \/ UNCHANGED feedVars
        /\ SeminarNext \/ UNCHANGED seminarVars
    BY DEF RecordsNext
<1>5. RecordsNext =>
        /\ BreakersNext \/ UNCHANGED breakerVars
        /\ FlagsNext \/ UNCHANGED flagVars
        /\ HtmlNext \/ UNCHANGED htmlVars
    BY DEF RecordsNext
<1>6. RecordsNext =>
        /\ SyncNext \/ UNCHANGED syncVars
        /\ IdentityNext \/ UNCHANGED idVars
        /\ AnnouncementNext \/ UNCHANGED bridgeVars
    BY DEF RecordsNext
<1>7. RecordsNext =>
        /\ PassportNext \/ UNCHANGED passVars
        /\ RerunNext \/ UNCHANGED rerunVars
        /\ SessionsNext \/ UNCHANGED sessVars
        /\ IndexNext \/ UNCHANGED indexVars
        /\ FiguresNext \/ UNCHANGED figVars
    BY DEF RecordsNext
<1> QED BY <1>1, <1>2, <1>3, <1>4, <1>5, <1>6, <1>7

\* The services implement their specifications side by side.
THEOREM RecordsImplement ==
    RecordsSpec =>
        /\ ExplainSpec /\ HandleSpec /\ UserKeysSpec /\ IntakeSpec /\ EditSpec
        /\ HarvestSpec /\ EngagementSpec /\ BriefSpec /\ FeedsSpec /\ SeminarSpec
        /\ BreakersSpec /\ FlagsSpec /\ HtmlSpec
        /\ SyncSpec /\ IdentitySpec /\ AnnouncementSpec /\ PassportSpec /\ RerunSpec
        /\ SessionsSpec /\ IndexSpec /\ FiguresSpec
BY RecordsCompose, PTL DEF RecordsSpec, ExplainSpec, HandleSpec, UserKeysSpec, IntakeSpec,
   EditSpec, HarvestSpec, EngagementSpec, BriefSpec, FeedsSpec, SeminarSpec,
   BreakersSpec, FlagsSpec, HtmlSpec, SyncSpec, IdentitySpec, AnnouncementSpec,
   PassportSpec, RerunSpec, SessionsSpec, IndexSpec, FiguresSpec

\* The counts, the briefs, the feeds and the pins are as PagesHold says, for all values of
\* the constants (events.ts:24, daily-brief-cron.ts:9, feed-skeleton.ts:11, posts.ts:109).
THEOREM PagesHoldAlways == RecordsSpec => []PagesHold
<1>1. CountedOnce /\ BadgeIsCurrent /\ OneEndorsement /\ BadgeIsModest /\ EveryDayKept
        /\ SnapshotsStay /\ EditionsApart /\ WalksAreComplete /\ OneVersionEach /\ OnePin
        /\ OwnPins => PagesHold
    BY DEF PagesHold
<1> QED BY <1>1, RecordsImplement, EngagementCounts, BriefsKept, FeedsWalk, SeminarPins, PTL

\* The circuits, the dead letters, the flags and the HTML of a version are as OperationsHold
\* says, for all values of the constants (llm/breaker.ts:18, workers/index.ts:63,
\* docs/ops/feature-flags.md:34, routes/papers.ts:664).
THEOREM OperationsHoldAlways == RecordsSpec => []OperationsHold
<1>1. CircuitsKeepApart /\ ProvidersSpared /\ LettersTell /\ EmbeddingFresh /\ FlagsSettle
        /\ KeyNamesPage /\ RequestsAnswered => OperationsHold
    BY DEF OperationsHold
<1> QED BY <1>1, RecordsImplement, OutagesContained, FlagsSettleAlways, HtmlKeepsUp, PTL

\* The passport of a paper, the page and a re-run are as PassportAddsUp says, for all values of
\* the constants (trust-passport.ts:255, trust-passport-bundle.ts:447, papers.ts:160).
THEOREM PassportAddsUpAlways == RecordsSpec => []PassportAddsUp
<1>1. NotGreenIsExplained /\ PageMatchesPassport /\ RerunHolds => PassportAddsUp
    BY DEF PassportAddsUp
<1> QED BY <1>1, RecordsImplement, PassportsExplain, RerunsAgree, PTL

\* What the explainer, the handle field, the keys, the wizard, the editor, the harvester, the
\* profiles, the account links, the bridge, the sessions, the index and the figures promise on
\* their own they promise there.
THEOREM RecordsKeepPromises ==
    RecordsSpec => /\ [](/\ BudgetsHold /\ PickedHandleHolds /\ KeysStayKnown /\ RefusalsExplained
                         /\ SubmissionsHold /\ EditHolds /\ NothingIsLost /\ ProfilesGoForward
                         /\ ChoicesComeBackLate /\ ThreadsAreChains /\ RowNamesThread
                         /\ SubmissionsAreMine /\ AuthorsAct /\ MastodonAsked /\ IndexHolds
                         /\ MarkerTellsFigures /\ HomesKept)
                   /\ LinksRemain
BY RecordsImplement, BudgetsHoldAlways, PickedHandleHoldsAlways, KeysStayKnownAlways,
   RefusalsExplainedAlways, SubmissionsHoldAlways, EditHoldsAlways, HarvestLosesNothing,
   ProfilesSettle, LinksRemainAlways, ThreadsStayWhole, SessionsFindTheirOwn, IndexOfOneText,
   MarkersTell, HomesStay, PTL
=============================================================================
