------------------------------ MODULE MCRecords ------------------------------
(* What is stored and served outside the consolidation: bundles of other      *)
(* stores, local files, patches, procedures, aliases and relations, recall,   *)
(* the write endpoints, imports of chats, of git and of captured sessions,    *)
(* and sessions of MCP; each on its own instance.  The models share no state, *)
(* so a behaviour is that of one of them, chosen at the start.                *)
EXTENDS PortableBundlesProperties, SyncImportProperties, PatchLifecycleProperties,
        Procedures, Semantics, Recall, Intake,
        ChatExportsProperties, GitImport, PccReplay, McpServer, TLC

CONSTANTS
    Parts,          \* of which components there are behaviours
    A, B, f1, k1, tx, ty, src, fact1, fact2, fact3, p1, p2, s1, s2, u1, u2,
    b1, b2, b3, b4, owns, uses

VARIABLE part

MCRestsOn == (tx :> {src}) @@ (ty :> {})

\* The old fact is restated as history, then superseded by the new one.
MCRules == <<[from |-> {fact1}, fact |-> fact2, over |-> {fact1}],
             [from |-> {fact3, fact1}, fact |-> fact3, over |-> {fact1}]>>

\* A success of each of two subjects; one that is not trusted, and a failure.
Episodic(s, good, trusted) == [subject |-> s, way |-> tx, good |-> good, trusted |-> trusted]
MCFirstTold == <<Episodic(s1, TRUE, TRUE), Episodic(s2, TRUE, TRUE)>>
MCTold == Range(MCFirstTold) \cup {Episodic(s1, TRUE, FALSE), Episodic(s2, FALSE, TRUE)}

\* Three subjects of one realm, which call each other different things, and one of another.
MCRealmOf == (b1 :> s1) @@ (b2 :> s1) @@ (b3 :> s1) @@ (b4 :> s2)
MCKeyOf == (b1 :> 1) @@ (b2 :> 2) @@ (b3 :> 3) @@ (b4 :> 1)
Calls(k, s) == [kind |-> "alias", key |-> k, to |-> s, complete |-> TRUE]
Ties(s, type, t) == [kind |-> "relation", from |-> s, type |-> type, to |-> t, complete |-> TRUE]
MCSemanticFiles ==
    {[realm |-> s1, entries |-> <<Calls(u1, b1), Calls(u1, b2), Ties(b1, uses, b2)>>],
     [realm |-> s1, entries |-> <<Calls(u1, b2), Ties(b2, owns, b3), Ties(b3, uses, b1)>>],
     [realm |-> s1, entries |-> <<Ties(b1, uses, b4), Ties(b1, uses, b2), Ties(b1, owns, b3)>>],
     [realm |-> s2, entries |-> <<[Calls(u1, b4) EXCEPT !.complete = FALSE], Calls(u1, b4),
                                  Ties(b4, uses, b1)>>]}

\* A row beyond any budget, a secret one, one that is planned, one that is superseded, and one that
\* comes later and ranks first.
Plain == [secret |-> FALSE, policy |-> "none", temporal |-> "current", from |-> Never, until |-> Never,
          observed |-> Never, invalid |-> Never, hit |-> TRUE, excluded |-> FALSE, cost |-> 1, score |-> 1]
MCKinds == <<[Plain EXCEPT !.score = 4, !.cost = 4],
             [Plain EXCEPT !.secret = TRUE, !.score = 3],
             [Plain EXCEPT !.from = 2, !.hit = FALSE, !.score = 2, !.observed = 0],
             [Plain EXCEPT !.policy = "superseded", !.invalid = 1],
             [Plain EXCEPT !.score = 5, !.cost = 2]>>

\* Messages that are taken, about one topic, another or none, and some that are refused.
Takes(t, x) == [topic |-> t, text |-> x, code |-> "accepted"]
Bans(x) == [topic |-> u1, text |-> x, code |-> "secret_blocked"]
MCRequests == {[kind |-> "turn", messages |-> <<Takes(u1, 1), Bans(2)>>],
               [kind |-> "turn", messages |-> <<Takes(NoTopic, 3), Takes(u2, 4)>>],
               [kind |-> "conclusion", messages |-> <<Bans(5), Takes(u1, 1), Bans(6)>>],
               [kind |-> "checkpoint", messages |-> <<Takes(u2, 4)>>],
               [kind |-> "checkpoint", messages |-> <<Bans(7)>>]}

\* A conversation, the same one later, one of refused messages only, and one of both kinds;
\* in a single file, in shards out of order, twice in two shards, and with a shard missing.
Said(i, k) == [id |-> i, kind |-> k]
Begins1 == [id |-> 1, messages |-> <<Said(1, "turn")>>]
Grows1 == [id |-> 1, messages |-> <<Said(1, "turn"), Said(2, "turn"), Said(3, "other")>>]
Banned2 == [id |-> 2, messages |-> <<Said(1, "rejected")>>]
Mixed3 == [id |-> 3, messages |-> <<Said(1, "turn"), Said(2, "rejected")>>]
Shard(n, talks) == [number |-> n, talks |-> talks]
MCExports == {<<Shard(Legacy, <<Begins1, Banned2>>)>>,
              <<Shard(1, <<Mixed3>>), Shard(0, <<Banned2, Grows1>>)>>,
              <<Shard(0, <<Begins1>>), Shard(1, <<Grows1>>)>>,
              <<Shard(0, <<Begins1>>), Shard(2, <<Mixed3>>)>>}
Whole == [wanted |-> {}, eligible |-> FALSE, most |-> 0, all |-> FALSE]
MCSelections == {Whole, [Whole EXCEPT !.all = TRUE], [Whole EXCEPT !.most = 1, !.eligible = TRUE],
                 [Whole EXCEPT !.wanted = {3}]}

\* Two commits and an item, which is given another trailer before the one it had.
Trailer(t, ok) == [text |-> t, ok |-> ok]
MCCommits == <<<<Trailer(1, TRUE), Trailer(2, TRUE)>>, <<Trailer(3, FALSE), Trailer(1, TRUE)>>>>
MCItems == <<<<<<Trailer(3, TRUE)>>, <<Trailer(4, TRUE), Trailer(3, TRUE)>>>>>>

\* A stream with something the producer keeps back, one that begins where it ended, and one that can
\* never be passed.
Captured(k, x) == [type |-> "record", key |-> k, index |-> x, ours |-> TRUE, safe |-> TRUE]
Withheld(x) == [type |-> "quarantine", ours |-> TRUE, reason |-> "digest-mismatch", index |-> x]
Sums(r, q, x, n) == [type |-> "summary", records |-> r, theirs |-> q, indexes |-> x, next |-> n]
MCStreams ==
    NoCursor :> <<Captured(1, 1), Captured(2, 1), Withheld(2), Captured(3, 3), Sums(3, 1, 3, "c1")>>
    @@ "c1" :> <<Captured(3, 3), Captured(4, 4), Sums(2, 0, 2, "c2")>>
    @@ "c2" :> <<[Captured(5, 5) EXCEPT !.safe = FALSE], Captured(6, 5),
                 [Captured(7, 5) EXCEPT !.ours = FALSE], Sums(3, 0, 1, "end")>>
    @@ "end" :> <<Sums(0, 0, 0, NoCursor)>>

\* Both lifecycles, and what does not fit in either.
Silently == [kind |-> "message", id |-> FALSE, params |-> TRUE, method |-> "tools/call",
           version |-> NoVersion, whole |-> TRUE, asks |-> NoVersion, tool |-> "memory_create", args |-> TRUE]
Calling == [Silently EXCEPT !.id = TRUE]
Greeted == [Calling EXCEPT !.method = "initialize", !.asks = "2025-11-25"]
CallingNow == [Calling EXCEPT !.version = Modern]
MCLines == {[Silently EXCEPT !.kind = "garbled"], Silently, [Silently EXCEPT !.method = "notifications/initialized"],
            Greeted, [Greeted EXCEPT !.asks = Modern], [Greeted EXCEPT !.whole = FALSE],
            Calling, [Calling EXCEPT !.tool = "memory_status"], [Calling EXCEPT !.args = FALSE],
            [Calling EXCEPT !.method = "tools/list"], [Calling EXCEPT !.version = "2024-11-05"],
            CallingNow, [CallingNow EXCEPT !.method = "server/discover"], [CallingNow EXCEPT !.method = "tools/list"],
            [CallingNow EXCEPT !.whole = FALSE]}

\* Nothing tells two callers apart, ...
MCSymmetry == Permutations({p1, p2})

\* ... nor two stores: A has the first object.
FirstInA == (\E n \in Ids : objects[B][n] # Absent) => \E n \in Ids : objects[A][n] # Absent

\* ... nor two files or two chunks: only k1 is in f1, or all is everywhere.
FilesApart == disk[f1] = {k1} \/ disk = [p \in Files |-> Chunks]

RecordsInit ==
    /\ part \in Parts
    /\ BundlesInit /\ SyncInit /\ PatchInit /\ ProceduresInit /\ RecallInit
    /\ IntakeInit /\ ChatsInit /\ SemanticsInit /\ GitInit /\ PccInit /\ McpInit
    /\ part # "bundles" => made = 0
    /\ part # "sessions" => ~writeTools
    /\ IF part = "files" THEN FilesApart ELSE disk = [p \in Files |-> Chunks]
    /\ part = "bundles" => FirstInA

Still(name, v) == part # name => UNCHANGED v

RecordsNext ==
    /\ UNCHANGED part
    /\ Still("bundles", bundleVars) /\ Still("files", syncVars) /\ Still("patches", patchVars)
    /\ Still("procedures", procVars) /\ Still("recall", recallVars)
    /\ Still("intake", intakeVars) /\ Still("chats", chatVars)
    /\ Still("semantics", semanticVars) /\ Still("git", gitVars)
    /\ Still("replay", pccVars) /\ Still("sessions", mcpVars)
    /\ \/ part = "bundles" /\ BundlesNext /\ FirstInA'
       \/ part = "files" /\ SyncNext
       \/ part = "patches" /\ PatchNext
       \/ part = "procedures" /\ ProceduresNext
       \/ part = "recall" /\ RecallNext
       \/ part = "intake" /\ IntakeNext
       \/ part = "chats" /\ ChatsNext
       \/ part = "semantics" /\ SemanticsNext
       \/ part = "git" /\ GitNext
       \/ part = "replay" /\ PccNext
       \/ part = "sessions" /\ McpNext

\* Rows, tables, calls, files and sets have the types their schema declares, in the part that runs.
RecordsTypeOK ==
    /\ part = "bundles" => BundlesTypeOK
    /\ part = "files" => SyncTypeOK
    /\ part = "patches" => PatchTypeOK
    /\ part = "procedures" => ProceduresTypeOK
    /\ part = "recall" => RecallTypeOK
    /\ part = "intake" => IntakeTypeOK
    /\ part = "chats" => ChatsTypeOK
    /\ part = "semantics" => SemanticsTypeOK
    /\ part = "git" => GitTypeOK
    /\ part = "replay" => PccTypeOK
    /\ part = "sessions" => McpTypeOK

\* What arrives in a bundle doubles nothing, says who superseded whom in full, names foreign
\* objects truly, and can be shared again.
BundlesAreTrue ==
    part = "bundles" =>
        NothingIsDuplicated /\ SupersessionTravelsWhole /\ ForeignNamesAreTrue /\ SharedIsReadable

\* A procedure is learned once, from trusted successes of its subject, and enough
\* counter-evidence takes it out of use.
ProceduresAreEarned == WaysAreLearnedOnce /\ EnoughIsQuarantined

\* What is curated can be relied on: procedures are earned, aliases and relations are as they were
\* reported, and of one realm.
CuratedIsTrue ==
    /\ part = "procedures" => ProceduresAreEarned
    /\ part = "semantics" => SemanticsHold

\* A recall accounts for every match once, and shows the best of them; the subjects found over
\* relations are those within reach.
RecallIsTrue ==
    /\ part = "recall" => MatchesAreAccountedOnce /\ BestAreShown
    /\ part = "semantics" => ReachIsExact

\* Rows stand on the evidence that made them, and the answers to clients say what was done, over HTTP
\* as in a session of MCP, which serves nothing before it should.
WritesAreTrue ==
    /\ part = "intake" => RowsStandOnEvidence /\ AnswersAreTrue
    /\ part = "sessions" => SessionsAreOrderly

\* What an importer says it holds it holds, once: git the places it has read, with what was said there,
\* captured sessions their records, and chats, whose turns stay with their home and whose published
\* manifest names what is stored.
ImportsAreKept ==
    /\ part = "git" => GitIsTaken
    /\ part = "replay" => ReceiptsAreTrue
    /\ part = "chats" => TurnsStayHome /\ ManifestIsTrue

RecordsSpec == RecordsInit /\ [][RecordsNext]_<<part, bundleVars, syncVars, patchVars, procVars,
                                               recallVars, intakeVars, chatVars, semanticVars,
                                               gitVars, pccVars, mcpVars>>
=============================================================================
