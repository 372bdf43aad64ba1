------------------------------ MODULE MCDevice ------------------------------
(***************************************************************************)
(* The smaller planes of a device and its server, each explored by itself: *)
(* the initial state picks the part that moves.  The listener of an        *)
(* SDK without stream handlers keeps its own variables; the other parts,   *)
(* of which only one is there at a time, have theirs in x1, x2, ...        *)
(***************************************************************************)
EXTENDS SessionConsumer, TLC

CONSTANTS m1, m2, one, None

VARIABLES part, x1, x2, x3, x4, x5, x6, x7, x8, x9, x10

Connection == INSTANCE Connection WITH Tenants <- {m1, m2}, MaxAttempts <- 3, client <- x1,
    attempts <- x2, runtimes <- x3, teardown <- x4, orphans <- x5
Requests == INSTANCE Requests WITH Payloads <- {m1, m2}, MaxSockets <- 2, MaxCalls <- 3,
    MaxLosses <- 0, peer <- x1, open <- x2, sockets <- x3, calls <- x4, replies <- x5,
    execs <- x6, mem <- x7, table <- x8, losses <- x9
Retries == INSTANCE Requests WITH Payloads <- {m1, m2}, MaxSockets <- 2, MaxCalls <- 2,
    MaxLosses <- 1, peer <- x1, open <- x2, sockets <- x3, calls <- x4, replies <- x5,
    execs <- x6, mem <- x7, table <- x8, losses <- x9
Interactions == INSTANCE Interactions WITH Questions <- {m1, m2}, MaxTurns <- 2, MaxCalls <- 3,
    MaxSockets <- 2, turn <- x1, bridge <- x2, https <- x3, receipt <- x4, active <- x5,
    wire <- x6, delivered <- x7, used <- x8
Provision == INSTANCE Provision WITH MaxTasks <- 3, MaxLosses <- 1, kind <- x1, row <- x2,
    dir <- x3, project <- x4, tasks <- x5, sent <- x6, answers <- x7, removed <- x8,
    blamed <- x9, losses <- x10
Skills == INSTANCE Skills WITH Installs <- {1}, Publishes <- {2}, MaxTasks <- 2, MaxTurns <- 2,
    MaxLosses <- 1, ops <- x1, tasks <- x2, files <- x3, skill <- x4, versions <- x5,
    turns <- x6, gen <- x7, loose <- x8
PiSession == INSTANCE PiSession WITH MaxTurns <- 2, MaxInserts <- 1, MaxSwitches <- 1,
    mode <- x1, session <- x2, turn <- x3, trees <- x4, insertions <- x5
NativeStop == INSTANCE NativeStop WITH Engines <- {m1, m2}, MaxTurns <- 2, MaxLosses <- 1,
    rec <- x1, job <- x2, ask <- x3, row <- x4, held <- x5, turns <- x6, native <- x7,
    flow <- x8, finals <- x9, losses <- x10
WorkflowInputs == INSTANCE WorkflowInputs WITH Inputs <- {one}, Payloads <- {m1, m2},
    MaxTurns <- 2, MaxCalls <- 3, MaxLosses <- 1, run <- x1, turn <- x2, calls <- x3,
    receipts <- x4, jobs <- x5, applied <- x6, losses <- x7
WorkflowReplay == INSTANCE WorkflowReplay WITH Workflows <- 1 .. 3, MaxEvents <- 2,
    PageLimit <- 2, Budget <- 2, Large <- {2}, MaxDamage <- 1, events <- x1, damaged <- x2,
    acked <- x3, cursor <- x4, sent <- x5, missed <- x6
Projects == INSTANCE Projects WITH Namespaces <- {m1, m2}, Paths <- 1 .. 3, MaxOps <- 3,
    owners <- x1, projects <- x2, worktrees <- x3, ops <- x4, dirty <- x5, working <- x6,
    lost <- x7
CliTurn == INSTANCE CliTurn WITH MaxTurns <- 3, kind <- x1, session <- x2, turns <- x3
CodexTurn == INSTANCE CodexTurn WITH MaxTurns <- 2, Inputs <- {one}, Questions <- {one},
    thread <- x1, turns <- x2, chan <- x3, inputs <- x4, asked <- x5, native <- x6, up <- x7,
    down <- x8
GatewayTurn == INSTANCE GatewayTurn WITH MaxTurns <- 2, MaxLosses <- 1, MaxInjects <- 0,
    conn <- x1, session <- x2, turns <- x3, cut <- x4, wire <- x5, replies <- x6, gateway <- x7,
    runs <- x8
Context == INSTANCE GatewayTurn WITH MaxTurns <- 2, MaxLosses <- 0, MaxInjects <- 2, conn <- x1,
    session <- x2, turns <- x3, cut <- x4, wire <- x5, replies <- x6, gateway <- x7, runs <- x8
PeerMail == INSTANCE PeerMail WITH MaxMail <- 3, Large <- {2}, PageLimit <- 2, BatchLimit <- 1,
    MaxTurns <- 1, MaxAsks <- 2, MaxLosses <- 0, mail <- x1, turn <- x2, asks <- x3,
    journal <- x4, flight <- x5, late <- x6, server <- x7, shown <- x8, losses <- x9
Reports == INSTANCE PeerMail WITH MaxMail <- 1, Large <- {1}, PageLimit <- 1, BatchLimit <- 1,
    MaxTurns <- 2, MaxAsks <- 2, MaxLosses <- 1, mail <- x1, turn <- x2, asks <- x3,
    journal <- x4, flight <- x5, late <- x6, server <- x7, shown <- x8, losses <- x9
TurnInput == INSTANCE TurnInput WITH MaxInputs <- 2, BatchLimit <- 2, MaxTurns <- 2,
    MaxAsks <- 2, turn <- x1, inputs <- x2, asks <- x3
PeerHooks == INSTANCE PeerHooks WITH MaxRequests <- 2, MaxTools <- 3, Room <- 4,
    MaxCompactions <- 1, MaxBehind <- 1, kind <- x1, prog <- x2, tools <- x3, stream <- x4,
    runner <- x5, taken <- x6, sent <- x7, told <- x8
PeerRequests == INSTANCE PeerRequests WITH MaxRequests <- 2, MaxCalls <- 2, MaxRuns <- 2,
    kind <- x1, source <- x2, requests <- x3, calls <- x4, runs <- x5
NodeTurns == INSTANCE NodeTurns WITH MaxObjects <- 2, MaxTurns <- 2, kind <- x1, run <- x2,
    row <- x3, known <- x4, sess <- x5, turns <- x6, repo <- x7
Maintenance == INSTANCE Maintenance WITH MaxOps <- 3, MaxOutside <- 1, Retention <- 1,
    MaxCrashes <- 1, file <- x1, queue <- x2, ops <- x3, backups <- x4, outside <- x5,
    crashes <- x6
ProcessTree == INSTANCE ProcessTree WITH MaxForks <- 2, leader <- x1, kids <- x2, forks <- x3,
    term <- x4, timer <- x5, disposed <- x6, forced <- x7, stray <- x8
HermesTurn == INSTANCE HermesTurn WITH MaxTurns <- 2, MaxUser <- 1, MaxLosses <- 0,
    session <- x1, turns <- x2, db <- x3, stopObs <- x4, saved <- x5, user <- x6, losses <- x7
Revived == INSTANCE HermesTurn WITH MaxTurns <- 2, MaxUser <- 0, MaxLosses <- 1,
    session <- x1, turns <- x2, db <- x3, stopObs <- x4, saved <- x5, user <- x6, losses <- x7
GatewayClient == INSTANCE GatewayClient WITH MaxAttempts <- 2, MaxCalls <- 2, MaxCloses <- 1,
    MaxDrops <- 1, client <- x1, attempts <- x2, sockets <- x3, calls <- x4, gateway <- x5,
    closes <- x6, drops <- x7
PythonServer == INSTANCE PythonServer WITH MaxSockets <- 2, MaxEvents <- 2, MaxCalls <- 1,
    kind <- x1, socks <- x2, devices <- x3, calls <- x4, handled <- x5, acked <- x6,
    queued <- x7, session <- x8, raised <- x9
ServerSdk == INSTANCE ServerSdk WITH MaxSockets <- 2, MaxFrames <- 2, MaxCalls <- 1, kind <- x1,
    handler <- x2, socks <- x3, devices <- x4, closing <- x5, busy <- x6, handled <- x7,
    told <- x8, calls <- x9, raised <- x10
Archive == INSTANCE Archive WITH MaxEntries <- 3, MaxBytes <- 4, Files <- {1, 2},
    histories <- x1, archive <- x2, told <- x3, reader <- x4, blob <- x5, written <- x6
Admission == INSTANCE Admission WITH Sources <- {m1, m2}, Paths <- 1 .. 2, MaxOps <- 3,
    MaxAdmits <- 2, MaxReplaced <- 0, rooted <- x1, dirs <- x2, rows <- x3, admits <- x4,
    claims <- x5, projects <- x6, cli <- x7, ops <- x8, sess <- x9, natives <- x10
Consent == INSTANCE Admission WITH Sources <- {m1, m2}, Paths <- 1 .. 2, MaxOps <- 3,
    MaxAdmits <- 1, MaxReplaced <- 1, rooted <- x1, dirs <- x2, rows <- x3, admits <- x4,
    claims <- x5, projects <- x6, cli <- x7, ops <- x8, sess <- x9, natives <- x10
ManagedMcp == INSTANCE ManagedMcp WITH Workers <- {m1, m2}, Bindings <- {1, 2},
    Agents <- {"codex"}, MaxRevision <- 2, MaxUpsets <- 1, MaxConfigures <- 2, file <- x1,
    owner <- x2, consent <- x3, saved <- x4, told <- x5, held <- x6, work <- x7, proxy <- x8,
    spent <- x9
EmployeeProfile == INSTANCE EmployeeProfile WITH Sessions <- {one}, Docs <- {1, 2},
    MaxRevision <- 2, MaxApplies <- 2, MaxTurns <- 1, MaxUpsets <- 1, rec <- x1, dir <- x2,
    home <- x3, op <- x4, child <- x5, look <- x6, sess <- x7, spent <- x8
Compression == INSTANCE Compression WITH Operations <- {1}, MaxTurns <- 2, MaxLosses <- 1,
    kind <- x1, log <- x2, rec <- x3, turns <- x4, op <- x5, receipts <- x6, active <- x7,
    compact <- x8, told <- x9, hist <- x10

(* The listener's variables, when it is not the part that moves. *)
Unheard ==
  /\ seq = None /\ buffer = None /\ acked = None /\ healthy = None /\ rows = None /\ mark = None
  /\ streamSeq = None /\ seen = None /\ log = None /\ lost = None /\ faults = None
  /\ link = None /\ runtime = None /\ toServer = None /\ toDevice = None /\ drops = None
  /\ created = None /\ answered = None /\ registered = None /\ lastSeq = None /\ heard = None
  /\ replays = None

DeviceInit ==
  \/ part = "listener" /\ Init
     /\ x1 = None /\ x2 = None /\ x3 = None /\ x4 = None /\ x5 = None /\ x6 = None /\ x7 = None
     /\ x8 = None /\ x9 = None /\ x10 = None
  \/ part = "connection" /\ Unheard /\ Connection!Init
     /\ x6 = None /\ x7 = None /\ x8 = None /\ x9 = None /\ x10 = None
  \/ part = "requests" /\ Unheard /\ Requests!Init
     /\ x10 = None
  \/ part = "retries" /\ Unheard /\ Retries!Init
     /\ x10 = None
  \/ part = "interactions" /\ Unheard /\ Interactions!Init
     /\ x9 = None /\ x10 = None
  \/ part = "provision" /\ Unheard /\ Provision!Init
  \/ part = "skills" /\ Unheard /\ Skills!Init
     /\ x9 = None /\ x10 = None
  \/ part = "pi" /\ Unheard /\ PiSession!Init
     /\ x6 = None /\ x7 = None /\ x8 = None /\ x9 = None /\ x10 = None
  \/ part = "stop" /\ Unheard /\ NativeStop!Init
  \/ part = "inputs" /\ Unheard /\ WorkflowInputs!Init
     /\ x8 = None /\ x9 = None /\ x10 = None
  \/ part = "replay" /\ Unheard /\ WorkflowReplay!Init
     /\ x7 = None /\ x8 = None /\ x9 = None /\ x10 = None
  \/ part = "projects" /\ Unheard /\ Projects!Init
     /\ x8 = None /\ x9 = None /\ x10 = None
  \/ part = "cli" /\ Unheard /\ CliTurn!Init
     /\ x4 = None /\ x5 = None /\ x6 = None /\ x7 = None /\ x8 = None /\ x9 = None /\ x10 = None
  \/ part = "codex" /\ Unheard /\ CodexTurn!Init
     /\ x9 = None /\ x10 = None
  \/ part = "gateway" /\ Unheard /\ GatewayTurn!Init
     /\ x9 = None /\ x10 = None
  \/ part = "context" /\ Unheard /\ Context!Init
     /\ x9 = None /\ x10 = None
  \/ part = "mail" /\ Unheard /\ PeerMail!Init
     /\ x10 = None
  \/ part = "reports" /\ Unheard /\ Reports!Init
     /\ x10 = None
  \/ part = "input" /\ Unheard /\ TurnInput!Init
     /\ x4 = None /\ x5 = None /\ x6 = None /\ x7 = None /\ x8 = None /\ x9 = None /\ x10 = None
  \/ part = "hooks" /\ Unheard /\ PeerHooks!Init
     /\ x9 = None /\ x10 = None
  \/ part = "native" /\ Unheard /\ PeerRequests!Init
     /\ x6 = None /\ x7 = None /\ x8 = None /\ x9 = None /\ x10 = None
  \/ part = "nodes" /\ Unheard /\ NodeTurns!Init
     /\ x8 = None /\ x9 = None /\ x10 = None
  \/ part = "maintenance" /\ Unheard /\ Maintenance!Init
     /\ x7 = None /\ x8 = None /\ x9 = None /\ x10 = None
  \/ part = "tree" /\ Unheard /\ ProcessTree!Init
     /\ x9 = None /\ x10 = None
  \/ part = "hermes" /\ Unheard /\ HermesTurn!Init
     /\ x8 = None /\ x9 = None /\ x10 = None
  \/ part = "revived" /\ Unheard /\ Revived!Init
     /\ x8 = None /\ x9 = None /\ x10 = None
  \/ part = "client" /\ Unheard /\ GatewayClient!Init
     /\ x8 = None /\ x9 = None /\ x10 = None
  \/ part = "python" /\ Unheard /\ PythonServer!Init
     /\ x10 = None
  \/ part = "server" /\ Unheard /\ ServerSdk!Init
  \/ part = "archive" /\ Unheard /\ Archive!Init
     /\ x7 = None /\ x8 = None /\ x9 = None /\ x10 = None
  \/ part = "consent" /\ Unheard /\ Consent!Init
  \/ part = "admission" /\ Unheard /\ Admission!Init
  \/ part = "mcp" /\ Unheard /\ ManagedMcp!Init
     /\ x10 = None
  \/ part = "employee" /\ Unheard /\ EmployeeProfile!Init
     /\ x9 = None /\ x10 = None
  \/ part = "compression" /\ Unheard /\ Compression!Init

ListenerMoves == part = "listener" /\ Next /\ UNCHANGED <<part, x1, x2, x3, x4, x5, x6, x7, x8, x9, x10>>
ConnectionMoves == part = "connection" /\ Connection!Next /\ UNCHANGED <<part, vars, x6, x7, x8,
  x9, x10>>
RequestsMoves == part = "requests" /\ Requests!Next /\ UNCHANGED <<part, vars, x10>>
RetriesMoves == part = "retries" /\ Retries!Next /\ UNCHANGED <<part, vars, x10>>
InteractionsMoves == part = "interactions" /\ Interactions!Next /\ UNCHANGED <<part, vars, x9,
  x10>>
ProvisionMoves == part = "provision" /\ Provision!Next /\ UNCHANGED <<part, vars>>
SkillsMoves == part = "skills" /\ Skills!Next /\ UNCHANGED <<part, vars, x9, x10>>
PiSessionMoves == part = "pi" /\ PiSession!Next /\ UNCHANGED <<part, vars, x6, x7, x8, x9, x10>>
NativeStopMoves == part = "stop" /\ NativeStop!Next /\ UNCHANGED <<part, vars>>
WorkflowInputsMoves == part = "inputs" /\ WorkflowInputs!Next /\ UNCHANGED <<part, vars, x8, x9,
  x10>>
WorkflowReplayMoves == part = "replay" /\ WorkflowReplay!Next /\ UNCHANGED <<part, vars, x7, x8,
  x9, x10>>
ProjectsMoves == part = "projects" /\ Projects!Next /\ UNCHANGED <<part, vars, x8, x9, x10>>
CliTurnMoves == part = "cli" /\ CliTurn!Next /\ UNCHANGED <<part, vars, x4, x5, x6, x7, x8, x9,
  x10>>
CodexTurnMoves == part = "codex" /\ CodexTurn!Next /\ UNCHANGED <<part, vars, x9, x10>>
GatewayTurnMoves == part = "gateway" /\ GatewayTurn!Next /\ UNCHANGED <<part, vars, x9, x10>>
ContextMoves == part = "context" /\ Context!Next /\ UNCHANGED <<part, vars, x9, x10>>
PeerMailMoves == part = "mail" /\ PeerMail!Next /\ UNCHANGED <<part, vars, x10>>
ReportsMoves == part = "reports" /\ Reports!Next /\ UNCHANGED <<part, vars, x10>>
TurnInputMoves == part = "input" /\ TurnInput!Next /\ UNCHANGED <<part, vars, x4, x5, x6, x7,
  x8, x9, x10>>
PeerHooksMoves == part = "hooks" /\ PeerHooks!Next /\ UNCHANGED <<part, vars, x9, x10>>
PeerRequestsMoves == part = "native" /\ PeerRequests!Next /\ UNCHANGED <<part, vars, x6, x7, x8,
  x9, x10>>
NodeTurnsMoves == part = "nodes" /\ NodeTurns!Next /\ UNCHANGED <<part, vars, x8, x9, x10>>
MaintenanceMoves == part = "maintenance" /\ Maintenance!Next /\ UNCHANGED <<part, vars, x7, x8,
  x9, x10>>
ProcessTreeMoves == part = "tree" /\ ProcessTree!Next /\ UNCHANGED <<part, vars, x9, x10>>
HermesTurnMoves == part = "hermes" /\ HermesTurn!Next /\ UNCHANGED <<part, vars, x8, x9, x10>>
RevivedMoves == part = "revived" /\ Revived!Next /\ UNCHANGED <<part, vars, x8, x9, x10>>
GatewayClientMoves == part = "client" /\ GatewayClient!Next /\ UNCHANGED <<part, vars, x8, x9,
  x10>>
PythonServerMoves == part = "python" /\ PythonServer!Next /\ UNCHANGED <<part, vars, x10>>
ServerSdkMoves == part = "server" /\ ServerSdk!Next /\ UNCHANGED <<part, vars>>
ArchiveMoves == part = "archive" /\ Archive!Next /\ UNCHANGED <<part, vars, x7, x8, x9, x10>>
AdmissionMoves == part = "admission" /\ Admission!Next /\ UNCHANGED <<part, vars>>
ConsentMoves == part = "consent" /\ Consent!Next /\ UNCHANGED <<part, vars>>
ManagedMcpMoves == part = "mcp" /\ ManagedMcp!Next /\ UNCHANGED <<part, vars, x10>>
EmployeeProfileMoves == part = "employee" /\ EmployeeProfile!Next /\ UNCHANGED <<part, vars, x9,
  x10>>
CompressionMoves == part = "compression" /\ Compression!Next /\ UNCHANGED <<part, vars>>

DeviceNext ==
  \/ ListenerMoves
  \/ ConnectionMoves
  \/ RequestsMoves
  \/ RetriesMoves
  \/ InteractionsMoves
  \/ ProvisionMoves
  \/ SkillsMoves
  \/ PiSessionMoves
  \/ NativeStopMoves
  \/ WorkflowInputsMoves
  \/ WorkflowReplayMoves
  \/ ProjectsMoves
  \/ CliTurnMoves
  \/ CodexTurnMoves
  \/ GatewayTurnMoves
  \/ ContextMoves
  \/ PeerMailMoves
  \/ ReportsMoves
  \/ TurnInputMoves
  \/ PeerHooksMoves
  \/ PeerRequestsMoves
  \/ NodeTurnsMoves
  \/ MaintenanceMoves
  \/ ProcessTreeMoves
  \/ HermesTurnMoves
  \/ RevivedMoves
  \/ GatewayClientMoves
  \/ PythonServerMoves
  \/ ServerSdkMoves
  \/ ArchiveMoves
  \/ AdmissionMoves
  \/ ConsentMoves
  \/ ManagedMcpMoves
  \/ EmployeeProfileMoves
  \/ CompressionMoves
(* Every part that has two tenants, payloads, questions, namespaces or engines treats them alike. *)
Twins == Permutations({m1, m2})

DeviceSpec == DeviceInit /\ [][DeviceNext]_<<part, vars, x1, x2, x3, x4, x5, x6, x7, x8, x9, x10>>

(* SessionConsumer: nothing is lost on the first socket, and the watermark is an event heard.
   WorkflowReplay: every workflow has its turn, and nothing crosses a damaged row.
   Archive: one history, its parts together, and files as announced. *)
DeliverySound ==
  /\ part = "listener" =>
       /\ FirstSocketLosesNothing
       /\ WatermarkWasHeard
  /\ part = "replay" =>
       /\ WorkflowReplay!Rotates
       /\ WorkflowReplay!NoGap
  /\ part = "archive" =>
       /\ Archive!OneHistory
       /\ Archive!PartsTogether
       /\ Archive!FileIsItself
(* Connection: the socket in use serves the client's one live runtime, and a started client without
   a socket is always on its way to the next. *)
ConnectionSound ==
  part = "connection" =>
    /\ Connection!SocketServesRuntime
    /\ Connection!OneRuntime
    /\ Connection!NeverGivesUp
(* Requests: an operation takes effect once, and its calls are answered with its own result.
   Interactions: a question that is waited for is before the human, belongs to the live turn, and has
   one answer.
   WorkflowInputs: an input reaches the agent once, under its open receipt, and what is told of it is true.
   PeerMail: mail is put before a model once, what is recorded and reported of it is true, none is skipped.
   TurnInput: an input is shown once, taken only if shown, and a refused one stays out.
   PeerHooks: mail goes into the root's conversation, within its window, and is reported if it was sent.
   PeerRequests: requests go on once, with mail only if granted, and a call of the tool is carried out once.
   NodeTurns: a node's answer is its own turn's, in its own place, and is what the next one is given.
   PythonServer: a call waits on an open peer, and what is acknowledged was handled or failed.
   ServerSdk: the registry names a live connection, an acknowledged number was handled and none below it
   was passed over, and a held request goes out as it was asked. *)
CallsSound ==
  /\ part = "requests" =>
       /\ Requests!EffectOnce
       /\ Requests!AnswersOwn
  /\ part = "retries" =>
       /\ Retries!EffectOnce
       /\ Retries!AnswersOwn
  /\ part = "interactions" =>
       /\ Interactions!WaitingIsAsked
       /\ Interactions!WaitsForItsTurn
       /\ Interactions!OneAnswer
  /\ part = "inputs" =>
       /\ WorkflowInputs!GivenOnce
       /\ WorkflowInputs!GivenWhileOpen
       /\ WorkflowInputs!ToldIsTrue
  /\ part = "mail" =>
       /\ PeerMail!ShownOnce
       /\ PeerMail!EvidenceIsOwn
       /\ PeerMail!ReportedIsTrue
       /\ PeerMail!NothingSkipped
  /\ part = "reports" =>
       /\ Reports!ShownOnce
       /\ Reports!EvidenceIsOwn
       /\ Reports!ReportedIsTrue
       /\ Reports!NothingSkipped
  /\ part = "input" =>
       /\ TurnInput!TakenWasShown
       /\ TurnInput!ShownOnce
       /\ TurnInput!RefusedStaysOut
  /\ part = "hooks" =>
       /\ PeerHooks!OwnRoot
       /\ PeerHooks!AppliedIsTrue
       /\ PeerHooks!Fits
  /\ part = "native" =>
       /\ PeerRequests!PassedOn
       /\ PeerRequests!GrantedOnly
       /\ PeerRequests!PayloadIsTrue
       /\ PeerRequests!CarriedOnce
  /\ part = "nodes" =>
       /\ NodeTurns!OwnAnswer
       /\ NodeTurns!InputIsLatest
       /\ NodeTurns!TreeIsKnown
       /\ NodeTurns!OnBranch
  /\ part = "python" =>
       /\ PythonServer!RegisteredIsLive
       /\ PythonServer!NoneWaitsOnClosed
       /\ PythonServer!AckedWasHandled
  /\ part = "server" =>
       /\ ServerSdk!RegistryIsLive
       /\ ServerSdk!LatestIsFound
       /\ ServerSdk!ToldWasHandled
       /\ ServerSdk!SentAsAsked
       /\ ServerSdk!NoneWaits
(* Provision: a directory is made once, registered only where it is the row's own, and what was told
   stays true.
   Projects: servers keep apart, a directory is one project, and no cleanup takes uncommitted work.
   Maintenance: a configuration is replaced only as it was seen, and can be brought back.
   Admission: nothing is done after the owner took back what it was asked under.
   ManagedMcp: the owner's words stay, and answers are served under the consent they were asked under.
   EmployeeProfile: a turn keeps its documents, edits stay, and ready means whole. *)
ProvisionSound ==
  /\ part = "provision" =>
       /\ Provision!DispatchedOnce
       /\ Provision!RegisteredIsOwn
       /\ Provision!KnownIsFinal
  /\ part = "projects" =>
       /\ Projects!Apart
       /\ Projects!DirectoryOnce
       /\ Projects!WorkKept
  /\ part = "maintenance" =>
       /\ Maintenance!ReplacesSeen
       /\ Maintenance!Reversible
       /\ Maintenance!RollbackRestores
  /\ part = "admission" =>
       /\ Admission!NothingAfterRevocation
       /\ Admission!OneConsent
       /\ Admission!NoOrphan
       /\ Admission!RefusedForCause
  /\ part = "consent" =>
       /\ Consent!NothingAfterRevocation
       /\ Consent!OneConsent
       /\ Consent!NoOrphan
       /\ Consent!RefusedForCause
  /\ part = "mcp" =>
       /\ ManagedMcp!OwnersWordStands
       /\ ManagedMcp!OursIsKnown
       /\ ManagedMcp!OneSnapshot
       /\ ManagedMcp!ServedUnderConsent
  /\ part = "employee" =>
       /\ EmployeeProfile!TurnKeepsProfile
       /\ EmployeeProfile!EditsStay
       /\ EmployeeProfile!ReadyWasWhole
       /\ EmployeeProfile!BlamesEdits
       /\ EmployeeProfile!NotTaken
(* Skills: one writer per directory, a failed operation wrote nothing, a turn reads one version whole. *)
SkillsSound ==
  part = "skills" =>
    /\ Skills!OneWriter
    /\ Skills!FailedWroteNothing
    /\ Skills!LoadedWhole
(* NativeStop: what is called stopped does not run, nothing else runs before that is known, and a turn
   has one final.
   Compression: it has the session for itself, its receipt is true, and words and latest calls stay. *)
StopSound ==
  /\ part = "stop" =>
       /\ NativeStop!ProofIsTruth
       /\ NativeStop!StopFences
       /\ NativeStop!OneFinal
  /\ part = "compression" =>
       /\ Compression!Alone
       /\ Compression!ReceiptIsTrue
       /\ Compression!WordsStay
(* PiSession: one conversation, complete turns, the latest model, insertions that were consumed.
   CliTurn: a completion is the program's own word, what was completed is continued, by one process at a time.
   CodexTurn: what is confirmed was given, nothing waits for a turn that is over, one thread.
   GatewayTurn: tools only under the turn's own policy, ends of its own run, no injected context lost.
   HermesTurn: one process in a conversation, completed turns remembered, a checkpoint that covers them.
   GatewayClient: one connection, a cancelled attempt is over, a chat goes where its policy was bound.
   ProcessTree: descendants are not left alone, an end that is told is one, no signal goes astray. *)
AdaptersSound ==
  /\ part = "pi" =>
       /\ PiSession!OneConversation
       /\ PiSession!CompleteIsSettled
       /\ PiSession!SwitchReachesNext
       /\ PiSession!DeliveredWasConsumed
  /\ part = "cli" =>
       /\ CliTurn!CompletedIsNative
       /\ CliTurn!Continues
       /\ CliTurn!OneProcess
  /\ part = "codex" =>
       /\ CodexTurn!InsertedWasGiven
       /\ CodexTurn!NothingWaits
       /\ CodexTurn!OwnTurn
  /\ part = "gateway" =>
       /\ GatewayTurn!ToolsAreGranted
       /\ GatewayTurn!FinalIsOwn
  /\ part = "context" =>
       /\ Context!InjectedIsKept
  /\ part = "hermes" =>
       /\ HermesTurn!OneWriter
       /\ HermesTurn!Remembers
       /\ HermesTurn!CheckpointCovers
  /\ part = "revived" =>
       /\ Revived!OneWriter
       /\ Revived!Remembers
       /\ Revived!CheckpointCovers
  /\ part = "client" =>
       /\ GatewayClient!OneConnection
       /\ GatewayClient!CancelledIsOver
       /\ GatewayClient!WaitsOnLive
       /\ GatewayClient!DispatchedWhereBound
  /\ part = "tree" =>
       /\ ProcessTree!Owned
       /\ ProcessTree!ResolvedIsOver
       /\ ProcessTree!NoStray
=============================================================================
