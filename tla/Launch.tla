------------------------------- MODULE Launch -------------------------------
(***************************************************************************)
(* How a container gets its settings: platform_config.py reads the table   *)
(* of the settings store page by page and puts the resolved values into    *)
(* the environment, worker.main checks them, and logstore.configure        *)
(* decides about logging.  The container restarts whatever stops.          *)
(*                                                                         *)
(* Administrators edit the table at any time, also between two pages, and  *)
(* the store may be unreachable.  The process is sequential, so its steps  *)
(* are the requests and what follows the last of them.  "AIDA_LLM_MODEL"   *)
(* stands for the settings a worker requires; "" is a blank or unset value.*)
(***************************************************************************)
EXTENDS Naturals, Sequences, SequencesExt

CONSTANTS
  Row,       \* rows the table may hold: [app, key, value]
  Own,       \* environments a container may be given
  PageSize,  \* (200)
  MaxRows,   \* bound on the table
  MaxEdits   \* bound on the edits of the table

Setting == {"AIDA_LLM_MODEL", "LOGSTORE_ENABLED", "LOGSTORE_KEY_JSON"}

\* os.environ.get answers "" for what is not set: an environment states every setting.
ASSUME OwnAssumption == \A e \in Own : Setting \cup {"LOGSTORE_KEY_FILE"} \subseteq DOMAIN e

ASSUME LaunchBounds == PageSize \in Nat \ {0} /\ MaxRows \in Nat /\ MaxEdits \in Nat

VARIABLES
  table, edits, reachable,     \* the store: rows, edits so far, whether it answers
  command, own, library, tmp,  \* the container: command, own environment, whether
                               \* LiveKitLogstore is installed, /tmp can be written
  pc,         \* "off", "fetching", "resolving", "applied", "serving", "exited"
  rows,       \* rows read so far
  env,        \* os.environ
  offered,    \* rows that were in the table at some moment of this launch
  untouched   \* the table was not edited during this launch

storeVars == <<table, edits, reachable>>
containerVars == <<command, own, library, tmp>>
launchVars == <<rows, env, offered, untouched>>
vars == <<storeVars, containerVars, pc, launchVars>>

\* Mutant: the most general scope wins.
ScopesReversed == <<"aida-agent", "aida", "*">>

\* SCOPES, the last one wins.
Scopes == <<"*", "aida", "aida-agent">>

Scoped(row) == row.app \in {"*", "aida", "aida-agent"}

-----------------------------------------------------------------------------
\* resolve

Duplicated(list) ==
  \E i, j \in DOMAIN list :
    i < j /\ Scoped(list[i]) /\ list[i].app = list[j].app /\ list[i].key = list[j].key

\* What a row does to the values in the pass over its scope: a blank row is unset.
Assign(values, row, scope) ==
  IF row.app = scope /\ row.key \in Setting /\ row.value # ""
  THEN [values EXCEPT ![row.key] = row.value]
  ELSE values

\* The inner loop: the values after each row, and after the last of them.
Pass(list, scope, values) ==
  LET after[i \in 0..Len(list)] ==
        IF i = 0 THEN values ELSE Assign(after[i - 1], list[i], scope)
  IN  after[Len(list)]

\* The outer loop: every scope overwrites what the ones before it assigned.
Resolve(list) ==
  LET unset == [k \in Setting |-> ""]
  IN  Pass(list, Scopes[3], Pass(list, Scopes[2], Pass(list, Scopes[1], unset)))

\* Mutant: the settings of the environment are not removed first.
AppliedOver(values) ==
  [k \in DOMAIN env |-> IF k \in Setting /\ values[k] # "" THEN values[k] ELSE env[k]]

\* apply: the store is the only source of a setting.
Applied(values) == [k \in DOMAIN env |-> IF k \in Setting THEN values[k] ELSE env[k]]

-----------------------------------------------------------------------------
\* The container starts the command, with the environment it was given.
Launch ==
  /\ pc \in {"off", "exited"}
  /\ pc' = "fetching"
  /\ offered' = ToSet(table)
  /\ UNCHANGED <<storeVars, containerVars, rows, env, untouched>>

\* Mutant: the offset of a page is one row too low.
PageOverlaps(offset) ==
  LET end == offset + PageSize
  IN  SubSeq(table, IF offset = 0 THEN 1 ELSE offset, IF end < Len(table) THEN end ELSE Len(table))

\* The rows of a request with this offset.
Page(offset) ==
  LET end == offset + PageSize
  IN  SubSeq(table, offset + 1, IF end < Len(table) THEN end ELSE Len(table))

\* One request of the loop in fetch.  The store may or may not say of a full page
\* that it is the last.
FetchPage ==
  /\ pc = "fetching" /\ reachable
  /\ LET offset == Len(rows)
         page == Page(offset)
     IN  /\ rows' = rows \o page
         /\ \/ Len(page) < PageSize /\ pc' = "resolving"
            \/ Len(page) = PageSize /\ pc' = "fetching"
            \/ Len(page) = PageSize /\ offset + PageSize >= Len(table) /\ pc' = "resolving"
  /\ UNCHANGED <<storeVars, containerVars, env, offered, untouched>>

\* The launch is over: what was read is gone, and so is an exited process's environment.
Ends(state, environ) ==
  /\ pc' = state /\ env' = IF state = "serving" THEN environ ELSE own
  /\ rows' = <<>> /\ offered' = {} /\ untouched' = TRUE

\* SettingsUnavailable: the preview goes on with the environment as it is.
Unavailable == Ends(IF command = "preview" THEN "serving" ELSE "exited", env)

\* A request failed or timed out, or the base or its table was not found.
FetchFails ==
  /\ pc = "fetching" /\ ~reachable
  /\ Unavailable
  /\ UNCHANGED <<storeVars, containerVars>>

Apply ==
  /\ pc = "resolving"
  /\ IF Duplicated(rows)
     THEN Unavailable
     ELSE /\ pc' = "applied" /\ env' = Applied(Resolve(rows)) /\ rows' = <<>>
          /\ UNCHANGED <<offered, untouched>>
  /\ UNCHANGED <<storeVars, containerVars>>

-----------------------------------------------------------------------------
\* worker.main and the preview

\* DeploymentConfiguration, BootstrapConfiguration and the LIVEKIT_* settings.
Complete == env["AIDA_LLM_MODEL"] # ""

\* logstore.configure finds nothing against logging.
Loggable == env["LOGSTORE_ENABLED"] = "1" /\ library /\ env["LOGSTORE_KEY_JSON"] = "key"

\* Mutant: LOGSTORE_ENABLED stays as the store has it.
ConfiguredHalfway ==
  [env EXCEPT !["LOGSTORE_KEY_JSON"] = "",
              !["LOGSTORE_KEY_FILE"] = IF Loggable THEN "private" ELSE ""]

\* The environment after logstore.configure.
Configured ==
  [env EXCEPT !["LOGSTORE_KEY_JSON"] = "",
              !["LOGSTORE_KEY_FILE"] = IF Loggable THEN "private" ELSE "",
              !["LOGSTORE_ENABLED"] = IF Loggable THEN "1" ELSE "0"]

\* start: mkstemp raises when the directory cannot be written.
Start ==
  /\ pc = "applied" /\ command = "start"
  /\ Ends(IF Complete /\ (Loggable => tmp) THEN "serving" ELSE "exited", Configured)
  /\ UNCHANGED <<storeVars, containerVars>>

\* watch_server imports the library if the environment enables logging.
Watchable == env["LOGSTORE_ENABLED"] = "1" => library

\* Another command of the SDK makes the server too, without check and configure.
OtherCommand ==
  /\ pc = "applied" /\ command = "download-files"
  /\ Ends(IF Watchable THEN "serving" ELSE "exited", env)
  /\ UNCHANGED <<storeVars, containerVars>>

Preview ==
  /\ pc = "applied" /\ command = "preview"
  /\ Ends("serving", env)
  /\ UNCHANGED <<storeVars, containerVars>>

-----------------------------------------------------------------------------
\* The process dies, or its host restarts.
Crash ==
  /\ pc = "serving"
  /\ Ends("off", own)
  /\ UNCHANGED <<storeVars, containerVars>>

\* An administrator inserts, deletes or replaces a row.  The requests ask for no
\* order, so a new row may turn up anywhere.
Edit ==
  /\ edits < MaxEdits /\ edits' = edits + 1
  /\ \/ \E i \in 1..(Len(table) + 1), row \in Row :
          Len(table) < MaxRows /\ table' = InsertAt(table, i, row)
     \/ \E i \in DOMAIN table : table' = RemoveAt(table, i)
     \/ \E i \in DOMAIN table, row \in Row : table' = [table EXCEPT ![i] = row]
  /\ IF pc \in {"off", "exited", "serving"}
     THEN UNCHANGED <<offered, untouched>>
     ELSE offered' = offered \cup ToSet(table') /\ untouched' = FALSE
  /\ UNCHANGED <<reachable, containerVars, pc, rows, env>>

\* The store and the disk fail and recover.
Outage == reachable' = ~reachable /\ UNCHANGED <<table, edits, containerVars, pc, launchVars>>
DiskFull == tmp' = ~tmp /\ UNCHANGED <<storeVars, command, own, library, pc, launchVars>>

Init ==
  /\ table \in UNION {[1..n -> Row] : n \in 0..MaxRows} /\ edits = 0
  /\ command \in {"start", "download-files", "preview"} /\ own \in Own
  /\ reachable = TRUE /\ library \in BOOLEAN /\ tmp = TRUE
  /\ pc = "off" /\ rows = <<>> /\ env = own
  /\ offered = {} /\ untouched = TRUE

Next ==
  \/ Launch \/ FetchPage \/ FetchFails \/ Apply
  \/ Start \/ OtherCommand \/ Preview
  \/ Crash \/ Edit \/ Outage \/ DiskFull

Spec == Init /\ [][Next]_vars

(***************************************************************************)
(* Fairness: a stopped container is restarted, each request ends within    *)
(* its timeout, and the code between requests runs.  Administrators, the   *)
(* store, the disk and crashes are not fair.                               *)
(***************************************************************************)
FairSpec ==
  /\ Spec
  /\ WF_vars(Launch) /\ WF_vars(FetchPage) /\ WF_vars(FetchFails)
  /\ WF_vars(Apply) /\ WF_vars(Start)

-----------------------------------------------------------------------------
\* Type invariant of the launch and of the store.
TypeOK ==
  /\ table \in Seq(Row) /\ rows \in Seq(Row)
  /\ pc \in {"off", "fetching", "resolving", "applied", "serving", "exited"}
  /\ command \in {"start", "download-files", "preview"}
  /\ own \in Own /\ Setting \cup {"LOGSTORE_KEY_FILE"} \subseteq DOMAIN env
  /\ library \in BOOLEAN /\ tmp \in BOOLEAN /\ reachable \in BOOLEAN
  /\ untouched \in BOOLEAN

\* platform_config.py "A same-named environment variable is ignored", "Nothing here
\* falls back to a guessed value": however the table is edited between the pages,
\* every setting that is applied was in the store during this launch, in a scope of
\* this worker, and none survives from the container's environment.
SettingsComeFromStore ==
  pc = "applied" =>
    \A k \in Setting : env[k] # "" =>
      \E row \in offered : Scoped(row) /\ row.key = k /\ row.value = env[k]

\* The value README gives a setting: that of its most specific row that is not blank.
Rank == [app \in {"*", "aida", "aida-agent"} |->
           CASE app = "*" -> 1 [] app = "aida" -> 2 [] app = "aida-agent" -> 3]
Effective(k) ==
  LET found == {row \in ToSet(table) : Scoped(row) /\ row.key = k /\ row.value # ""}
  IN  IF found = {} THEN ""
      ELSE (CHOOSE row \in found : \A r \in found : Rank[r.app] <= Rank[row.app]).value

\* README "resolved app=* < app=aida < app=aida-agent", "duplicate scoped keys ... stop
\* the worker": a launch during which nobody edits the table applies exactly the
\* table, across any number of pages, and never one with duplicate keys.
QuietLaunchResolves ==
  pc = "applied" /\ untouched =>
    ~Duplicated(table) /\ \A k \in Setting : env[k] = Effective(k)

\* README "The key is written to a private temporary file at start and removed from
\* the environment. Anything else ... leaves it off": a worker that serves either logs
\* with the library and a key file of its own, or not at all, and job processes never
\* inherit the key or a stale path.
LogsOnlyWhenUsable ==
  pc = "serving" /\ command = "start" =>
    /\ env["LOGSTORE_KEY_JSON"] = ""
    /\ IF env["LOGSTORE_ENABLED"] = "1"
       THEN library /\ env["LOGSTORE_KEY_FILE"] = "private"
       ELSE env["LOGSTORE_KEY_FILE"] = ""

\* What the applied settings rest on while they are still being read: a launch begins
\* with nothing, and every row read, like every row still to come, was offered to it.
RowsWereOffered ==
  /\ pc \notin {"fetching", "resolving"} => rows = <<>>
  /\ pc \in {"fetching", "resolving"} => ToSet(rows) \cup ToSet(table) \subseteq offered

\* While nobody edits the table the rows read are its beginning, and when the loop of
\* fetch ends, for whichever of its reasons, they are all of it.
ReadsThePrefix ==
  untouched =>
    /\ pc = "fetching" =>
         Len(rows) <= Len(table) /\ \A i \in 1..Len(rows) : rows[i] = table[i]
    /\ pc = "resolving" => rows = table

\* The inductive invariant of a launch.
LaunchInv ==
  /\ RowsWereOffered
  /\ ReadsThePrefix
  /\ SettingsComeFromStore
  /\ QuietLaunchResolves
  /\ LogsOnlyWhenUsable

Launchable ==
  reachable /\ tmp /\ ~Duplicated(table) /\ Effective("AIDA_LLM_MODEL") # ""

\* compose "restart: unless-stopped": after outages, crashes, a full disk and bad
\* edits, a worker whose store is in order again always comes back.
WorkerComesBack ==
  command = "start" => (<>[]Launchable => []<>(pc = "serving"))

\* logstore.py "Nothing here ... ever stops the worker", README "an image built
\* without the library, leaves it off": with its required settings applied, a
\* process starts.  It does not hold: mkstemp may raise, and commands that skip
\* configure() import the library whenever the store enables logging.
LoggingNeverStopsWorker ==
  [][pc = "applied" /\ pc' = "exited" => ~Complete]_vars
=============================================================================
