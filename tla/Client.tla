-------------------------------- MODULE Client --------------------------------
(***************************************************************************)
(* The command line client: processes of one user on one machine that share *)
(* the files config.yaml, tokens.enc and messages.cursor, none of which is  *)
(* locked.  `poll start` runs for ever with the configuration it loaded;    *)
(* every other command runs once.  A process does one thing to a file or to *)
(* the server at a time.  A file is truncated and then written: a write is  *)
(* one step that, when it fails or its process dies, leaves the old file or *)
(* an empty one.  tokens.enc and the key it is encrypted with are taken for *)
(* one file.                                                                *)
(***************************************************************************)
EXTENDS Skills, Sessions, Inbox

CONSTANTS
    Procs,         \* processes
    Home,          \* the enterprise a login is for
    Daemons,       \* those that may run `poll start`
    MaxRuns,       \* bound: commands started
    MaxFaults      \* bound: lost answers, failed writes and Redis commands, deaths

ASSUME ClientAssumption == Home \in Enterprises /\ Daemons \subseteq Procs

VARIABLES
    disk,       \* the three files
    proc,       \* what each process is doing
    runs, faults,
    outcome,    \* what became of the last skill executed
    told,       \* messages announced
    rotators,   \* the processes that exchanged each pair
    mishaps,    \* pairs whose successor was lost on its way to the disk
    forks       \* pairs exchanged by two at once, or while Redis failed

lineage == <<rotators, mishaps, forks>>
vars == <<sessions, mail, disk, proc, runs, faults, outcome, told, lineage>>

NoFile == [at |-> "absent"]
Blank == [at |-> "empty"]
ZeroConfig == [ent |-> "none", expiry |-> NoPair, pair |-> NoPair]
Idle == [at |-> "idle", cmd |-> "none", hook |-> FALSE, cfg |-> ZeroConfig,
         since |-> 0, got |-> {}]

Commands == {"logout", "refresh", "switch", "skill", "read"}

Init ==
    /\ SessionsInit /\ InboxInit
    /\ disk = [yaml |-> NoFile, tokens |-> NoPair, cursor |-> 0, spoilt |-> {}]
    /\ proc = [p \in Procs |-> Idle]
    /\ runs = 0 /\ faults = 0 /\ outcome = "served"
    /\ told = {}
    /\ rotators = [n \in Pairs |-> {}] /\ mishaps = {} /\ forks = {}

-----------------------------------------------------------------------------
At(p, at) == proc[p].at = at
Becomes(p, new) == proc' = [proc EXCEPT ![p] = new]
GoTo(p, at) == Becomes(p, [proc[p] EXCEPT !.at = at])

NoFault == UNCHANGED faults
Fault == faults < MaxFaults /\ faults' = faults + 1

OnlyProc == UNCHANGED <<sessions, mail, disk, runs, faults, outcome, told, lineage>>
OnlyDisk == UNCHANGED <<sessions, mail, runs, outcome, told>>

(* Where a command goes with a token it takes for valid.                    *)
Stage(r) ==
    CASE r.cmd = "read" -> "markRead"
      [] r.cmd = "poll" \/ r.hook -> "fetch"
      [] OTHER -> "send"

IsTokenExpired(cfg) == cfg.pair = NoPair \/ cfg.expiry <= expired

(* RefreshTokenIfNeeded, and the like of it in executeSkill: what a command *)
(* does next.  Without a refresh token the poller waits, a hook is over, a  *)
(* skill is sent all the same and mark-read fails.                          *)
\* Defect: an expired token is never renewed.
RefreshNever(r, without) ==
    IF ~IsTokenExpired(r.cfg) THEN [r EXCEPT !.at = Stage(r)] ELSE without
RefreshTokenIfNeeded(r, without) ==
    IF ~IsTokenExpired(r.cfg) THEN [r EXCEPT !.at = Stage(r)]
    ELSE IF r.cfg.pair # NoPair THEN [r EXCEPT !.at = "exchange"] ELSE without

(* A command is over or fails.  The poller waits and checks again; a skill  *)
(* goes on after its hook, with another refresh if that of the hook failed. *)
AfterHook(r) ==
    LET main == [r EXCEPT !.hook = FALSE, !.got = {}, !.since = 0]
    IN  RefreshTokenIfNeeded(main, [main EXCEPT !.at = "send"])
Ended(r) ==
    CASE r.cmd = "poll" -> [r EXCEPT !.at = "cursor", !.got = {}, !.since = 0]
      [] r.cmd # "poll" /\ r.hook -> AfterHook(r)
      [] OTHER -> Idle
Ends(p) == Becomes(p, Ended(proc[p]))

Starts(p) == At(p, "idle") /\ runs < MaxRuns /\ runs' = runs + 1

-----------------------------------------------------------------------------
(* config.Load: a command begins with config.yaml.  An empty one names no   *)
(* server, so that only a logout comes to anything ...                      *)
Start(p, cmd) ==
    /\ Starts(p)
    /\ cmd \in IF p \in Daemons THEN {"poll"} ELSE Commands
    /\ LET r == [Idle EXCEPT !.cmd = cmd, !.hook = (cmd = "skill")] IN
       IF disk.yaml.at = "present"
       THEN Becomes(p, [r EXCEPT !.at = "loadTokens", !.cfg.ent = disk.yaml.ent,
                                 !.cfg.expiry = disk.yaml.expiry])
       ELSE IF cmd = "logout"
       THEN Becomes(p, [r EXCEPT !.at = IF disk.yaml = NoFile THEN "removeTokens" ELSE "loadTokens"])
       ELSE UNCHANGED proc
    /\ UNCHANGED <<sessions, mail, disk, faults, outcome, told, lineage>>

(* What a command does once the configuration is loaded.                    *)
Loaded(r) ==
    CASE r.cmd = "logout" -> [r EXCEPT !.at = "saveYaml", !.cfg = ZeroConfig]
      [] r.cmd = "refresh" -> IF r.cfg.pair = NoPair THEN Idle ELSE [r EXCEPT !.at = "exchange"]
      [] r.cmd = "switch" -> [r EXCEPT !.at = "switch"]
      [] r.cmd = "read" -> RefreshTokenIfNeeded(r, Idle)
      [] OTHER -> [r EXCEPT !.at = "cursor"]

(* ... and goes on with tokens.enc, which fails it when that is empty.      *)
LoadTokens(p) ==
    /\ At(p, "loadTokens")
    /\ Becomes(p, IF "tokens" \in disk.spoilt THEN Idle
                  ELSE Loaded([proc[p] EXCEPT !.cfg.pair = disk.tokens]))
    /\ OnlyProc

-----------------------------------------------------------------------------
(* config.Save                                                              *)
Saving(p) == proc[p].at \in {"saveYaml", "saveTokens"}
Lose(n) == mishaps' = mishaps \cup ({n} \ {NoPair}) /\ UNCHANGED <<rotators, forks>>

(* What a write cut short leaves of the file.                               *)
Torn(p) ==
    CASE At(p, "saveYaml") -> [disk EXCEPT !.yaml = Blank]
      [] At(p, "saveTokens") -> [disk EXCEPT !.tokens = NoPair, !.spoilt = @ \cup {"tokens"}]
      [] At(p, "saveCursor") -> [disk EXCEPT !.cursor = 0, !.spoilt = @ \cup {"cursor"}]
      [] OTHER -> disk
CutShort(p) == disk' \in {disk, Torn(p)}

SaveYaml(p) ==
    /\ At(p, "saveYaml")
    /\ disk' = [disk EXCEPT !.yaml = [at |-> "present", ent |-> proc[p].cfg.ent,
                                      expiry |-> proc[p].cfg.expiry]]
    /\ GoTo(p, "saveTokens")
    /\ OnlyDisk /\ UNCHANGED <<faults, lineage>>

(* What a command does once the configuration is saved, or once its failure *)
(* to be saved has been warned of.                                          *)
Saved(r) ==
    CASE r.cmd = "logout" -> [r EXCEPT !.at = "removeTokens"]
      [] r.cmd \in {"login", "refresh", "switch"} -> Idle
      [] OTHER -> [r EXCEPT !.at = Stage(r)]

SaveTokens(p) ==
    /\ At(p, "saveTokens")
    /\ disk' = [disk EXCEPT !.tokens = proc[p].cfg.pair, !.spoilt = @ \ {"tokens"}]
    /\ Becomes(p, Saved(proc[p]))
    /\ OnlyDisk /\ UNCHANGED <<faults, lineage>>

SaveFails(p) ==
    /\ Saving(p) /\ Fault
    /\ Becomes(p, IF proc[p].cmd = "logout" THEN Idle ELSE Saved(proc[p]))
    /\ Lose(IF proc[p].cfg.pair = NoPair THEN NoPair ELSE parent[proc[p].cfg.pair])
    /\ CutShort(p) /\ OnlyDisk

(* clearTokensSecure                                                        *)
RemoveTokens(p) ==
    /\ At(p, "removeTokens")
    /\ disk' = [disk EXCEPT !.tokens = NoPair, !.spoilt = @ \ {"tokens"}]
    /\ Becomes(p, Idle)
    /\ OnlyDisk /\ UNCHANGED <<faults, lineage>>

-----------------------------------------------------------------------------
(* Tokens come from Login, SwitchEnterprise or Refresh.                     *)
Adopt(cfg, n) == [cfg EXCEPT !.expiry = n, !.pair = n]

Login(p) ==
    /\ Starts(p) /\ p \notin Daemons
    /\ Issue(NoPair) /\ UNCHANGED <<expired, blacklist>>
    /\ \/ /\ NoFault
          /\ Becomes(p, [Idle EXCEPT !.at = "saveYaml", !.cmd = "login",
                                     !.cfg = Adopt([ZeroConfig EXCEPT !.ent = Home], issued')])
       \/ Fault /\ UNCHANGED proc
    /\ UNCHANGED <<mail, disk, outcome, told, lineage>>

Switch(p) ==
    /\ At(p, "switch")
    /\ IF AccessValid(proc[p].cfg.pair)
       THEN /\ Issue(NoPair) /\ UNCHANGED <<expired, blacklist>>
            /\ \/ /\ NoFault
                  /\ \E ent \in Enterprises \ {proc[p].cfg.ent} :
                        Becomes(p, [proc[p] EXCEPT !.at = "saveYaml",
                                    !.cfg = Adopt([proc[p].cfg EXCEPT !.ent = ent], issued')])
               \/ Fault /\ Becomes(p, Idle)
       ELSE Becomes(p, Idle) /\ UNCHANGED <<sessions, faults>>
    /\ UNCHANGED <<mail, disk, runs, outcome, told, lineage>>

(* Refresh: the lookup ...                                                  *)
Exchange(p) ==
    /\ At(p, "exchange")
    /\ LET n == proc[p].cfg.pair IN
       \E lookupFails \in BOOLEAN :
          /\ IF lookupFails THEN Fault ELSE NoFault
          /\ IF AdmitsRefresh(n, lookupFails)
             THEN /\ GoTo(p, "rotate")
                  /\ forks' = IF lookupFails \/ \E q \in Procs \ {p} : At(q, "rotate") /\ proc[q].cfg.pair = n
                              THEN forks \cup {n} ELSE forks
             ELSE Ends(p) /\ UNCHANGED forks
    /\ UNCHANGED <<sessions, mail, disk, runs, outcome, told, rotators, mishaps>>

(* ... and the exchange; the answer may be lost.                            *)
\* Defect: the new tokens are not kept.
AdoptExpiry(cfg, n) == [cfg EXCEPT !.expiry = n]
AdoptRefreshed(cfg, n) == Adopt(cfg, n)
Refresh(p) ==
    /\ At(p, "rotate")
    /\ LET n == proc[p].cfg.pair IN
       /\ rotators' = [rotators EXCEPT ![n] = @ \cup {p}]
       /\ \/ /\ NoFault /\ Rotate(n, FALSE) /\ UNCHANGED <<mishaps, forks>>
             /\ Becomes(p, [proc[p] EXCEPT !.at = "saveYaml", !.cfg = AdoptRefreshed(@, issued')])
          \/ /\ Fault /\ Rotate(n, TRUE) /\ forks' = forks \cup {n} /\ UNCHANGED mishaps
             /\ Becomes(p, [proc[p] EXCEPT !.at = "saveYaml", !.cfg = AdoptRefreshed(@, issued')])
          \/ /\ Fault /\ Rotate(n, FALSE) /\ mishaps' = mishaps \cup {n} /\ UNCHANGED forks
             /\ Ends(p)
    /\ UNCHANGED <<mail, disk, runs, outcome, told>>

-----------------------------------------------------------------------------
(* CheckAndNotify: no file is a cursor of zero, an empty one is an error.   *)
LoadCursor(p) ==
    /\ At(p, "cursor")
    /\ Becomes(p, IF "cursor" \in disk.spoilt THEN Ended(proc[p])
                  ELSE RefreshTokenIfNeeded([proc[p] EXCEPT !.since = disk.cursor], Ended(proc[p])))
    /\ OnlyProc

FetchNewUnread(p) ==
    /\ At(p, "fetch")
    /\ IF AccessValid(proc[p].cfg.pair)
       THEN LET S == ListUnreadByReceiver(proc[p].cfg.ent, proc[p].since) IN
               IF S = {} THEN Ends(p) /\ UNCHANGED told
               ELSE /\ told' = told \cup S
                    /\ Becomes(p, [proc[p] EXCEPT !.at = "saveCursor", !.got = S])
       ELSE Ends(p) /\ UNCHANGED told
    /\ UNCHANGED <<sessions, mail, disk, runs, faults, outcome, lineage>>

Latest(S) == CHOOSE m \in S : \A n \in S : n <= m

SaveCursor(p) ==
    /\ At(p, "saveCursor")
    /\ \/ NoFault /\ disk' = [disk EXCEPT !.cursor = Latest(proc[p].got), !.spoilt = @ \ {"cursor"}]
       \/ Fault /\ CutShort(p)
    /\ Ends(p)
    /\ OnlyDisk /\ UNCHANGED lineage

AnswerLost(p) ==
    /\ proc[p].at \in {"fetch", "switch", "markRead"} /\ Fault
    /\ Ends(p)
    /\ UNCHANGED <<sessions, mail, disk, runs, outcome, told, lineage>>

-----------------------------------------------------------------------------
(* The end of a skill, and of `message mark-read`.                          *)
SendSkill(p) ==
    /\ At(p, "send")
    /\ IF AccessValid(proc[p].cfg.pair) THEN outcome' \in Outcomes ELSE UNCHANGED outcome
    /\ Becomes(p, Idle)
    /\ UNCHANGED <<sessions, mail, disk, runs, faults, told, lineage>>

MarkAsRead(p) ==
    /\ At(p, "markRead")
    /\ IF AccessValid(proc[p].cfg.pair)
       THEN \E S \in SUBSET told : S # {} /\ MarkRead(S, proc[p].cfg.ent)
       ELSE UNCHANGED inbox
    /\ Becomes(p, Idle)
    /\ UNCHANGED <<sessions, late, disk, runs, faults, outcome, told, lineage>>

(* A process killed; `poll stop` and Ctrl+C do no more.                     *)
Die(p) ==
    /\ ~At(p, "idle") /\ Fault
    /\ Becomes(p, Idle)
    /\ IF Saving(p) /\ proc[p].cfg.pair # NoPair THEN Lose(parent[proc[p].cfg.pair])
       ELSE UNCHANGED lineage
    /\ CutShort(p) /\ OnlyDisk

-----------------------------------------------------------------------------
Step(p) ==
    \/ LoadTokens(p) \/ SaveYaml(p) \/ SaveTokens(p) \/ SaveFails(p)
    \/ RemoveTokens(p) \/ Switch(p)
    \/ Exchange(p) \/ Refresh(p) \/ LoadCursor(p) \/ FetchNewUnread(p) \/ SaveCursor(p)
    \/ AnswerLost(p) \/ SendSkill(p) \/ MarkAsRead(p)

Aside == UNCHANGED <<disk, proc, runs, faults, outcome, told, lineage>>
Clock == AccessExpires /\ UNCHANGED mail /\ Aside
Mail == (\E m \in Messages : Insert(m) \/ \E ent \in Enterprises : Stamp(m, ent)) /\ UNCHANGED sessions /\ Aside

Next ==
    \/ \E p \in Procs : Step(p) \/ Die(p) \/ Login(p) \/ \E cmd \in Commands \cup {"poll"} : Start(p, cmd)
    \/ Clock \/ Mail

(* A poller goes on, and time passes.                                       *)
Fairness == WF_vars(Clock) /\ \A d \in Daemons : WF_vars(Step(d))

Spec == Init /\ [][Next]_vars /\ Fairness

-----------------------------------------------------------------------------
Skipped(m) == Unread(m) /\ m <= disk.cursor

(* A message the cursor has passed was announced, unless its row came after *)
(* that of a later one, or the cursor was moved by a message of another     *)
(* enterprise: the cursor file keeps one moment for all enterprises.        *)
CursorSkipsNothing ==
    \A m \in Messages : Skipped(m) =>
        \/ m \in told \/ m \in late
        \/ \E n \in told : n > m /\ inbox[n].ent # inbox[m].ent

(* A refresh token is exchanged for one pair: a second exchange needs two   *)
(* clients between lookup and Add, or a Redis command that failed.          *)
OneHeirPerToken ==
    \A m, n \in 1..issued :
        m # n /\ parent[m] = parent[n] /\ parent[m] # NoPair => parent[m] \in forks

(* A client whose refresh token the server refuses lost it to another       *)
(* process or to an answer, a write or a process that failed: rotation      *)
(* alone never logs anybody out.                                            *)
RefusedHasCause ==
    \A p \in Procs : At(p, "exchange") /\ IsBlacklisted(proc[p].cfg.pair) =>
        \/ rotators[proc[p].cfg.pair] \ {p} # {}
        \/ proc[p].cfg.pair \in mishaps

(* Whatever skill is executed with the parameters it requires, the API has  *)
(* a route for its request and no placeholder is left in the path.          *)
EverySkillIsServed == outcome = "served"

(* A running poller comes to have announced every unread message of its     *)
(* enterprise that the cursor has not passed, as long as the server still   *)
(* exchanges its refresh token and no cut-off write has left the cursor     *)
(* file empty: every other error on the way only delays it.                 *)
PollerTells ==
    \A d \in Daemons : proc[d].cmd = "poll" ~>
        \/ \A m \in Messages : \/ m \in told \/ ~Unread(m) \/ Skipped(m)
                              \/ inbox[m].ent # proc[d].cfg.ent
        \/ proc[d].cmd # "poll" \/ issued = MaxPairs \/ "cursor" \in disk.spoilt
        \/ proc[d].cfg.pair = NoPair \/ IsBlacklisted(proc[d].cfg.pair)

-----------------------------------------------------------------------------
(* What the properties rest on; checked beside them and proved.             *)
Places == {"idle", "loadTokens", "saveYaml", "saveTokens", "removeTokens", "switch", "exchange",
           "rotate", "cursor", "fetch", "saveCursor", "send", "markRead"}
Entities == Enterprises \cup {"none"}
Numbers == 0..MaxPairs
Process == [at : Places, cmd : Commands \cup {"none", "login", "poll"}, hook : BOOLEAN,
            cfg : [ent : Entities, expiry : Numbers, pair : Numbers],
            since : 0..MaxMessages, got : SUBSET Messages]

(* Every variable holds what it can hold, and nobody has a pair that was    *)
(* not issued.                                                              *)
TypeOK ==
    /\ issued \in Numbers /\ expired \in 0..issued /\ blacklist \subseteq 1..issued
    /\ parent \in [Pairs -> Numbers] /\ \A n \in 1..issued : parent[n] < n
    /\ inbox \in [Messages -> [ent : Entities, at : {"unsent", "sending", "unread", "read"}]]
    /\ late \subseteq Messages /\ told \subseteq Messages
    /\ disk \in [yaml : {NoFile, Blank} \cup [at : {"present"}, ent : Entities, expiry : Numbers],
                 tokens : 0..issued, cursor : 0..MaxMessages, spoilt : SUBSET {"tokens", "cursor"}]
    /\ proc \in [Procs -> Process]
    /\ \A p \in Procs : /\ proc[p].cfg.pair <= issued
                        /\ proc[p].at \in {"exchange", "rotate"} => proc[p].cfg.pair # NoPair
                        /\ proc[p].at = "saveCursor" => proc[p].got # {}
    /\ rotators \in [Pairs -> SUBSET Procs] /\ \A n \in Pairs : n > issued => rotators[n] = {}
    /\ mishaps \subseteq Pairs /\ forks \subseteq Pairs

(* A pair was exchanged once and is revoked, or it is a fork: so is one that *)
(* is exchanged again, or by two at once.                                    *)
PairOf(p) == proc[p].cfg.pair
HeirInv ==
    /\ \A m \in 1..issued : parent[m] # NoPair => parent[m] \in blacklist \cup forks
    /\ \A p \in Procs, m \in 1..issued : At(p, "rotate") /\ parent[m] = PairOf(p) => PairOf(p) \in forks
    /\ \A p, q \in Procs :
          At(p, "rotate") /\ At(q, "rotate") /\ PairOf(p) = PairOf(q) /\ p # q => PairOf(p) \in forks

(* Revoked pairs were exchanged by somebody.  Nobody holds a pair that it    *)
(* exchanged itself, alone and without a mishap; the disk holds it only      *)
(* until its successor is saved; and a pair to be saved is known to no other *)
(* process, nor to the disk.                                                 *)
CauseInv ==
    /\ \A n \in blacklist : rotators[n] # {}
    /\ \A p \in Procs, n \in Pairs : rotators[n] = {p} /\ n \notin mishaps =>
          /\ PairOf(p) # n
          /\ disk.tokens = n => Saving(p) /\ PairOf(p) # NoPair /\ parent[PairOf(p)] = n
    /\ \A p \in Procs : Saving(p) /\ PairOf(p) # NoPair =>
          /\ rotators[PairOf(p)] = {} /\ disk.tokens # PairOf(p)
          /\ \A q \in Procs \ {p} : PairOf(q) # PairOf(p)

(* A cursor is a message that was announced, and so was what it passed, but  *)
(* for what came late and what it passed on behalf of another enterprise.    *)
Accounted(m) ==
    \/ m \in told \/ m \in late
    \/ \E n \in told : n > m /\ inbox[n].ent # inbox[m].ent
Backed(c) ==
    /\ c # 0 => c \in told
    /\ \A m \in Messages : Unread(m) /\ m <= c => Accounted(m)
CursorInv ==
    /\ \A n \in told : Visible(n)
    /\ Backed(disk.cursor)
    /\ \A p \in Procs : /\ Backed(proc[p].since)
                        /\ proc[p].got # {} => Backed(Latest(proc[p].got))

=============================================================================
