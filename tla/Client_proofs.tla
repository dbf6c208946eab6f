---------------------------- MODULE Client_proofs ----------------------------
(***************************************************************************)
(* Proofs about Client, for any processes, daemons, enterprises, messages, *)
(* length of a page, commands and faults.  What a skill sends is a matter  *)
(* of the tables of Skills and Routes and left to TLC.                     *)
(***************************************************************************)
EXTENDS Client, FiniteSetTheorems, NaturalsInduction, WellFoundedInduction, TLAPS

(* A process goes on from r to new with the tokens and the cursor it has,   *)
(* or without: it has nothing to save but a configuration without tokens.   *)
GoesOn(r, new) ==
    /\ new \in Process /\ new.at \notin {"rotate", "saveCursor"}
    /\ new.cfg.pair \in {r.cfg.pair, NoPair}
    /\ new.at \in {"saveYaml", "saveTokens"} => new.cfg.pair = NoPair
    /\ new.at = "exchange" => new.cfg.pair # NoPair
    /\ new.since \in {r.since, 0} /\ new.got \in {r.got, {}}

(* The files are kept, but for one that a write cut short leaves empty.     *)
Spares ==
    disk' \in [yaml : {NoFile, Blank} \cup [at : {"present"}, ent : Entities, expiry : Numbers],
              tokens : {disk.tokens, NoPair}, cursor : {disk.cursor, 0}, spoilt : SUBSET {"tokens", "cursor"}]

Walks(p) ==
    /\ ~Saving(p) /\ Spares
    /\ \E new : Becomes(p, new) /\ GoesOn(proc[p], new)
    /\ UNCHANGED <<sessions, mail, told, lineage>>

(* A command reads a file that is not empty.                                *)
LoadsTokens(p) == LoadTokens(p) /\ "tokens" \notin disk.spoilt
LoadsCursor(p) == LoadCursor(p) /\ "cursor" \notin disk.spoilt

(* Somebody logs in or switches, and may not get the answer.                *)
Takes(p) ==
    /\ proc[p].at \in {"idle", "switch"}
    /\ Issue(NoPair) /\ UNCHANGED <<expired, blacklist, mail, disk, told, lineage>>
    /\ \E new \in Process :
          /\ Becomes(p, new)
          /\ \/ GoesOn(proc[p], new)
             \/ /\ new.at = "saveYaml" /\ new.cfg.pair = issued + 1
                /\ new.since \in {proc[p].since, 0} /\ new.got \in {proc[p].got, {}}

(* A refresh token is found to be good.                                     *)
Enters(p) ==
    /\ At(p, "exchange") /\ GoTo(p, "rotate")
    /\ \E lookupFails \in BOOLEAN :
          /\ AdmitsRefresh(PairOf(p), lookupFails)
          /\ forks' = IF lookupFails \/ \E q \in Procs \ {p} : At(q, "rotate") /\ PairOf(q) = PairOf(p)
                      THEN forks \cup {PairOf(p)} ELSE forks
    /\ UNCHANGED <<sessions, mail, disk, told, rotators, mishaps>>

(* New tokens do not get to the disk.                                       *)
Loses(p) ==
    /\ Saving(p) /\ Spares
    /\ \E new : Becomes(p, new) /\ GoesOn(proc[p], new)
    /\ Lose(IF PairOf(p) = NoPair THEN NoPair ELSE parent[PairOf(p)])
    /\ UNCHANGED <<sessions, mail, told>>

(* Messages are announced.                                                  *)
Tells(p) ==
    /\ At(p, "fetch")
    /\ LET S == ListUnreadByReceiver(proc[p].cfg.ent, proc[p].since) IN
          /\ S # {} /\ told' = told \cup S
          /\ Becomes(p, [proc[p] EXCEPT !.at = "saveCursor", !.got = S])
    /\ UNCHANGED <<sessions, mail, disk, lineage>>

-----------------------------------------------------------------------------
(* Lemmas about the operators.                                              *)

(* The latest of some messages is one of them.                              *)
LEMMA LatestIsOne ==
  ASSUME NEW S \in SUBSET Messages, S # {}
  PROVE  Latest(S) \in S /\ \A n \in S : n <= Latest(S)
<1> DEFINE U == {u \in Nat : \A n \in S : n <= u}
<1>1. S \subseteq Nat \ {0} /\ MaxMessages \in U
  BY InboxAssumption DEF Messages
<1>2. IsWellFoundedOn(OpToRel(<, Nat), Nat)
  BY NatLessThanWellFounded
<1>3. \E x \in U : \A y \in U : ~ (<<y, x>> \in OpToRel(<, Nat))
  BY <1>1, <1>2, WFMin, Zenon
<1>4. \E x \in U : \A y \in U : ~ (y < x)
  BY <1>3 DEF OpToRel
<1>5. PICK x \in U : \A y \in U : ~ (y < x)
  BY <1>4
<1>6. x \in S
  <2> SUFFICES ASSUME x \notin S PROVE FALSE
    OBVIOUS
  <2>1. \E s \in S : s \in Nat /\ s # 0 /\ s <= x
    BY <1>1, <1>5
  <2>2. x # 0
    BY <1>5, <2>1
  <2>3. x - 1 \in Nat /\ \A n \in S : n <= x - 1
    BY <1>1, <1>5, <2>2
  <2> QED BY <1>5, <2>3
<1>7. \E m \in S : \A n \in S : n <= m
  BY <1>5, <1>6
<1> QED BY <1>7 DEF Latest

(* A process at rest is one.                                                *)
LEMMA IdleIsOne ==
  /\ Idle \in Process /\ Idle.at = "idle" /\ Idle.cfg.pair = NoPair /\ Idle.since = 0 /\ Idle.got = {}
  /\ \A r \in Process : GoesOn(r, Idle)
<1>1. 0 \in Numbers /\ 0 \in 0..MaxMessages
  BY SessionsAssumption, InboxAssumption DEF Numbers
<1>2. Idle \in Process
  BY <1>1 DEF Idle, Process, ZeroConfig, Places, Entities, NoPair
<1> QED BY <1>2 DEF Idle, ZeroConfig, NoPair, GoesOn

(* Renewing the tokens or not, a process goes on.                           *)
LEMMA RefreshGoesOn ==
  ASSUME NEW r \in Process, NEW without, GoesOn(r, without)
  PROVE  GoesOn(r, RefreshTokenIfNeeded(r, without))
<1>1. Stage(r) \in {"markRead", "fetch", "send"}
  BY DEF Stage
<1>2. \/ RefreshTokenIfNeeded(r, without) = [r EXCEPT !.at = Stage(r)]
      \/ r.cfg.pair # NoPair /\ RefreshTokenIfNeeded(r, without) = [r EXCEPT !.at = "exchange"]
      \/ RefreshTokenIfNeeded(r, without) = without
  BY DEF RefreshTokenIfNeeded
<1>3. GoesOn(r, [r EXCEPT !.at = Stage(r)])
  BY <1>1 DEF GoesOn, Process, Places
<1>4. r.cfg.pair # NoPair => GoesOn(r, [r EXCEPT !.at = "exchange"])
  BY DEF GoesOn, Process, Places
<1> QED BY <1>2, <1>3, <1>4

(* A command that is over or fails goes on, and has nothing in hand.        *)
LEMMA EndedGoesOn ==
  ASSUME NEW r \in Process
  PROVE  GoesOn(r, Ended(r)) /\ Ended(r).got = {} /\ Ended(r).since = 0 /\ Ended(r).at \notin {"saveYaml", "saveTokens"}
<1>1. 0 \in 0..MaxMessages
  BY InboxAssumption
<1>2. CASE r.cmd = "poll"
  <2>1. Ended(r) = [r EXCEPT !.at = "cursor", !.got = {}, !.since = 0]
    BY <1>2 DEF Ended
  <2> QED BY <1>1, <2>1 DEF GoesOn, Process, Places
<1>3. CASE r.cmd # "poll" /\ r.hook
  <2> DEFINE main == [r EXCEPT !.hook = FALSE, !.got = {}, !.since = 0]
             sent == [main EXCEPT !.at = "send"]
  <2>1. Ended(r) = RefreshTokenIfNeeded(main, sent)
    BY <1>3 DEF Ended, AfterHook
  <2>2. main \in Process /\ main.cfg = r.cfg /\ main.got = {} /\ main.since = 0
    BY <1>1 DEF Process
  <2>3. sent \in Process /\ sent.cfg = r.cfg /\ sent.got = {} /\ sent.since = 0 /\ sent.at = "send"
    BY <2>2 DEF Process, Places
  <2> HIDE DEF main, sent
  <2>4. GoesOn(main, sent)
    BY <2>2, <2>3 DEF GoesOn
  <2>5. GoesOn(main, Ended(r))
    BY <2>1, <2>2, <2>4, RefreshGoesOn
  <2>6. Ended(r) = sent \/ Ended(r) = [main EXCEPT !.at = Stage(main)] \/ Ended(r) = [main EXCEPT !.at = "exchange"]
    BY <2>1 DEF RefreshTokenIfNeeded
  <2>7. Stage(main) \in {"markRead", "fetch", "send"}
    BY DEF Stage
  <2>8. Ended(r).at \notin {"saveYaml", "saveTokens"} /\ Ended(r).since = 0
    BY <2>2, <2>3, <2>6, <2>7 DEF Process
  <2> QED BY <2>2, <2>5, <2>8 DEF GoesOn
<1>4. CASE r.cmd # "poll" /\ ~r.hook
  <2>1. Ended(r) = Idle
    BY <1>4 DEF Ended
  <2> QED BY <2>1, IdleIsOne
<1> QED BY <1>2, <1>3, <1>4 DEF Process

(* So does one that has saved or could not save.                            *)
LEMMA SavedGoesOn ==
  ASSUME NEW r \in Process
  PROVE  GoesOn(r, Saved(r)) /\ Saved(r).at \notin {"saveYaml", "saveTokens"}
<1>1. CASE r.cmd = "logout"
  <2>1. Saved(r) = [r EXCEPT !.at = "removeTokens"]
    BY <1>1 DEF Saved
  <2> QED BY <2>1 DEF GoesOn, Process, Places
<1>2. CASE r.cmd \in {"login", "refresh", "switch"}
  <2>1. Saved(r) = Idle
    BY <1>2 DEF Saved
  <2> QED BY <2>1, IdleIsOne
<1>3. CASE r.cmd \notin {"logout", "login", "refresh", "switch"}
  <2>1. Saved(r) = [r EXCEPT !.at = Stage(r)]
    BY <1>3 DEF Saved
  <2>2. Stage(r) \in {"markRead", "fetch", "send"}
    BY DEF Stage
  <2> QED BY <2>1, <2>2 DEF GoesOn, Process, Places
<1> QED BY <1>1, <1>2, <1>3

(* So does one that has loaded the configuration.                           *)
LEMMA LoadedGoesOn ==
  ASSUME NEW r \in Process
  PROVE  GoesOn(r, Loaded(r))
<1>1. CASE r.cmd = "logout"
  <2>1. Loaded(r) = [r EXCEPT !.at = "saveYaml", !.cfg = ZeroConfig]
    BY <1>1 DEF Loaded
  <2>2. ZeroConfig \in [ent : Entities, expiry : Numbers, pair : Numbers] /\ ZeroConfig.pair = NoPair
    BY SessionsAssumption DEF ZeroConfig, Entities, Numbers, NoPair
  <2> QED BY <2>1, <2>2 DEF GoesOn, Process, Places
<1>2. CASE r.cmd = "refresh"
  <2>1. Loaded(r) = IF r.cfg.pair = NoPair THEN Idle ELSE [r EXCEPT !.at = "exchange"]
    BY <1>2 DEF Loaded
  <2>2. r.cfg.pair # NoPair => GoesOn(r, [r EXCEPT !.at = "exchange"])
    BY DEF GoesOn, Process, Places
  <2> QED BY <2>1, <2>2, IdleIsOne
<1>3. CASE r.cmd = "switch"
  <2>1. Loaded(r) = [r EXCEPT !.at = "switch"]
    BY <1>3 DEF Loaded
  <2> QED BY <2>1 DEF GoesOn, Process, Places
<1>4. CASE r.cmd = "read"
  <2>1. Loaded(r) = RefreshTokenIfNeeded(r, Idle)
    BY <1>4 DEF Loaded
  <2> QED BY <2>1, IdleIsOne, RefreshGoesOn
<1>5. CASE r.cmd \notin {"logout", "refresh", "switch", "read"}
  <2>1. Loaded(r) = [r EXCEPT !.at = "cursor"]
    BY <1>5 DEF Loaded
  <2> QED BY <2>1 DEF GoesOn, Process, Places
<1> QED BY <1>1, <1>2, <1>3, <1>4, <1>5

-----------------------------------------------------------------------------
(* The kinds of step.                                                      *)
Kinds(p) ==
    \/ Walks(p) \/ Loses(p) \/ Takes(p) \/ Enters(p) \/ Tells(p) \/ LoadsTokens(p) \/ LoadsCursor(p)
    \/ SaveYaml(p) \/ SaveTokens(p) \/ RemoveTokens(p) \/ SaveCursor(p) \/ Refresh(p) \/ MarkAsRead(p)
Stutters == UNCHANGED <<sessions, mail, disk, proc, told, lineage>>

(* What becomes of the files when a write is cut short, or nothing is       *)
(* written.                                                                *)
LEMMA FilesSpared ==
  ASSUME TypeOK
  PROVE  /\ disk' = disk => Spares
         /\ \A p : CutShort(p) => Spares
         /\ \A p : CutShort(p) /\ ~Saving(p) => disk'.tokens = disk.tokens
<1>1. disk \in [yaml : {NoFile, Blank} \cup [at : {"present"}, ent : Entities, expiry : Numbers],
                tokens : {disk.tokens, NoPair}, cursor : {disk.cursor, 0}, spoilt : SUBSET {"tokens", "cursor"}]
  BY DEF TypeOK
<1>2. disk' = disk => Spares
  BY <1>1 DEF Spares
<1>3. ASSUME NEW p, CutShort(p) PROVE Spares /\ (~Saving(p) => disk'.tokens = disk.tokens)
  <2>1. CASE disk' = disk
    BY <1>2, <2>1
  <2>2. CASE At(p, "saveYaml") /\ disk' = [disk EXCEPT !.yaml = Blank]
    BY <1>1, <2>2 DEF Spares
  <2>3. CASE At(p, "saveTokens") /\ disk' = [disk EXCEPT !.tokens = NoPair, !.spoilt = @ \cup {"tokens"}]
    BY <1>1, <2>3 DEF Spares, At, Saving
  <2>4. CASE At(p, "saveCursor") /\ disk' = [disk EXCEPT !.cursor = 0, !.spoilt = @ \cup {"cursor"}]
    BY <1>1, <2>4 DEF Spares
  <2>5. disk' = disk \/ disk' = Torn(p)
    BY <1>3 DEF CutShort
  <2>6. \/ At(p, "saveYaml") /\ Torn(p) = [disk EXCEPT !.yaml = Blank]
        \/ At(p, "saveTokens") /\ Torn(p) = [disk EXCEPT !.tokens = NoPair, !.spoilt = @ \cup {"tokens"}]
        \/ At(p, "saveCursor") /\ Torn(p) = [disk EXCEPT !.cursor = 0, !.spoilt = @ \cup {"cursor"}]
        \/ Torn(p) = disk
    BY DEF Torn, At
  <2> QED BY <2>1, <2>2, <2>3, <2>4, <2>5, <2>6
<1> QED BY <1>2, <1>3

(* A command that starts goes on with a configuration without tokens.      *)
LEMMA StartWalks ==
  ASSUME TypeOK, NEW p \in Procs, NEW cmd \in Commands \cup {"poll"}, Start(p, cmd)
  PROVE  Walks(p)
<1> DEFINE r == [Idle EXCEPT !.cmd = cmd, !.hook = (cmd = "skill")]
           first == [r EXCEPT !.at = "loadTokens", !.cfg.ent = disk.yaml.ent,
                              !.cfg.expiry = disk.yaml.expiry]
<1>1. proc[p] \in Process /\ At(p, "idle") /\ proc = [proc EXCEPT ![p] = proc[p]]
  BY DEF TypeOK, Start, Starts
<1>2. r \in Process /\ r.cfg = ZeroConfig /\ r.since = 0 /\ r.got = {}
  BY IdleIsOne DEF Idle, Process, Commands
<1>3. ZeroConfig \in [ent : Entities, expiry : Numbers, pair : Numbers] /\ ZeroConfig.pair = NoPair
  BY SessionsAssumption DEF ZeroConfig, Entities, Numbers, NoPair
<1>4. GoesOn(proc[p], proc[p])
  BY <1>1 DEF GoesOn, At
<1> HIDE DEF r
<1>5. GoesOn(proc[p], [r EXCEPT !.at = "removeTokens"]) /\ GoesOn(proc[p], [r EXCEPT !.at = "loadTokens"])
  BY <1>2, <1>3 DEF GoesOn, Process, Places
<1>6. ASSUME disk.yaml.at = "present" PROVE GoesOn(proc[p], first)
  <2>1. disk.yaml.ent \in Entities /\ disk.yaml.expiry \in Numbers
    BY <1>6 DEF TypeOK, NoFile, Blank
  <2>2. first \in Process /\ first.at = "loadTokens" /\ first.since = 0 /\ first.got = {}
    BY <1>2, <2>1 DEF Process, Places
  <2>3. first.cfg.pair = NoPair
    BY <1>2, <1>3 DEF Process
  <2> QED BY <2>2, <2>3 DEF GoesOn
<1>7. \E new : Becomes(p, new) /\ GoesOn(proc[p], new)
  <2>1. \/ disk.yaml.at = "present" /\ Becomes(p, first)
        \/ Becomes(p, [r EXCEPT !.at = "removeTokens"]) \/ Becomes(p, [r EXCEPT !.at = "loadTokens"])
        \/ UNCHANGED proc
    BY DEF Start, r
  <2>2. UNCHANGED proc => Becomes(p, proc[p])
    BY <1>1 DEF Becomes
  <2> HIDE DEF first
  <2> QED BY <1>4, <1>5, <1>6, <2>1, <2>2
<1> QED BY <1>1, <1>7, FilesSpared DEF Start, Walks, At, Saving

(* Whoever logs in or switches takes a pair, or gets nothing.              *)
LEMMA LoginTakes ==
  ASSUME TypeOK, NEW p \in Procs, Login(p)
  PROVE  Takes(p)
<1> DEFINE new == [Idle EXCEPT !.at = "saveYaml", !.cmd = "login",
                               !.cfg = Adopt([ZeroConfig EXCEPT !.ent = Home], issued + 1)]
<1>1. proc[p] \in Process /\ At(p, "idle") /\ proc = [proc EXCEPT ![p] = proc[p]]
  BY DEF TypeOK, Login, Starts
<1>2. Issue(NoPair) /\ UNCHANGED <<expired, blacklist, mail, disk, told, lineage>> /\ issued' = issued + 1
  BY DEF Login, Issue
<1>3. issued + 1 \in Numbers
  BY SessionsAssumption DEF TypeOK, Numbers, Login, Issue
<1>4. new \in Process /\ new.at = "saveYaml" /\ new.cfg.pair = issued + 1 /\ new.since = 0 /\ new.got = {}
  BY <1>3, IdleIsOne, ClientAssumption DEF Idle, ZeroConfig, Adopt, Process, Places, Entities
<1>5. Becomes(p, new) \/ UNCHANGED proc
  BY <1>2 DEF Login
<1>6. UNCHANGED proc => Becomes(p, proc[p])
  BY <1>1 DEF Becomes
<1>7. GoesOn(proc[p], proc[p])
  BY <1>1 DEF GoesOn, At
<1> HIDE DEF new
<1> QED BY <1>1, <1>2, <1>4, <1>5, <1>6, <1>7 DEF Takes, At

(* Or, where the access token is refused, goes on with what it has.         *)
LEMMA SwitchTakes ==
  ASSUME TypeOK, NEW p \in Procs, Switch(p)
  PROVE  Takes(p) \/ Walks(p)
<1> DEFINE new(ent) == [proc[p] EXCEPT !.at = "saveYaml",
                        !.cfg = Adopt([proc[p].cfg EXCEPT !.ent = ent], issued + 1)]
<1>1. proc[p] \in Process /\ At(p, "switch")
  BY DEF TypeOK, Switch
<1>2. GoesOn(proc[p], Idle) /\ Idle \in Process
  BY <1>1, IdleIsOne
<1>3. CASE AccessValid(proc[p].cfg.pair)
  <2>1. Issue(NoPair) /\ UNCHANGED <<expired, blacklist, mail, disk, told, lineage>> /\ issued' = issued + 1
    BY <1>3 DEF Switch, Issue
  <2>2. issued + 1 \in Numbers
    BY <2>1, SessionsAssumption DEF TypeOK, Numbers, Issue
  <2>3. ASSUME NEW ent \in Enterprises
        PROVE  /\ new(ent) \in Process /\ new(ent).at = "saveYaml" /\ new(ent).cfg.pair = issued + 1
               /\ new(ent).since = proc[p].since /\ new(ent).got = proc[p].got
    BY <1>1, <2>2 DEF Adopt, Process, Places, Entities
  <2>4. (\E ent \in Enterprises : Becomes(p, new(ent))) \/ Becomes(p, Idle)
    BY <1>3, <2>1 DEF Switch
  <2> HIDE DEF new
  <2> QED BY <1>1, <1>2, <2>1, <2>3, <2>4 DEF Takes, At
<1>4. CASE ~AccessValid(proc[p].cfg.pair)
  BY <1>1, <1>2, <1>4, FilesSpared DEF Switch, Walks, At, Saving
<1> QED BY <1>3, <1>4

(* Every step is of one of the kinds.                                      *)
LEMMA StepKinds ==
  ASSUME TypeOK, [Next]_vars
  PROVE  Clock \/ Mail \/ Stutters \/ \E p \in Procs : Kinds(p)
<1>1. ASSUME NEW p \in Procs, SaveFails(p) PROVE Loses(p)
  <2>1. proc[p] \in Process
    BY DEF TypeOK
  <2>2. GoesOn(proc[p], Idle) /\ GoesOn(proc[p], Saved(proc[p]))
    BY <2>1, IdleIsOne, SavedGoesOn
  <2> QED BY <1>1, <2>2, FilesSpared DEF SaveFails, Loses, OnlyDisk, PairOf
<1>2. ASSUME NEW p \in Procs, Exchange(p) PROVE Enters(p) \/ Walks(p)
  <2>1. GoesOn(proc[p], Ended(proc[p]))
    BY EndedGoesOn DEF TypeOK
  <2>2. PICK lookupFails \in BOOLEAN :
           IF AdmitsRefresh(PairOf(p), lookupFails)
           THEN /\ GoTo(p, "rotate")
                /\ forks' = IF lookupFails \/ \E q \in Procs \ {p} : At(q, "rotate") /\ PairOf(q) = PairOf(p)
                            THEN forks \cup {PairOf(p)} ELSE forks
           ELSE Ends(p) /\ UNCHANGED forks
    BY <1>2 DEF Exchange, PairOf
  <2>3. At(p, "exchange") /\ UNCHANGED <<sessions, mail, disk, told, rotators, mishaps>>
    BY <1>2 DEF Exchange
  <2>4. CASE AdmitsRefresh(PairOf(p), lookupFails)
    BY <2>2, <2>3, <2>4 DEF Enters
  <2>5. CASE ~AdmitsRefresh(PairOf(p), lookupFails)
    BY <2>1, <2>2, <2>3, <2>5, FilesSpared DEF Walks, Ends, At, Saving, lineage
  <2> QED BY <2>4, <2>5
<1>3. ASSUME NEW p \in Procs, FetchNewUnread(p) PROVE Tells(p) \/ Walks(p)
  <2>1. GoesOn(proc[p], Ended(proc[p]))
    BY EndedGoesOn DEF TypeOK
  <2>2. At(p, "fetch") /\ UNCHANGED <<sessions, mail, disk, lineage>>
    BY <1>3 DEF FetchNewUnread
  <2>3. Tells(p) \/ (Ends(p) /\ UNCHANGED told)
    BY <1>3, <2>2 DEF FetchNewUnread, Tells
  <2> QED BY <2>1, <2>2, <2>3, FilesSpared DEF Walks, Ends, At, Saving
<1>4. ASSUME NEW p \in Procs, AnswerLost(p) PROVE Walks(p)
  <2>1. GoesOn(proc[p], Ended(proc[p]))
    BY EndedGoesOn DEF TypeOK
  <2> QED BY <1>4, <2>1, FilesSpared DEF AnswerLost, Walks, Ends, At, Saving
<1>5. ASSUME NEW p \in Procs, SendSkill(p) PROVE Walks(p)
  <2>1. GoesOn(proc[p], Idle)
    BY IdleIsOne DEF TypeOK
  <2> QED BY <1>5, <2>1, FilesSpared DEF SendSkill, Walks, At, Saving
<1>6. ASSUME NEW p \in Procs, Die(p) PROVE Walks(p) \/ Loses(p)
  <2>1. GoesOn(proc[p], Idle) /\ Becomes(p, Idle) /\ UNCHANGED <<sessions, mail, told>> /\ Spares
    BY <1>6, IdleIsOne, FilesSpared DEF TypeOK, Die, OnlyDisk
  <2>2. CASE ~Saving(p)
    BY <1>6, <2>1, <2>2 DEF Die, Walks
  <2>3. CASE Saving(p) /\ PairOf(p) # NoPair
    BY <1>6, <2>1, <2>3 DEF Die, Loses, PairOf
  <2>4. CASE Saving(p) /\ PairOf(p) = NoPair
    <3>1. UNCHANGED lineage
      BY <1>6, <2>4 DEF Die, PairOf
    <3>2. Lose(NoPair)
      BY <3>1 DEF Lose, lineage
    <3> QED BY <2>1, <2>4, <3>2 DEF Loses
  <2> QED BY <2>2, <2>3, <2>4
<1>12. ASSUME NEW p \in Procs, LoadTokens(p) PROVE LoadsTokens(p) \/ Walks(p)
  <2>1. GoesOn(proc[p], Idle)
    BY IdleIsOne DEF TypeOK
  <2> QED BY <1>12, <2>1, FilesSpared DEF LoadsTokens, LoadTokens, OnlyProc, Walks, At, Saving
<1>13. ASSUME NEW p \in Procs, LoadCursor(p) PROVE LoadsCursor(p) \/ Walks(p)
  <2>1. GoesOn(proc[p], Ended(proc[p]))
    BY EndedGoesOn DEF TypeOK
  <2> QED BY <1>13, <2>1, FilesSpared DEF LoadsCursor, LoadCursor, OnlyProc, Walks, At, Saving
<1>7. ASSUME NEW p \in Procs, Step(p) PROVE Kinds(p)
  BY <1>1, <1>2, <1>3, <1>4, <1>5, <1>7, <1>12, <1>13, SwitchTakes DEF Step, Kinds
<1>8. ASSUME NEW p \in Procs, NEW cmd \in Commands \cup {"poll"}, Start(p, cmd) PROVE Kinds(p)
  BY <1>8, StartWalks DEF Kinds
<1>9. ASSUME NEW p \in Procs, Die(p) \/ Login(p) PROVE Kinds(p)
  BY <1>6, <1>9, LoginTakes DEF Kinds
<1>10. UNCHANGED vars => Stutters
  BY DEF vars, Stutters
<1>11. Next => Clock \/ Mail \/ \E p \in Procs : Kinds(p)
  BY <1>7, <1>8, <1>9 DEF Next
<1> QED BY <1>10, <1>11

-----------------------------------------------------------------------------
(* Type correctness.                                                       *)
ProcOK ==
    /\ proc \in [Procs -> Process]
    /\ \A p \in Procs : /\ proc[p].cfg.pair <= issued
                        /\ proc[p].at \in {"exchange", "rotate"} => proc[p].cfg.pair # NoPair
                        /\ proc[p].at = "saveCursor" => proc[p].got # {}

(* A process that becomes one with an issued pair leaves the others alone. *)
LEMMA BecomesOK ==
  ASSUME TypeOK, NEW p \in Procs, NEW new \in Process, Becomes(p, new),
         issued' \in Nat, issued <= issued', new.cfg.pair <= issued',
         new.at \in {"exchange", "rotate"} => new.cfg.pair # NoPair,
         new.at = "saveCursor" => new.got # {}
  PROVE  ProcOK'
<1>1. proc' = [proc EXCEPT ![p] = new] /\ proc \in [Procs -> Process] /\ issued \in Nat
  BY DEF Becomes, TypeOK, Numbers
<1>2. \A q \in Procs : proc[q].cfg.pair \in Nat
  BY <1>1 DEF Process, Numbers
<1> QED BY <1>1, <1>2 DEF ProcOK, TypeOK

(* Going on is going on to such a process.                                 *)
LEMMA GoesOnOK ==
  ASSUME TypeOK, NEW p \in Procs, NEW new, Becomes(p, new), GoesOn(proc[p], new),
         issued' \in Nat, issued <= issued'
  PROVE  ProcOK'
<1>1. proc[p].cfg.pair \in Nat /\ proc[p].cfg.pair <= issued /\ issued \in Nat
  BY DEF TypeOK, Process, Numbers
<1>2. new.cfg.pair <= issued'
  BY <1>1 DEF GoesOn, NoPair
<1> QED BY <1>2, BecomesOK DEF GoesOn

(* Loading the tokens is going on from a process that has them.             *)
LEMMA LoadedOK ==
  ASSUME TypeOK, NEW p \in Procs, LoadsTokens(p)
  PROVE  GoesOn([proc[p] EXCEPT !.cfg.pair = disk.tokens], Loaded([proc[p] EXCEPT !.cfg.pair = disk.tokens]))
<1>1. proc[p] \in Process /\ disk.tokens \in Numbers
  BY SessionsAssumption DEF TypeOK, Numbers
<1>2. [proc[p] EXCEPT !.cfg.pair = disk.tokens] \in Process
  BY <1>1 DEF Process
<1> QED BY <1>2, LoadedGoesOn

(* So is loading the cursor.                                                *)
LEMMA CursorGoesOn ==
  ASSUME TypeOK, NEW p \in Procs, LoadsCursor(p)
  PROVE  \E new : /\ Becomes(p, new) /\ new \in Process
                  /\ new.at \notin {"rotate", "saveCursor", "saveYaml", "saveTokens"}
                  /\ new.cfg.pair \in {PairOf(p), NoPair}
                  /\ new.at = "exchange" => new.cfg.pair # NoPair
                  /\ new.since \in {disk.cursor, 0} /\ new.got \in {proc[p].got, {}}
<1> DEFINE r == [proc[p] EXCEPT !.since = disk.cursor]
           new == RefreshTokenIfNeeded(r, Ended(proc[p]))
<1>1. proc[p] \in Process /\ disk.cursor \in 0..MaxMessages
  BY DEF TypeOK
<1>2. r \in Process /\ r.cfg = proc[p].cfg /\ r.since = disk.cursor /\ r.got = proc[p].got
  BY <1>1 DEF Process
<1>3. Becomes(p, new)
  BY DEF LoadsCursor, LoadCursor
<1>4. /\ GoesOn(proc[p], Ended(proc[p])) /\ Ended(proc[p]).got = {} /\ Ended(proc[p]).since = 0
      /\ Ended(proc[p]).at \notin {"saveYaml", "saveTokens"}
  BY <1>1, EndedGoesOn
<1>5. Stage(r) \in {"markRead", "fetch", "send"}
  BY DEF Stage
<1>6. \/ new = [r EXCEPT !.at = Stage(r)]
      \/ r.cfg.pair # NoPair /\ new = [r EXCEPT !.at = "exchange"]
      \/ new = Ended(proc[p])
  BY DEF RefreshTokenIfNeeded
<1> HIDE DEF new, r
<1>7. CASE new = [r EXCEPT !.at = Stage(r)]
  BY <1>2, <1>3, <1>5, <1>7 DEF Process, Places, PairOf
<1>8. CASE r.cfg.pair # NoPair /\ new = [r EXCEPT !.at = "exchange"]
  BY <1>2, <1>3, <1>8 DEF Process, Places, PairOf
<1>9. CASE new = Ended(proc[p])
  BY <1>3, <1>4, <1>9 DEF GoesOn, PairOf
<1> QED BY <1>6, <1>7, <1>8, <1>9

ServerOK ==
    /\ issued \in Numbers /\ expired \in 0..issued /\ blacklist \subseteq 1..issued
    /\ parent \in [Pairs -> Numbers] /\ \A n \in 1..issued : parent[n] < n
MailOK ==
    inbox \in [Messages -> [ent : Entities, at : {"unsent", "sending", "unread", "read"}]] /\ late \subseteq Messages
FilesOK ==
    disk \in [yaml : {NoFile, Blank} \cup [at : {"present"}, ent : Entities, expiry : Numbers],
              tokens : 0..issued, cursor : 0..MaxMessages, spoilt : SUBSET {"tokens", "cursor"}]
LineageOK ==
    /\ rotators \in [Pairs -> SUBSET Procs] /\ \A n \in Pairs : n > issued => rotators[n] = {}
    /\ mishaps \subseteq Pairs /\ forks \subseteq Pairs

(* The parts of TypeOK.                                                     *)
LEMMA TypeParts ==
  TypeOK <=> ServerOK /\ MailOK /\ (told \subseteq Messages) /\ FilesOK /\ ProcOK /\ LineageOK
BY DEF TypeOK, ServerOK, MailOK, FilesOK, ProcOK, LineageOK

(* Issuing a pair for an old one keeps the server's books, the files and    *)
(* the books kept about pairs in order.                                    *)
LEMMA IssueOK ==
  ASSUME TypeOK, NEW old \in 0..issued, Issue(old), expired' = expired,
         blacklist' = blacklist \/ (old # NoPair /\ blacklist' = blacklist \cup {old})
  PROVE  ServerOK' /\ issued' = issued + 1 /\ issued \in Nat /\ issued + 1 \in Pairs
         /\ (disk' = disk => FilesOK')
<1>1. issued \in Nat /\ issued < MaxPairs /\ MaxPairs \in Nat /\ issued' = issued + 1
      /\ parent' = [parent EXCEPT ![issued + 1] = old]
  BY SessionsAssumption DEF TypeOK, Numbers, Issue
<1>2. issued + 1 \in Pairs
  BY <1>1 DEF Pairs
<1>3. parent' \in [Pairs -> Numbers]
  <2>1. old \in Numbers
    BY <1>1 DEF Numbers
  <2> QED BY <1>1, <2>1 DEF TypeOK
<1>4. \A n \in 1..issued' : parent'[n] < n
  <2> SUFFICES ASSUME NEW n \in 1..issued' PROVE parent'[n] < n
    OBVIOUS
  <2>1. CASE n = issued + 1
    BY <1>1, <1>2, <2>1 DEF TypeOK
  <2>2. CASE n \in 1..issued
    BY <1>1, <2>2 DEF TypeOK, Pairs
  <2> QED BY <1>1, <2>1, <2>2
<1>5. expired' \in 0..issued' /\ blacklist' \subseteq 1..issued' /\ issued' \in Numbers
  <2>1. blacklist \subseteq 1..issued' /\ expired' \in 0..issued' /\ issued' \in Numbers
    BY <1>1 DEF TypeOK, Numbers
  <2>2. old # NoPair => old \in 1..issued'
    BY <1>1 DEF NoPair
  <2> QED BY <2>1, <2>2
<1>6. disk' = disk => FilesOK'
  BY <1>1 DEF TypeOK, FilesOK
<1> QED BY <1>1, <1>2, <1>3, <1>4, <1>5, <1>6 DEF ServerOK

(* Lost is a pair, if any.                                                 *)
LEMMA LostIsPair ==
  ASSUME TypeOK, NEW p \in Procs
  PROVE  (IF PairOf(p) = NoPair THEN NoPair ELSE parent[PairOf(p)]) \in Pairs \cup {NoPair}
<1>1. PairOf(p) \in Nat /\ PairOf(p) <= issued /\ issued <= MaxPairs /\ issued \in Nat
  BY SessionsAssumption DEF TypeOK, PairOf, Process, Numbers
<1>2. PairOf(p) # NoPair => PairOf(p) \in Pairs
  BY <1>1, SessionsAssumption DEF Pairs, NoPair
<1>3. parent \in [Pairs -> Numbers] /\ Numbers = Pairs \cup {NoPair}
  BY SessionsAssumption DEF TypeOK, Numbers, Pairs, NoPair
<1> QED BY <1>2, <1>3

(* A pair exchanged is marked, and somebody gets a new one or goes on.      *)
LEMMA RefreshSorts ==
  ASSUME TypeOK, NEW p \in Procs, Refresh(p)
  PROVE  /\ At(p, "rotate") /\ PairOf(p) \in 1..issued /\ PairOf(p) \in Pairs /\ Issue(PairOf(p))
         /\ UNCHANGED <<expired, mail, disk, told>>
         /\ rotators' = [rotators EXCEPT ![PairOf(p)] = @ \cup {p}]
         /\ \/ /\ blacklist' = blacklist \cup {PairOf(p)} /\ UNCHANGED <<mishaps, forks>>
               /\ Becomes(p, [proc[p] EXCEPT !.at = "saveYaml", !.cfg = AdoptRefreshed(@, issued + 1)])
            \/ /\ UNCHANGED <<blacklist, mishaps>> /\ forks' = forks \cup {PairOf(p)}
               /\ Becomes(p, [proc[p] EXCEPT !.at = "saveYaml", !.cfg = AdoptRefreshed(@, issued + 1)])
            \/ /\ blacklist' = blacklist \cup {PairOf(p)} /\ mishaps' = mishaps \cup {PairOf(p)}
               /\ UNCHANGED forks /\ Becomes(p, Ended(proc[p]))
<1>1. At(p, "rotate") /\ UNCHANGED <<mail, disk, told>>
      /\ rotators' = [rotators EXCEPT ![PairOf(p)] = @ \cup {p}]
  BY DEF Refresh, PairOf
<1>2. PairOf(p) \in 1..issued /\ PairOf(p) \in Pairs
  BY <1>1, SessionsAssumption DEF TypeOK, PairOf, Process, Numbers, Pairs, NoPair, At
<1>3. Issue(PairOf(p)) /\ UNCHANGED expired /\ issued' = issued + 1
  BY DEF Refresh, Rotate, PairOf, Issue
<1> QED BY <1>1, <1>2, <1>3 DEF Refresh, Rotate, Add, PairOf, Ends

(* Who gets a new pair goes to save it.                                     *)
LEMMA Refreshed ==
  ASSUME TypeOK, NEW p \in Procs, issued + 1 \in Pairs
  PROVE  LET new == [proc[p] EXCEPT !.at = "saveYaml", !.cfg = AdoptRefreshed(@, issued + 1)]
         IN  /\ new \in Process /\ new.at = "saveYaml" /\ new.cfg.pair = issued + 1
             /\ new.since = proc[p].since /\ new.got = proc[p].got
<1>1. proc[p] \in Process
  BY DEF TypeOK
<1>2. issued + 1 \in Numbers
  BY DEF Numbers, Pairs
<1> QED BY <1>1, <1>2 DEF AdoptRefreshed, Adopt, Process, Places

(* Every step keeps the types.                                             *)
LEMMA TypeStep ==
  ASSUME TypeOK, [Next]_vars
  PROVE  TypeOK'
<1> USE DEF lineage, sessions, mail
<1>1. ServerOK /\ MailOK /\ (told \subseteq Messages) /\ FilesOK /\ ProcOK /\ LineageOK /\ issued \in Nat
  BY TypeParts DEF TypeOK, Numbers
<1>2. CASE Stutters
  BY <1>2 DEF Stutters, TypeOK
<1>3. CASE Clock
  <2>1. expired' = expired + 1 /\ expired < issued
        /\ UNCHANGED <<issued, blacklist, parent, inbox, late, disk, proc, told, rotators, mishaps, forks>>
    BY <1>3 DEF Clock, AccessExpires, Aside
  <2>2. ServerOK'
    BY <1>1, <2>1 DEF ServerOK, Numbers
  <2>3. MailOK' /\ (told \subseteq Messages)' /\ FilesOK' /\ ProcOK' /\ LineageOK'
    BY <1>1, <2>1 DEF MailOK, FilesOK, ProcOK, LineageOK
  <2> QED BY <2>2, <2>3, TypeParts, PTL
<1>4. CASE Mail
  <2>1. UNCHANGED <<issued, expired, blacklist, parent, disk, proc, told, rotators, mishaps, forks>>
    BY <1>4 DEF Mail, Aside
  <2>2. MailOK'
    <3>1. ASSUME NEW m \in Messages, Insert(m) PROVE MailOK'
      BY <1>1, <3>1 DEF Insert, MailOK
    <3>2. ASSUME NEW m \in Messages, NEW ent \in Enterprises, Stamp(m, ent) PROVE MailOK'
      BY <1>1, <3>2 DEF Stamp, MailOK, Entities
    <3> QED BY <1>4, <3>1, <3>2 DEF Mail
  <2>3. ServerOK' /\ (told \subseteq Messages)' /\ FilesOK' /\ ProcOK' /\ LineageOK'
    BY <1>1, <2>1 DEF ServerOK, FilesOK, ProcOK, LineageOK
  <2> QED BY <2>2, <2>3, TypeParts, PTL
<1>5. ASSUME NEW p \in Procs, Kinds(p) PROVE TypeOK'
  <2> DEFINE Rest == ServerOK' /\ MailOK' /\ (told \subseteq Messages)' /\ FilesOK' /\ LineageOK'
  <2>1. proc[p] \in Process /\ PairOf(p) \in Nat /\ PairOf(p) <= issued
    BY DEF TypeOK, Process, Numbers, PairOf
  <2>2. ASSUME UNCHANGED <<sessions, mail, disk, told, lineage>> PROVE Rest
    BY <1>1, <2>2 DEF ServerOK, MailOK, FilesOK, LineageOK
  <2>16. ASSUME Spares, issued' = issued PROVE FilesOK'
    <3>1. {disk.tokens, NoPair} \subseteq 0..issued /\ {disk.cursor, 0} \subseteq 0..MaxMessages
      BY <1>1, InboxAssumption DEF FilesOK, NoPair
    <3> QED BY <2>16, <3>1 DEF FilesOK, Spares
  <2>3. CASE Walks(p)
    <3>1. Rest /\ issued' = issued
      <4>1. ServerOK' /\ MailOK' /\ (told \subseteq Messages)' /\ LineageOK' /\ issued' = issued
        BY <1>1, <2>3 DEF Walks, ServerOK, MailOK, LineageOK
      <4> QED BY <2>3, <2>16, <4>1 DEF Walks
    <3>2. ProcOK'
      BY <1>1, <2>3, <3>1, GoesOnOK DEF Walks
    <3> QED BY <3>1, <3>2, TypeParts, PTL
  <2>4. CASE Loses(p)
    <3>1. ServerOK' /\ MailOK' /\ (told \subseteq Messages)' /\ FilesOK' /\ issued' = issued
      BY <1>1, <2>4, <2>16 DEF Loses, ServerOK, MailOK
    <3>2. LineageOK'
      BY <1>1, <2>4, LostIsPair DEF Loses, Lose, LineageOK
    <3>3. ProcOK'
      BY <1>1, <2>4, <3>1, GoesOnOK DEF Loses
    <3> QED BY <3>1, <3>2, <3>3, TypeParts, PTL
  <2>5. CASE Takes(p)
    <3>1. Issue(NoPair) /\ UNCHANGED <<expired, blacklist, mail, disk, told, lineage>>
      BY <2>5 DEF Takes
    <3>2. ServerOK' /\ FilesOK' /\ issued' = issued + 1
      <4>1. NoPair \in 0..issued
        BY <1>1 DEF NoPair
      <4> QED BY <3>1, <4>1, IssueOK
    <3>3. MailOK' /\ (told \subseteq Messages)' /\ LineageOK'
      BY <1>1, <3>1, <3>2 DEF MailOK, LineageOK, Pairs
    <3>4. ProcOK'
      <4>1. PICK new \in Process :
              /\ Becomes(p, new)
              /\ \/ GoesOn(proc[p], new)
                 \/ new.at = "saveYaml" /\ new.cfg.pair = issued + 1
        BY <2>5 DEF Takes
      <4>2. issued' \in Nat /\ issued <= issued'
        BY <1>1, <3>2
      <4>3. CASE GoesOn(proc[p], new)
        BY <4>1, <4>2, <4>3, GoesOnOK
      <4>4. CASE new.at = "saveYaml" /\ new.cfg.pair = issued + 1
        BY <3>2, <4>1, <4>2, <4>4, BecomesOK
      <4> QED BY <4>1, <4>3, <4>4
    <3> QED BY <3>2, <3>3, <3>4, TypeParts, PTL
  <2>6. CASE Enters(p)
    <3>1. ServerOK' /\ MailOK' /\ (told \subseteq Messages)' /\ FilesOK' /\ issued' = issued
      BY <1>1, <2>6 DEF Enters, ServerOK, MailOK, FilesOK
    <3>2. PairOf(p) \in Pairs
      BY <2>1, <2>6, SessionsAssumption DEF Enters, TypeOK, Pairs, At, NoPair, PairOf, Numbers
    <3>3. LineageOK'
      BY <1>1, <2>6, <3>1, <3>2 DEF Enters, LineageOK
    <3>4. ProcOK'
      <4>1. Becomes(p, [proc[p] EXCEPT !.at = "rotate"]) /\ At(p, "exchange")
        BY <2>6 DEF Enters, GoTo
      <4>2. [proc[p] EXCEPT !.at = "rotate"] \in Process
        BY <2>1 DEF Process, Places
      <4>3. PairOf(p) # NoPair
        BY <4>1 DEF TypeOK, At, PairOf
      <4> QED BY <1>1, <2>1, <3>1, <4>1, <4>2, <4>3, BecomesOK DEF PairOf, Process
    <3> QED BY <3>1, <3>3, <3>4, TypeParts, PTL
  <2>7. CASE Tells(p)
    <3> DEFINE S == ListUnreadByReceiver(proc[p].cfg.ent, proc[p].since)
           new == [proc[p] EXCEPT !.at = "saveCursor", !.got = S]
    <3>1. S \subseteq Messages
      BY DEF ListUnreadByReceiver, Unreads
    <3>2. /\ Becomes(p, new) /\ told' = told \cup S
          /\ UNCHANGED <<sessions, mail, disk, lineage>>
      BY <2>7 DEF Tells
    <3> HIDE DEF S
    <3>3. new \in Process /\ new.at = "saveCursor" /\ new.got = S /\ S # {} /\ new.cfg.pair = PairOf(p)
      BY <2>1, <2>7, <3>1 DEF Process, Places, PairOf, Tells, S
    <3>4. ServerOK' /\ MailOK' /\ FilesOK' /\ LineageOK' /\ (told \subseteq Messages)' /\ issued' = issued
      BY <1>1, <3>1, <3>2 DEF ServerOK, MailOK, FilesOK, LineageOK
    <3>5. ProcOK'
      <4> HIDE DEF new
      <4> QED BY <1>1, <2>1, <3>2, <3>3, <3>4, BecomesOK
    <3> QED BY <3>4, <3>5, TypeParts, PTL
  <2>8. CASE LoadsTokens(p)
    <3> DEFINE r == [proc[p] EXCEPT !.cfg.pair = disk.tokens]
    <3>1. Rest /\ issued' = issued
      BY <2>2, <2>8 DEF LoadsTokens, LoadTokens, OnlyProc
    <3>2. Becomes(p, Loaded(r)) /\ GoesOn(r, Loaded(r)) /\ r.cfg.pair = disk.tokens
      BY <2>1, <2>8, LoadedOK DEF LoadsTokens, LoadTokens, Process
    <3>3. disk.tokens \in Nat /\ disk.tokens <= issued
      BY <1>1 DEF FilesOK
    <3> HIDE DEF r
    <3>4. ProcOK'
      BY <1>1, <3>1, <3>2, <3>3, BecomesOK DEF GoesOn, NoPair
    <3> QED BY <3>1, <3>4, TypeParts, PTL
  <2>9. CASE LoadsCursor(p)
    <3>1. Rest /\ issued' = issued
      BY <2>2, <2>9 DEF LoadsCursor, LoadCursor, OnlyProc
    <3>2. ProcOK'
      BY <1>1, <2>1, <2>9, <3>1, CursorGoesOn, BecomesOK DEF NoPair
    <3> QED BY <3>1, <3>2, TypeParts, PTL
  <2>10. CASE SaveYaml(p)
    <3>1. ServerOK' /\ MailOK' /\ (told \subseteq Messages)' /\ LineageOK' /\ issued' = issued
      BY <1>1, <2>10 DEF SaveYaml, OnlyDisk, ServerOK, MailOK, LineageOK
    <3>2. FilesOK'
      BY <1>1, <2>1, <2>10, <3>1 DEF SaveYaml, FilesOK, Process
    <3>3. Becomes(p, [proc[p] EXCEPT !.at = "saveTokens"]) /\ [proc[p] EXCEPT !.at = "saveTokens"] \in Process
      BY <2>1, <2>10 DEF SaveYaml, GoTo, Process, Places
    <3>4. ProcOK'
      BY <1>1, <2>1, <3>1, <3>3, BecomesOK DEF PairOf, Process
    <3> QED BY <3>1, <3>2, <3>4, TypeParts, PTL
  <2>11. CASE SaveTokens(p)
    <3>1. ServerOK' /\ MailOK' /\ (told \subseteq Messages)' /\ LineageOK' /\ issued' = issued
      BY <1>1, <2>11 DEF SaveTokens, OnlyDisk, ServerOK, MailOK, LineageOK
    <3>2. FilesOK'
      <4> DEFINE left == disk.spoilt \ {"tokens"}
      <4>1. PairOf(p) \in 0..issued /\ left \in SUBSET {"tokens", "cursor"}
        BY <1>1, <2>1 DEF FilesOK
      <4>2. disk' = [disk EXCEPT !.tokens = PairOf(p), !.spoilt = left]
        BY <2>11 DEF SaveTokens, PairOf
      <4> HIDE DEF left
      <4> QED BY <1>1, <3>1, <4>1, <4>2 DEF FilesOK
    <3>3. ProcOK'
      BY <1>1, <2>1, <2>11, <3>1, SavedGoesOn, GoesOnOK DEF SaveTokens
    <3> QED BY <3>1, <3>2, <3>3, TypeParts, PTL
  <2>12. CASE RemoveTokens(p)
    <3>1. ServerOK' /\ MailOK' /\ (told \subseteq Messages)' /\ LineageOK' /\ issued' = issued
      BY <1>1, <2>12 DEF RemoveTokens, OnlyDisk, ServerOK, MailOK, LineageOK
    <3>2. FilesOK'
      <4> DEFINE left == disk.spoilt \ {"tokens"}
      <4>1. NoPair \in 0..issued /\ left \in SUBSET {"tokens", "cursor"}
        BY <1>1 DEF FilesOK, NoPair
      <4>2. disk' = [disk EXCEPT !.tokens = NoPair, !.spoilt = left]
        BY <2>12 DEF RemoveTokens
      <4> HIDE DEF left
      <4> QED BY <1>1, <3>1, <4>1, <4>2 DEF FilesOK
    <3>3. ProcOK'
      BY <1>1, <2>1, <2>12, <3>1, IdleIsOne, GoesOnOK DEF RemoveTokens
    <3> QED BY <3>1, <3>2, <3>3, TypeParts, PTL
  <2>13. CASE SaveCursor(p)
    <3>1. ServerOK' /\ MailOK' /\ (told \subseteq Messages)' /\ LineageOK' /\ issued' = issued
      BY <1>1, <2>13 DEF SaveCursor, OnlyDisk, ServerOK, MailOK, LineageOK
    <3>2. FilesOK'
      <4>1. Latest(proc[p].got) \in 0..MaxMessages
        <5>1. proc[p].got # {} /\ proc[p].got \subseteq Messages
          BY <2>1, <2>13 DEF SaveCursor, At, TypeOK, Process
        <5> QED BY <5>1, LatestIsOne DEF Messages
      <4>2. CASE disk' = [disk EXCEPT !.cursor = Latest(proc[p].got), !.spoilt = @ \ {"cursor"}]
        BY <1>1, <3>1, <4>1, <4>2 DEF FilesOK
      <4>3. CASE CutShort(p)
        BY <2>16, <3>1, <4>3, FilesSpared
      <4> QED BY <2>13, <4>2, <4>3 DEF SaveCursor
    <3>3. ProcOK'
      BY <1>1, <2>1, <2>13, <3>1, EndedGoesOn, GoesOnOK DEF SaveCursor, Ends
    <3> QED BY <3>1, <3>2, <3>3, TypeParts, PTL
  <2>14. CASE Refresh(p)
    <3>1. Issue(PairOf(p)) /\ PairOf(p) \in 1..issued /\ PairOf(p) \in Pairs /\ UNCHANGED <<expired, mail, disk, told>>
          /\ rotators' = [rotators EXCEPT ![PairOf(p)] = @ \cup {p}]
          /\ (blacklist' = blacklist \/ blacklist' = blacklist \cup {PairOf(p)})
          /\ mishaps' \subseteq mishaps \cup {PairOf(p)} /\ forks' \subseteq forks \cup {PairOf(p)}
      BY <2>14, RefreshSorts
    <3>2. ServerOK' /\ FilesOK' /\ issued' = issued + 1 /\ issued + 1 \in Pairs
      <4>1. PairOf(p) \in 0..issued /\ PairOf(p) # NoPair
        BY <1>1, <3>1 DEF NoPair
      <4> QED BY <3>1, <4>1, IssueOK
    <3>3. MailOK' /\ (told \subseteq Messages)'
      BY <1>1, <3>1 DEF MailOK
    <3>4. LineageOK'
      BY <1>1, <3>1, <3>2 DEF LineageOK, Pairs
    <3>5. ProcOK'
      <4> DEFINE new == [proc[p] EXCEPT !.at = "saveYaml", !.cfg = AdoptRefreshed(@, issued + 1)]
      <4>1. new \in Process /\ new.at = "saveYaml" /\ new.cfg.pair = issued + 1
        BY <3>2, Refreshed
      <4>2. Becomes(p, new) \/ Becomes(p, Ended(proc[p]))
        BY <2>14, RefreshSorts
      <4>3. issued' \in Nat /\ issued <= issued'
        BY <1>1, <3>2
      <4> HIDE DEF new
      <4>4. CASE Becomes(p, new)
        BY <3>2, <4>1, <4>3, <4>4, BecomesOK
      <4>5. CASE Becomes(p, Ended(proc[p]))
        BY <2>1, <4>3, <4>5, EndedGoesOn, GoesOnOK
      <4> QED BY <4>2, <4>4, <4>5
    <3> QED BY <3>2, <3>3, <3>4, <3>5, TypeParts, PTL
  <2>15. CASE MarkAsRead(p)
    <3>1. ServerOK' /\ (told \subseteq Messages)' /\ FilesOK' /\ LineageOK' /\ issued' = issued
      BY <1>1, <2>15 DEF MarkAsRead, ServerOK, FilesOK, LineageOK
    <3>2. MailOK'
      BY <1>1, <2>15 DEF MarkAsRead, MarkRead, MailOK
    <3>3. ProcOK'
      BY <1>1, <2>1, <2>15, <3>1, IdleIsOne, GoesOnOK DEF MarkAsRead
    <3> QED BY <3>1, <3>2, <3>3, TypeParts, PTL
  <2> QED BY <1>5, <2>3, <2>4, <2>5, <2>6, <2>7, <2>8, <2>9, <2>10, <2>11, <2>12, <2>13, <2>14, <2>15 DEF Kinds
<1> QED BY <1>2, <1>3, <1>4, <1>5, StepKinds

(* In the beginning nothing is issued, sent or stored.                      *)
LEMMA TypeInit == Init => TypeOK
<1> SUFFICES ASSUME Init PROVE TypeOK
  OBVIOUS
<1>1. issued = 0 /\ expired = 0 /\ blacklist = {} /\ parent = [n \in Pairs |-> NoPair]
      /\ inbox = [m \in Messages |-> NewMessage] /\ late = {} /\ told = {}
      /\ rotators = [n \in Pairs |-> {}] /\ mishaps = {} /\ forks = {}
  BY DEF Init, SessionsInit, InboxInit
<1>2. disk = [yaml |-> NoFile, tokens |-> 0, cursor |-> 0, spoilt |-> {}] /\ proc = [p \in Procs |-> Idle]
  BY DEF Init, NoPair
<1>3. 0 \in Numbers /\ 0 \in 0..MaxMessages
  BY SessionsAssumption, InboxAssumption DEF Numbers
<1>4. ServerOK
  BY <1>1, <1>3 DEF ServerOK, NoPair
<1>5. MailOK
  BY <1>1 DEF MailOK, NewMessage, Entities
<1>6. FilesOK
  BY <1>1, <1>2, <1>3 DEF FilesOK
<1>7. ProcOK
  BY <1>1, <1>2, IdleIsOne DEF ProcOK, NoPair
<1>8. LineageOK
  BY <1>1 DEF LineageOK
<1> QED BY <1>1, <1>4, <1>5, <1>6, <1>7, <1>8, TypeParts

(* Types: every variable holds what it can hold, and nobody, nor the disk,  *)
(* has a pair that was not issued.                                          *)
THEOREM ClientTypeOK == Spec => []TypeOK
BY TypeInit, TypeStep, PTL DEF Spec

-----------------------------------------------------------------------------
(* One heir per token.                                                     *)

(* What became of the processes.                                           *)
LEMMA Others ==
  ASSUME TypeOK, NEW p \in Procs, NEW new, Becomes(p, new)
  PROVE  proc'[p] = new /\ \A q \in Procs \ {p} : proc'[q] = proc[q]
BY DEF TypeOK, Becomes

(* Where nothing is issued and nobody begins to exchange, heirs stay.       *)
LEMMA HeirFrame ==
  ASSUME HeirInv, OneHeirPerToken, UNCHANGED <<issued, parent>>,
         blacklist \subseteq blacklist', forks \subseteq forks',
         \A q \in Procs : proc'[q] = proc[q] \/ proc'[q].at # "rotate"
  PROVE  HeirInv' /\ OneHeirPerToken'
<1>1. \A q \in Procs : At(q, "rotate")' => At(q, "rotate") /\ PairOf(q)' = PairOf(q)
  BY DEF At, PairOf
<1>2. HeirInv'
  BY <1>1 DEF HeirInv
<1>3. OneHeirPerToken'
  BY DEF OneHeirPerToken
<1> QED BY <1>2, <1>3

(* A step of a process that neither takes tokens nor enters is of that kind. *)
LEMMA HeirSteps ==
  ASSUME TypeOK, NEW p \in Procs, HeirInv, OneHeirPerToken,
         \/ Walks(p) \/ Loses(p) \/ Tells(p) \/ LoadsTokens(p) \/ LoadsCursor(p)
         \/ SaveYaml(p) \/ SaveTokens(p) \/ RemoveTokens(p) \/ SaveCursor(p) \/ MarkAsRead(p)
  PROVE  HeirInv' /\ OneHeirPerToken'
<1>1. UNCHANGED <<issued, parent, blacklist, forks>>
  BY DEF Walks, Loses, Lose, Tells, LoadsTokens, LoadTokens, LoadsCursor, LoadCursor, OnlyProc, SaveYaml, SaveTokens, RemoveTokens, SaveCursor,
         MarkAsRead, OnlyDisk, sessions, lineage
<1>2. proc[p] \in Process
  BY DEF TypeOK
<1>3. \E new : Becomes(p, new) /\ new.at # "rotate"
  <2>1. CASE Walks(p) \/ Loses(p)
    BY <2>1 DEF Walks, Loses, GoesOn
  <2>2. CASE Tells(p)
    <3> DEFINE S == ListUnreadByReceiver(proc[p].cfg.ent, proc[p].since)
               new == [proc[p] EXCEPT !.at = "saveCursor", !.got = S]
    <3>1. Becomes(p, new)
      BY <2>2 DEF Tells
    <3> HIDE DEF S
    <3>2. new.at = "saveCursor"
      BY <1>2 DEF Process
    <3> HIDE DEF new
    <3> QED BY <3>1, <3>2
  <2>3. CASE LoadsTokens(p)
    BY <2>3, LoadedOK DEF LoadsTokens, LoadTokens, GoesOn
  <2>4. CASE LoadsCursor(p)
    BY <2>4, CursorGoesOn
  <2>5. CASE SaveYaml(p)
    BY <1>2, <2>5 DEF SaveYaml, GoTo, Process
  <2>6. CASE SaveTokens(p)
    BY <1>2, <2>6, SavedGoesOn DEF SaveTokens, GoesOn
  <2>7. CASE RemoveTokens(p) \/ MarkAsRead(p)
    BY <2>7, IdleIsOne DEF RemoveTokens, MarkAsRead
  <2>8. CASE SaveCursor(p)
    BY <1>2, <2>8, EndedGoesOn DEF SaveCursor, Ends, GoesOn
  <2> QED BY <2>1, <2>2, <2>3, <2>4, <2>5, <2>6, <2>7, <2>8
<1>4. \A q \in Procs : proc'[q] = proc[q] \/ proc'[q].at # "rotate"
  BY <1>3, Others
<1> QED BY <1>1, <1>4, HeirFrame

(* Every step keeps heirs apart: a token is exchanged again only by one who *)
(* was let in beside another, or because Redis failed.                      *)
LEMMA HeirStep ==
  ASSUME TypeOK, HeirInv, OneHeirPerToken, [Next]_vars
  PROVE  HeirInv' /\ OneHeirPerToken'
<1>1. issued \in Nat /\ issued <= MaxPairs /\ MaxPairs \in Nat /\ proc \in [Procs -> Process]
  BY SessionsAssumption DEF TypeOK, Numbers
<1>2. CASE Stutters \/ Clock \/ Mail
  BY <1>2, HeirFrame DEF Stutters, Clock, Mail, Aside, AccessExpires, sessions, lineage
<1>3. ASSUME NEW p \in Procs, Takes(p) PROVE HeirInv' /\ OneHeirPerToken'
  <2>1. issued' = issued + 1 /\ parent' = [parent EXCEPT ![issued + 1] = NoPair] /\ UNCHANGED <<blacklist, forks>>
        /\ issued < MaxPairs
    BY <1>3 DEF Takes, Issue, lineage
  <2>2. \A m \in 1..issued : parent'[m] = parent[m]
    BY <1>1, <2>1 DEF TypeOK, Pairs
  <2>3. parent'[issued + 1] = NoPair
    BY <1>1, <2>1 DEF TypeOK, Pairs
  <2>4. \A m \in 1..issued' : m \in 1..issued \/ m = issued + 1
    BY <1>1, <2>1
  <2>5. \A q \in Procs : proc'[q] = proc[q] \/ proc'[q].at # "rotate"
    BY <1>3, Others DEF Takes, GoesOn
  <2>6. \A q \in Procs : At(q, "rotate")' => At(q, "rotate") /\ PairOf(q)' = PairOf(q) /\ PairOf(q) # NoPair
    BY <2>5 DEF At, PairOf, TypeOK
  <2>7. HeirInv'
    BY <2>1, <2>2, <2>3, <2>4, <2>6 DEF HeirInv
  <2>8. OneHeirPerToken'
    BY <2>1, <2>2, <2>3, <2>4 DEF OneHeirPerToken
  <2> QED BY <2>7, <2>8
<1>4. ASSUME NEW p \in Procs, Enters(p) PROVE HeirInv' /\ OneHeirPerToken'
  <2>1. UNCHANGED <<issued, parent, blacklist>> /\ At(p, "exchange") /\ Becomes(p, [proc[p] EXCEPT !.at = "rotate"])
    BY <1>4 DEF Enters, GoTo, sessions
  <2>2. \A q \in Procs : PairOf(q)' = PairOf(q) /\ (q # p => (At(q, "rotate")' <=> At(q, "rotate")))
    BY <1>1, <2>1, Others DEF At, PairOf, Process
  <2>3. PICK lookupFails \in BOOLEAN :
          /\ lookupFails \/ ~IsBlacklisted(PairOf(p))
          /\ forks' = IF lookupFails \/ \E q \in Procs \ {p} : At(q, "rotate") /\ PairOf(q) = PairOf(p)
                      THEN forks \cup {PairOf(p)} ELSE forks
    BY <1>4 DEF Enters, AdmitsRefresh
  <2>4. forks \subseteq forks' /\ PairOf(p) # NoPair
    BY <2>1, <2>3 DEF TypeOK, At, PairOf
  <2>5. ASSUME NEW q \in Procs, q # p, At(q, "rotate"), PairOf(q) = PairOf(p) PROVE PairOf(p) \in forks'
    BY <2>3, <2>5
  <2>6. ASSUME NEW m \in 1..issued, parent[m] = PairOf(p) PROVE PairOf(p) \in forks'
    BY <2>3, <2>4, <2>6 DEF HeirInv, IsBlacklisted
  <2>7. \A m \in 1..issued' : parent'[m] # NoPair => parent'[m] \in blacklist' \cup forks'
    BY <2>1, <2>4 DEF HeirInv
  <2>8. ASSUME NEW q \in Procs, NEW m \in 1..issued', At(q, "rotate")', parent'[m] = PairOf(q)' PROVE PairOf(q)' \in forks'
    <3>1. m \in 1..issued /\ parent[m] = PairOf(q)
      BY <2>1, <2>2, <2>8
    <3>2. CASE q = p
      BY <2>2, <2>6, <3>1, <3>2
    <3>3. CASE q # p
      BY <2>2, <2>4, <2>8, <3>1, <3>3 DEF HeirInv
    <3> QED BY <3>2, <3>3
  <2>9. ASSUME NEW q \in Procs, NEW r \in Procs, At(q, "rotate")', At(r, "rotate")', PairOf(q)' = PairOf(r)', q # r
        PROVE  PairOf(q)' \in forks'
    <3>1. CASE q = p
      BY <2>2, <2>5, <2>9, <3>1
    <3>2. CASE r = p
      BY <2>2, <2>5, <2>9, <3>2
    <3>3. CASE q # p /\ r # p
      BY <2>2, <2>4, <2>9, <3>3 DEF HeirInv
    <3> QED BY <3>1, <3>2, <3>3
  <2>10. HeirInv'
    BY <2>7, <2>8, <2>9 DEF HeirInv
  <2>11. OneHeirPerToken'
    BY <2>1, <2>4 DEF OneHeirPerToken
  <2> QED BY <2>10, <2>11
<1>5. ASSUME NEW p \in Procs, Refresh(p) PROVE HeirInv' /\ OneHeirPerToken'
  <2> DEFINE n == PairOf(p)
  <2>1. /\ At(p, "rotate") /\ n \in 1..issued /\ issued' = issued + 1 /\ issued < MaxPairs
        /\ parent' = [parent EXCEPT ![issued + 1] = n]
        /\ blacklist \subseteq blacklist' /\ forks \subseteq forks' /\ n \in blacklist' \cup forks'
    BY <1>5, RefreshSorts DEF Issue
  <2>2. (\A m \in 1..issued : parent'[m] = parent[m]) /\ parent'[issued + 1] = n
    BY <1>1, <2>1 DEF TypeOK, Pairs
  <2>3. \A m \in 1..issued' : m \in 1..issued \/ m = issued + 1
    BY <1>1, <2>1
  <2>4. proc'[p].at # "rotate" /\ \A q \in Procs \ {p} : proc'[q] = proc[q]
    <3>1. issued + 1 \in Pairs
      BY <1>1, <2>1 DEF Pairs
    <3>2. GoesOn(proc[p], Ended(proc[p]))
      BY <1>1, EndedGoesOn
    <3> QED BY <1>5, <3>1, <3>2, RefreshSorts, Refreshed, Others DEF GoesOn
  <2>5. \A q \in Procs : At(q, "rotate")' => q # p /\ At(q, "rotate") /\ PairOf(q)' = PairOf(q)
    BY <2>4 DEF At, PairOf
  <2>6. \A m \in 1..issued : parent[m] = n => n \in forks
    BY <2>1 DEF HeirInv
  <2>7. \A m \in 1..issued' : parent'[m] # NoPair => parent'[m] \in blacklist' \cup forks'
    BY <2>1, <2>2, <2>3 DEF HeirInv
  <2>8. ASSUME NEW q \in Procs, NEW m \in 1..issued', At(q, "rotate")', parent'[m] = PairOf(q)' PROVE PairOf(q)' \in forks'
    <3>1. q # p /\ At(q, "rotate") /\ PairOf(q)' = PairOf(q)
      BY <2>5, <2>8
    <3>2. CASE m \in 1..issued
      BY <2>1, <2>2, <2>8, <3>1, <3>2 DEF HeirInv
    <3>3. CASE m = issued + 1
      BY <2>1, <2>2, <2>8, <3>1, <3>3 DEF HeirInv
    <3> QED BY <2>3, <3>2, <3>3
  <2>9. ASSUME NEW q \in Procs, NEW r \in Procs, At(q, "rotate")', At(r, "rotate")', PairOf(q)' = PairOf(r)', q # r
        PROVE  PairOf(q)' \in forks'
    BY <2>1, <2>5, <2>9 DEF HeirInv
  <2>10. HeirInv'
    BY <2>7, <2>8, <2>9 DEF HeirInv
  <2>11. OneHeirPerToken'
    <3> SUFFICES ASSUME NEW k \in 1..issued', NEW m \in 1..issued', k # m, parent'[k] = parent'[m], parent'[k] # NoPair
                 PROVE  parent'[k] \in forks'
      BY DEF OneHeirPerToken
    <3>1. CASE k \in 1..issued /\ m \in 1..issued
      BY <2>1, <2>2, <3>1 DEF OneHeirPerToken
    <3>2. CASE k = issued + 1 \/ m = issued + 1
      BY <1>1, <2>1, <2>2, <2>3, <2>6, <3>2
    <3> QED BY <2>3, <3>1, <3>2
  <2> QED BY <2>10, <2>11
<1> QED BY <1>2, <1>3, <1>4, <1>5, HeirSteps, StepKinds DEF Kinds

(* A refresh token is exchanged for one pair: a second exchange needs two   *)
(* clients between lookup and Add, or a Redis command that failed.          *)
THEOREM OneHeir == Spec => []OneHeirPerToken
<1> DEFINE IInv == TypeOK /\ HeirInv /\ OneHeirPerToken
<1>1. Init => HeirInv /\ OneHeirPerToken
  BY DEF Init, SessionsInit, HeirInv, OneHeirPerToken, At, Idle, NoPair
<1>2. IInv /\ [Next]_vars => IInv'
  BY HeirStep, TypeStep
<1> QED BY <1>1, <1>2, TypeInit, PTL DEF Spec

-----------------------------------------------------------------------------
(* Why a refresh token is refused.                                         *)

(* A process that is not saving, and comes to have its pair, the one on the *)
(* disk or none, has no pair to save.                                       *)
LEMMA CauseFrame ==
  ASSUME TypeOK, CauseInv, NEW p \in Procs, UNCHANGED <<blacklist, parent, rotators>>, mishaps \subseteq mishaps',
         disk'.tokens \in {disk.tokens, NoPair}, ~Saving(p), \A q \in Procs \ {p} : proc'[q] = proc[q],
         PairOf(p)' \in {PairOf(p), NoPair, disk.tokens}, Saving(p)' => PairOf(p)' = NoPair
  PROVE  CauseInv'
<1>1. \A q \in Procs \ {p} : PairOf(q)' = PairOf(q) /\ (Saving(q)' <=> Saving(q))
  BY DEF PairOf, Saving
<1>2. \A n \in Pairs : n # NoPair
  BY DEF Pairs, NoPair
<1>3. \A n \in blacklist' : rotators'[n] # {}
  BY DEF CauseInv
<1>4. ASSUME NEW q \in Procs, NEW n \in Pairs, rotators'[n] = {q}, n \notin mishaps'
      PROVE  /\ PairOf(q)' # n
             /\ disk'.tokens = n => Saving(q)' /\ PairOf(q)' # NoPair /\ parent'[PairOf(q)'] = n
  <2>1. /\ PairOf(q) # n
        /\ disk.tokens = n => Saving(q) /\ PairOf(q) # NoPair /\ parent[PairOf(q)] = n
    BY <1>4 DEF CauseInv
  <2>2. CASE q = p
    BY <1>2, <2>1, <2>2
  <2>3. CASE q # p
    BY <1>1, <1>2, <2>1, <2>3
  <2> QED BY <2>2, <2>3
<1>5. ASSUME NEW q \in Procs, Saving(q)', PairOf(q)' # NoPair
      PROVE  /\ rotators'[PairOf(q)'] = {} /\ disk'.tokens # PairOf(q)'
             /\ \A r \in Procs \ {q} : PairOf(r)' # PairOf(q)'
  <2>1. q # p /\ Saving(q) /\ PairOf(q) # NoPair /\ PairOf(q)' = PairOf(q)
    BY <1>1, <1>5
  <2>2. /\ rotators[PairOf(q)] = {} /\ disk.tokens # PairOf(q)
        /\ \A r \in Procs \ {q} : PairOf(r) # PairOf(q)
    BY <2>1 DEF CauseInv
  <2>3. ASSUME NEW r \in Procs \ {q} PROVE PairOf(r)' # PairOf(q)'
    BY <1>1, <2>1, <2>2
  <2> QED BY <2>1, <2>2, <2>3
<1> QED BY <1>3, <1>4, <1>5 DEF CauseInv

(* The steps of that kind.                                                 *)
LEMMA CauseSteps ==
  ASSUME TypeOK, NEW p \in Procs, CauseInv,
         \/ Walks(p) \/ Enters(p) \/ Tells(p) \/ LoadsTokens(p) \/ LoadsCursor(p) \/ RemoveTokens(p)
         \/ SaveCursor(p) \/ MarkAsRead(p)
  PROVE  CauseInv'
<1>1. UNCHANGED <<blacklist, parent, rotators, mishaps>>
  BY DEF Walks, Enters, Tells, LoadsTokens, LoadTokens, LoadsCursor, LoadCursor, OnlyProc, RemoveTokens, SaveCursor,
         MarkAsRead, OnlyDisk, sessions, lineage
<1>2. proc[p] \in Process
  BY DEF TypeOK
<1>3. ~Saving(p)
  BY DEF Walks, Enters, Tells, LoadsTokens, LoadTokens, LoadsCursor, LoadCursor, RemoveTokens, SaveCursor, MarkAsRead, At, Saving
<1>4. disk'.tokens \in {disk.tokens, NoPair}
  <2>1. RemoveTokens(p) => disk'.tokens = NoPair
    BY DEF RemoveTokens, TypeOK
  <2>2. SaveCursor(p) => disk'.tokens = disk.tokens
    BY FilesSpared DEF SaveCursor, TypeOK, At, Saving
  <2>3. Walks(p) => disk'.tokens \in {disk.tokens, NoPair}
    BY DEF Walks, Spares
  <2> QED BY <2>1, <2>2, <2>3 DEF Enters, Tells, LoadsTokens, LoadTokens, LoadsCursor, LoadCursor, OnlyProc, MarkAsRead
<1>5. \E new : /\ Becomes(p, new) /\ new.cfg.pair \in {PairOf(p), NoPair, disk.tokens}
               /\ new.at \in {"saveYaml", "saveTokens"} => new.cfg.pair = NoPair
  <2>1. CASE Walks(p)
    BY <2>1 DEF Walks, GoesOn, PairOf
  <2>2. CASE Tells(p)
    <3> DEFINE S == ListUnreadByReceiver(proc[p].cfg.ent, proc[p].since)
               new == [proc[p] EXCEPT !.at = "saveCursor", !.got = S]
    <3>1. Becomes(p, new)
      BY <2>2 DEF Tells
    <3> HIDE DEF S
    <3>2. new.at = "saveCursor" /\ new.cfg = proc[p].cfg
      BY <1>2 DEF Process
    <3> HIDE DEF new
    <3> QED BY <3>1, <3>2 DEF PairOf
  <2>3. CASE LoadsTokens(p)
    <3> DEFINE r == [proc[p] EXCEPT !.cfg.pair = disk.tokens]
    <3>1. Becomes(p, Loaded(r)) /\ GoesOn(r, Loaded(r)) /\ r.cfg.pair = disk.tokens
      BY <1>2, <2>3, LoadedOK DEF LoadsTokens, LoadTokens, Process
    <3> HIDE DEF r
    <3> QED BY <3>1 DEF GoesOn
  <2>4. CASE LoadsCursor(p)
    BY <2>4, CursorGoesOn
  <2>5. CASE Enters(p)
    <3>1. Becomes(p, [proc[p] EXCEPT !.at = "rotate"])
      BY <2>5 DEF Enters, GoTo
    <3>2. [proc[p] EXCEPT !.at = "rotate"].cfg = proc[p].cfg /\ [proc[p] EXCEPT !.at = "rotate"].at = "rotate"
      BY <1>2 DEF Process
    <3> QED BY <3>1, <3>2 DEF PairOf
  <2>6. CASE RemoveTokens(p) \/ MarkAsRead(p)
    BY <2>6, IdleIsOne DEF RemoveTokens, MarkAsRead
  <2>7. CASE SaveCursor(p)
    BY <1>2, <2>7, EndedGoesOn DEF SaveCursor, Ends, GoesOn, PairOf
  <2> QED BY <2>1, <2>2, <2>3, <2>4, <2>5, <2>6, <2>7
<1>6. /\ \A q \in Procs \ {p} : proc'[q] = proc[q]
      /\ PairOf(p)' \in {PairOf(p), NoPair, disk.tokens}
      /\ Saving(p)' => PairOf(p)' = NoPair
  BY <1>5, Others DEF PairOf, Saving
<1> QED BY <1>1, <1>3, <1>4, <1>6, CauseFrame

(* Every step keeps the causes.                                             *)
LEMMA CauseStep ==
  ASSUME TypeOK, CauseInv, [Next]_vars
  PROVE  CauseInv'
<1>1. issued \in Nat /\ proc \in [Procs -> Process] /\ \A n \in Pairs : n # NoPair
  BY DEF TypeOK, Numbers, Pairs, NoPair
<1>2. \A q \in Procs : PairOf(q) \in Nat /\ PairOf(q) <= issued
  BY DEF TypeOK, Process, Numbers, PairOf
<1>3. disk.tokens \in Nat /\ disk.tokens <= issued
  BY <1>1 DEF TypeOK
<1>4. \A q \in Procs : PairOf(q) # NoPair => PairOf(q) \in Pairs /\ PairOf(q) \in 1..issued
  BY <1>1, <1>2, SessionsAssumption DEF Pairs, NoPair, TypeOK, Numbers
<1>5. CASE Stutters \/ Clock \/ Mail
  <2>1. UNCHANGED <<blacklist, parent, rotators, mishaps, proc, disk>>
    BY <1>5 DEF Stutters, Clock, Mail, Aside, AccessExpires, sessions, lineage
  <2> QED BY <2>1 DEF CauseInv, PairOf, Saving
<1>6. ASSUME NEW p \in Procs, Loses(p) PROVE CauseInv'
  <2>1. PICK new : Becomes(p, new) /\ GoesOn(proc[p], new)
    BY <1>6 DEF Loses
  <2>2. /\ UNCHANGED <<issued, blacklist, parent, rotators>> /\ Saving(p) /\ disk'.tokens \in {disk.tokens, NoPair}
        /\ mishaps' = mishaps \cup ({IF PairOf(p) = NoPair THEN NoPair ELSE parent[PairOf(p)]} \ {NoPair})
    BY <1>6 DEF Loses, Lose, sessions, Spares
  <2>3. /\ \A q \in Procs \ {p} : PairOf(q)' = PairOf(q) /\ (Saving(q)' <=> Saving(q))
        /\ PairOf(p)' \in {PairOf(p), NoPair} /\ (Saving(p)' => PairOf(p)' = NoPair)
    BY <2>1, Others DEF GoesOn, PairOf, Saving
  <2>4. ASSUME NEW q \in Procs, NEW n \in Pairs, rotators'[n] = {q}, n \notin mishaps'
        PROVE  /\ PairOf(q)' # n
               /\ disk'.tokens = n => Saving(q)' /\ PairOf(q)' # NoPair /\ parent'[PairOf(q)'] = n
    <3>1. n \notin mishaps
      BY <2>2, <2>4
    <3>2. /\ PairOf(q) # n
          /\ disk.tokens = n => Saving(q) /\ PairOf(q) # NoPair /\ parent[PairOf(q)] = n
      BY <2>2, <2>4, <3>1 DEF CauseInv
    <3>3. CASE q = p
      BY <1>1, <2>2, <2>3, <2>4, <3>2, <3>3
    <3>4. CASE q # p
      BY <1>1, <2>2, <2>3, <3>2, <3>4
    <3> QED BY <3>3, <3>4
  <2>5. ASSUME NEW q \in Procs, Saving(q)', PairOf(q)' # NoPair
        PROVE  /\ rotators'[PairOf(q)'] = {} /\ disk'.tokens # PairOf(q)'
               /\ \A r \in Procs \ {q} : PairOf(r)' # PairOf(q)'
    <3>1. q # p /\ Saving(q) /\ PairOf(q) # NoPair /\ PairOf(q)' = PairOf(q)
      BY <2>3, <2>5
    <3>2. /\ rotators[PairOf(q)] = {} /\ disk.tokens # PairOf(q)
          /\ \A r \in Procs \ {q} : PairOf(r) # PairOf(q)
      BY <3>1 DEF CauseInv
    <3>3. ASSUME NEW r \in Procs \ {q} PROVE PairOf(r)' # PairOf(q)'
      BY <2>3, <3>1, <3>2
    <3> QED BY <2>2, <3>1, <3>2, <3>3
  <2>6. \A n \in blacklist' : rotators'[n] # {}
    BY <2>2 DEF CauseInv
  <2> QED BY <2>4, <2>5, <2>6 DEF CauseInv
<1>7. ASSUME NEW p \in Procs, SaveYaml(p) PROVE CauseInv'
  <2>1. Becomes(p, [proc[p] EXCEPT !.at = "saveTokens"]) /\ Saving(p) /\ disk'.tokens = disk.tokens
        /\ UNCHANGED <<blacklist, parent, rotators, mishaps>>
    BY <1>7 DEF SaveYaml, GoTo, Saving, At, OnlyDisk, sessions, lineage, TypeOK
  <2>2. \A q \in Procs : PairOf(q)' = PairOf(q) /\ (Saving(q)' <=> Saving(q))
    BY <1>1, <2>1, Others DEF PairOf, Saving, Process
  <2> QED BY <2>1, <2>2 DEF CauseInv
<1>8. ASSUME NEW p \in Procs, SaveTokens(p) PROVE CauseInv'
  <2>1. Becomes(p, Saved(proc[p])) /\ Saving(p) /\ disk'.tokens = PairOf(p)
        /\ UNCHANGED <<blacklist, parent, rotators, mishaps>>
    BY <1>8 DEF SaveTokens, PairOf, Saving, At, OnlyDisk, sessions, lineage, TypeOK
  <2>2. /\ \A q \in Procs \ {p} : PairOf(q)' = PairOf(q) /\ (Saving(q)' <=> Saving(q))
        /\ PairOf(p)' \in {PairOf(p), NoPair} /\ ~Saving(p)'
    BY <1>1, <2>1, Others, SavedGoesOn DEF GoesOn, PairOf, Saving
  <2>3. PairOf(p) # NoPair => rotators[PairOf(p)] = {}
    BY <2>1 DEF CauseInv
  <2>4. ASSUME NEW q \in Procs, NEW n \in Pairs, rotators'[n] = {q}, n \notin mishaps'
        PROVE  PairOf(q)' # n /\ disk'.tokens # n
    <3>1. PairOf(q) # n
      BY <2>1, <2>4 DEF CauseInv
    <3>2. disk'.tokens # n
      BY <1>1, <2>1, <2>3, <2>4
    <3> QED BY <1>1, <2>2, <3>1, <3>2
  <2>5. ASSUME NEW q \in Procs, Saving(q)', PairOf(q)' # NoPair
        PROVE  /\ rotators'[PairOf(q)'] = {} /\ disk'.tokens # PairOf(q)'
               /\ \A r \in Procs \ {q} : PairOf(r)' # PairOf(q)'
    <3>1. q # p /\ Saving(q) /\ PairOf(q) # NoPair /\ PairOf(q)' = PairOf(q)
      BY <2>2, <2>5
    <3>2. /\ rotators[PairOf(q)] = {}
          /\ \A r \in Procs \ {q} : PairOf(r) # PairOf(q)
      BY <3>1 DEF CauseInv
    <3>3. ASSUME NEW r \in Procs \ {q} PROVE PairOf(r)' # PairOf(q)'
      BY <2>2, <3>1, <3>2
    <3> QED BY <2>1, <3>1, <3>2, <3>3
  <2>6. \A n \in blacklist' : rotators'[n] # {}
    BY <2>1 DEF CauseInv
  <2> QED BY <2>4, <2>5, <2>6 DEF CauseInv
<1>9. ASSUME NEW p \in Procs, Takes(p) PROVE CauseInv'
  <2>1. /\ issued' = issued + 1 /\ parent' = [parent EXCEPT ![issued + 1] = NoPair] /\ issued + 1 \in Pairs
        /\ UNCHANGED <<blacklist, rotators, mishaps, disk>> /\ ~Saving(p)
    BY <1>1, <1>9, SessionsAssumption DEF Takes, Issue, lineage, Pairs, Saving
  <2>2. rotators[issued + 1] = {}
    BY <1>1, <2>1 DEF TypeOK
  <2>3. \A q \in Procs : PairOf(q) # NoPair => parent'[PairOf(q)] = parent[PairOf(q)]
    BY <1>1, <1>2, <1>4, <2>1 DEF TypeOK
  <2>4. /\ \A q \in Procs \ {p} : PairOf(q)' = PairOf(q) /\ (Saving(q)' <=> Saving(q))
        /\ PairOf(p)' \in {PairOf(p), NoPair, issued + 1} /\ (Saving(p)' => PairOf(p)' \in {NoPair, issued + 1})
    BY <1>9, Others DEF Takes, GoesOn, PairOf, Saving
  <2>5. ASSUME NEW q \in Procs, NEW n \in Pairs, rotators'[n] = {q}, n \notin mishaps'
        PROVE  /\ PairOf(q)' # n
               /\ disk'.tokens = n => Saving(q)' /\ PairOf(q)' # NoPair /\ parent'[PairOf(q)'] = n
    <3>1. /\ PairOf(q) # n
          /\ disk.tokens = n => Saving(q) /\ PairOf(q) # NoPair /\ parent[PairOf(q)] = n
      BY <2>1, <2>5 DEF CauseInv
    <3>2. CASE q = p
      BY <1>1, <2>1, <2>2, <2>4, <2>5, <3>1, <3>2
    <3>3. CASE q # p
      BY <2>1, <2>3, <2>4, <3>1, <3>3
    <3> QED BY <3>2, <3>3
  <2>6. ASSUME NEW q \in Procs, Saving(q)', PairOf(q)' # NoPair
        PROVE  /\ rotators'[PairOf(q)'] = {} /\ disk'.tokens # PairOf(q)'
               /\ \A r \in Procs \ {q} : PairOf(r)' # PairOf(q)'
    <3>1. CASE q = p
      <4>1. PairOf(p)' = issued + 1
        BY <2>4, <2>6, <3>1
      <4>2. ASSUME NEW r \in Procs \ {p} PROVE PairOf(r)' # issued + 1
        BY <1>1, <1>2, <2>4
      <4> QED BY <1>1, <1>3, <2>1, <2>2, <3>1, <4>1, <4>2
    <3>2. CASE q # p
      <4>1. Saving(q) /\ PairOf(q) # NoPair /\ PairOf(q)' = PairOf(q)
        BY <2>4, <2>6, <3>2
      <4>2. /\ rotators[PairOf(q)] = {} /\ disk.tokens # PairOf(q)
            /\ \A r \in Procs \ {q} : PairOf(r) # PairOf(q)
        BY <4>1 DEF CauseInv
      <4>3. PairOf(q) # issued + 1
        BY <1>1, <1>2
      <4>4. ASSUME NEW r \in Procs \ {q} PROVE PairOf(r)' # PairOf(q)'
        BY <2>4, <4>1, <4>2, <4>3
      <4> QED BY <2>1, <4>1, <4>2, <4>4
    <3> QED BY <3>1, <3>2
  <2>7. \A n \in blacklist' : rotators'[n] # {}
    BY <2>1 DEF CauseInv
  <2> QED BY <2>5, <2>6, <2>7 DEF CauseInv
<1>10. ASSUME NEW p \in Procs, Refresh(p) PROVE CauseInv'
  <2> DEFINE n0 == PairOf(p)
             k == issued + 1
  <2>1. /\ At(p, "rotate") /\ n0 \in 1..issued /\ n0 \in Pairs /\ UNCHANGED disk
        /\ issued' = k /\ parent' = [parent EXCEPT ![k] = n0] /\ k \in Pairs
        /\ rotators' = [rotators EXCEPT ![n0] = @ \cup {p}]
        /\ blacklist' \subseteq blacklist \cup {n0} /\ mishaps \subseteq mishaps' /\ ~Saving(p)
    <3>1. issued' = k /\ parent' = [parent EXCEPT ![k] = n0] /\ k \in Pairs
      <4>1. Issue(PairOf(p))
        BY <1>10, RefreshSorts
      <4>2. issued < MaxPairs /\ issued' = k /\ parent' = [parent EXCEPT ![k] = n0]
        BY <4>1 DEF Issue
      <4> QED BY <1>1, <4>2, SessionsAssumption DEF Pairs
    <3>2. mishaps \subseteq mishaps' /\ blacklist' \subseteq blacklist \cup {n0}
      BY <1>10, RefreshSorts
    <3>3. ~Saving(p)
      BY <1>10 DEF Refresh, At, Saving
    <3> QED BY <1>10, <3>1, <3>2, <3>3, RefreshSorts
  <2>2. rotators[k] = {} /\ k # n0 /\ rotators \in [Pairs -> SUBSET Procs] /\ parent \in [Pairs -> Numbers]
    BY <1>1, <2>1 DEF TypeOK
  <2>3. rotators'[n0] = rotators[n0] \cup {p} /\ (\A n \in Pairs \ {n0} : rotators'[n] = rotators[n])
        /\ parent'[k] = n0 /\ (\A n \in Pairs \ {k} : parent'[n] = parent[n])
    BY <2>1, <2>2
  <2>4. \A q \in Procs \ {p} : PairOf(q)' = PairOf(q) /\ (Saving(q)' <=> Saving(q))
    BY <1>10, RefreshSorts, Others DEF PairOf, Saving
  <2>5. \/ Saving(p)' /\ PairOf(p)' = k
        \/ n0 \in mishaps' /\ PairOf(p)' \in {n0, NoPair} /\ (Saving(p)' => PairOf(p)' = NoPair)
    <3>1. GoesOn(proc[p], Ended(proc[p]))
      BY <1>1, EndedGoesOn
    <3>2. n0 \in mishaps' /\ Becomes(p, Ended(proc[p])) =>
            n0 \in mishaps' /\ PairOf(p)' \in {n0, NoPair} /\ (Saving(p)' => PairOf(p)' = NoPair)
      BY <3>1, Others DEF GoesOn, PairOf, Saving
    <3>3. Becomes(p, [proc[p] EXCEPT !.at = "saveYaml", !.cfg = AdoptRefreshed(@, issued + 1)])
            => Saving(p)' /\ PairOf(p)' = k
      <4> DEFINE new == [proc[p] EXCEPT !.at = "saveYaml", !.cfg = AdoptRefreshed(@, issued + 1)]
      <4>1. new.at = "saveYaml" /\ new.cfg.pair = k
        BY <2>1, Refreshed
      <4> HIDE DEF new
      <4>2. Becomes(p, new) => Saving(p)' /\ PairOf(p)' = k
        BY <4>1, Others DEF PairOf, Saving
      <4> QED BY <4>2 DEF new
    <3> QED BY <1>10, <3>2, <3>3, RefreshSorts
  <2>6. k # NoPair /\ k \notin 1..issued /\ \A q \in Procs : PairOf(q) # k
    BY <1>1, <1>2, <2>1
  <2> HIDE DEF k
  <2>7. \A n \in blacklist' : rotators'[n] # {}
    <3> SUFFICES ASSUME NEW n \in blacklist' PROVE rotators'[n] # {}
      OBVIOUS
    <3>1. CASE n = n0
      BY <2>3, <3>1
    <3>2. CASE n # n0
      <4>1. n \in blacklist /\ n \in Pairs
        BY <2>1, <3>2, SessionsAssumption DEF TypeOK, Pairs, Numbers
      <4> QED BY <2>3, <3>2, <4>1 DEF CauseInv
    <3> QED BY <3>1, <3>2
  <2>8. ASSUME NEW q \in Procs, NEW n \in Pairs, rotators'[n] = {q}, n \notin mishaps'
        PROVE  /\ PairOf(q)' # n
               /\ disk'.tokens = n => Saving(q)' /\ PairOf(q)' # NoPair /\ parent'[PairOf(q)'] = n
    <3>1. CASE n = n0
      <4>1. q = p /\ Saving(p)' /\ PairOf(p)' = k
        BY <2>3, <2>5, <2>8, <3>1
      <4> QED BY <2>2, <2>3, <2>6, <3>1, <4>1
    <3>2. CASE n # n0
      <4>1. rotators[n] = {q} /\ n \notin mishaps
        BY <2>1, <2>3, <2>8, <3>2
      <4>2. /\ PairOf(q) # n
            /\ disk.tokens = n => Saving(q) /\ PairOf(q) # NoPair /\ parent[PairOf(q)] = n
        BY <4>1 DEF CauseInv
      <4>3. CASE q = p
        BY <1>1, <2>1, <2>2, <2>5, <3>2, <4>1, <4>2, <4>3
      <4>4. CASE q # p
        BY <1>4, <2>1, <2>3, <2>4, <2>6, <4>2, <4>4
      <4> QED BY <4>3, <4>4
    <3> QED BY <3>1, <3>2
  <2>9. ASSUME NEW q \in Procs, Saving(q)', PairOf(q)' # NoPair
        PROVE  /\ rotators'[PairOf(q)'] = {} /\ disk'.tokens # PairOf(q)'
               /\ \A r \in Procs \ {q} : PairOf(r)' # PairOf(q)'
    <3>1. CASE q = p
      <4>1. PairOf(p)' = k
        BY <2>5, <2>9, <3>1
      <4>2. disk'.tokens # k
        BY <1>1, <1>3, <2>1 DEF k
      <4>3. ASSUME NEW r \in Procs \ {p} PROVE PairOf(r)' # k
        BY <2>4, <2>6
      <4> QED BY <2>1, <2>2, <2>3, <3>1, <4>1, <4>2, <4>3
    <3>2. CASE q # p
      <4>1. Saving(q) /\ PairOf(q) # NoPair /\ PairOf(q)' = PairOf(q)
        BY <2>4, <2>9, <3>2
      <4>2. /\ rotators[PairOf(q)] = {} /\ disk.tokens # PairOf(q)
            /\ \A r \in Procs \ {q} : PairOf(r) # PairOf(q)
        BY <4>1 DEF CauseInv
      <4>3. PairOf(q) # n0 /\ PairOf(q) # k /\ PairOf(q) \in Pairs
        BY <1>4, <2>6, <3>2, <4>1, <4>2
      <4>4. ASSUME NEW r \in Procs \ {q} PROVE PairOf(r)' # PairOf(q)'
        BY <2>4, <2>5, <4>1, <4>2, <4>3
      <4> QED BY <2>1, <2>3, <4>1, <4>2, <4>3, <4>4
    <3> QED BY <3>1, <3>2
  <2> QED BY <2>7, <2>8, <2>9 DEF CauseInv
<1> QED BY <1>5, <1>6, <1>7, <1>8, <1>9, <1>10, CauseSteps, StepKinds DEF Kinds

(* A client whose refresh token the server refuses lost it to another       *)
(* process or to an answer, a write or a process that failed: whoever      *)
(* exchanged a pair alone and without such a mishap holds it no more, and   *)
(* finds it nowhere.                                                        *)
THEOREM RefusalsHaveCauses == Spec => []RefusedHasCause
<1> DEFINE IInv == TypeOK /\ CauseInv
<1>1. Init => CauseInv
  <2> SUFFICES ASSUME Init PROVE CauseInv
    OBVIOUS
  <2>1. blacklist = {} /\ rotators = [n \in Pairs |-> {}] /\ proc = [p \in Procs |-> Idle]
    BY DEF Init, SessionsInit
  <2>2. \A p \in Procs : ~Saving(p)
    BY <2>1, IdleIsOne DEF Saving
  <2>3. \A n \in Pairs : rotators[n] = {}
    BY <2>1
  <2> QED BY <2>1, <2>2, <2>3 DEF CauseInv
<1>2. IInv /\ [Next]_vars => IInv'
  BY CauseStep, TypeStep
<1>3. IInv => RefusedHasCause
  <2> SUFFICES ASSUME IInv, NEW p \in Procs, At(p, "exchange"), IsBlacklisted(PairOf(p)),
                      rotators[PairOf(p)] \ {p} = {}, PairOf(p) \notin mishaps
               PROVE  FALSE
    BY DEF RefusedHasCause, PairOf
  <2>1. PairOf(p) \in blacklist /\ PairOf(p) \in Pairs
    <3>1. blacklist \subseteq 1..issued /\ issued \in Nat /\ issued <= MaxPairs
      BY SessionsAssumption DEF TypeOK, Numbers
    <3>2. PairOf(p) \in blacklist
      BY DEF IsBlacklisted
    <3>3. PairOf(p) \in 1..issued
      BY <3>1, <3>2
    <3> QED BY <3>1, <3>2, <3>3, SessionsAssumption DEF Pairs
  <2>2. rotators[PairOf(p)] = {p}
    BY <2>1 DEF CauseInv
  <2> QED BY <2>1, <2>2 DEF CauseInv
<1> QED BY <1>1, <1>2, <1>3, TypeInit, PTL DEF Spec

-----------------------------------------------------------------------------
(* The cursor skips nothing.                                               *)

(* Before the first message nothing is passed.                             *)
LEMMA ZeroIsBacked == Backed(0)
BY InboxAssumption DEF Backed, Messages

(* How the mailbox changes: a row may come to be unread, and then it is     *)
(* late if a later one is there; a row that is there stays, with its        *)
(* enterprise.                                                              *)
Delivers ==
    /\ late \subseteq late'
    /\ \A m \in Messages : Visible(m) => Visible(m)' /\ inbox'[m].ent = inbox[m].ent
    /\ \A m \in Messages : Unread(m)' =>
          \/ Unread(m)
          \/ ~Visible(m) /\ \A n \in Messages : n > m /\ Visible(n) => m \in late'

(* Sending, receiving and marking read change the mailbox so.               *)
LEMMA MailDelivers ==
  ASSUME TypeOK, Mail \/ UNCHANGED mail \/ \E p \in Procs : MarkAsRead(p)
  PROVE  Delivers
<1>1. inbox \in [Messages -> [ent : Entities, at : {"unsent", "sending", "unread", "read"}]]
  BY DEF TypeOK
<1>2. CASE UNCHANGED mail
  BY <1>2 DEF mail, Delivers, Visible, Unread
<1>3. ASSUME NEW m \in Messages, Insert(m) PROVE Delivers
  <2>1. inbox' = [inbox EXCEPT ![m].at = "unread"] /\ inbox[m].at = "sending"
        /\ late' = IF \E n \in Messages : n > m /\ Visible(n) THEN late \cup {m} ELSE late
    BY <1>3 DEF Insert
  <2>2. \A n \in Messages \ {m} : inbox'[n] = inbox[n]
    BY <1>1, <2>1
  <2>3. inbox'[m].at = "unread" /\ inbox'[m].ent = inbox[m].ent
    BY <1>1, <2>1
  <2> QED BY <2>1, <2>2, <2>3 DEF Delivers, Visible, Unread
<1>4. ASSUME NEW m \in Messages, NEW ent \in Enterprises, Stamp(m, ent) PROVE Delivers
  <2>1. inbox' = [inbox EXCEPT ![m] = [ent |-> ent, at |-> "sending"]] /\ inbox[m].at = "unsent" /\ late' = late
    BY <1>4 DEF Stamp
  <2>2. \A n \in Messages \ {m} : inbox'[n] = inbox[n]
    BY <1>1, <2>1
  <2>3. inbox'[m].at = "sending"
    BY <1>1, <2>1
  <2> QED BY <2>1, <2>2, <2>3 DEF Delivers, Visible, Unread
<1>5. ASSUME NEW p \in Procs, MarkAsRead(p) PROVE Delivers
  <2>1. late' = late
    BY <1>5 DEF MarkAsRead
  <2>2. CASE UNCHANGED inbox
    BY <2>1, <2>2 DEF Delivers, Visible, Unread
  <2>3. ASSUME NEW S \in SUBSET told, NEW ent, MarkRead(S, ent) PROVE Delivers
    <3>1. \A m \in Messages : \/ inbox'[m] = inbox[m]
                              \/ Unread(m) /\ inbox'[m].at = "read" /\ inbox'[m].ent = inbox[m].ent
      BY <1>1, <2>3 DEF MarkRead
    <3> QED BY <2>1, <3>1 DEF Delivers, Visible, Unread
  <2> QED BY <1>5, <2>2, <2>3 DEF MarkAsRead
<1> QED BY <1>2, <1>3, <1>4, <1>5 DEF Mail

(* What Backed says of a cursor, after the step.                           *)
Stays(c) ==
    /\ c # 0 => c \in told'
    /\ \A m \in Messages : Unread(m)' /\ m <= c => Accounted(m)'

(* The cursors are backed after a step if all of them stay so.              *)
LEMMA CursorNext ==
  ASSUME \A n \in told' : Visible(n)', Stays(disk'.cursor),
         \A p \in Procs : /\ Stays(proc'[p].since)
                          /\ proc'[p].got # {} => Stays(Latest(proc'[p].got))
  PROVE  CursorInv'
BY DEF CursorInv, Backed, Stays, Latest

(* What a cursor has passed stays accounted for.                           *)
LEMMA BackedStays ==
  ASSUME TypeOK, \A n \in told : Visible(n), Delivers, told \subseteq told', NEW c \in 0..MaxMessages, Backed(c)
  PROVE  Stays(c)
<1>1. told \subseteq Messages /\ Messages \subseteq Nat /\ \A m \in Messages : m # 0
  BY InboxAssumption DEF TypeOK, Messages
<1>2. ASSUME NEW m \in Messages, Unread(m)', m <= c PROVE Accounted(m)'
  <2>1. CASE Unread(m)
    <3>1. Accounted(m) /\ Visible(m)
      BY <1>2, <2>1 DEF Backed, Visible, Unread
    <3>2. CASE m \in told \/ m \in late
      BY <3>2 DEF Accounted, Delivers
    <3>3. CASE \E n \in told : n > m /\ inbox[n].ent # inbox[m].ent
      <4>1. PICK n \in told : n > m /\ inbox[n].ent # inbox[m].ent
        BY <3>3
      <4>2. inbox'[n].ent = inbox[n].ent /\ inbox'[m].ent = inbox[m].ent
        BY <1>1, <3>1, <4>1 DEF Delivers
      <4> QED BY <4>1, <4>2 DEF Accounted
    <3> QED BY <3>1, <3>2, <3>3 DEF Accounted
  <2>2. CASE ~Unread(m)
    <3>1. ~Visible(m) /\ \A n \in Messages : n > m /\ Visible(n) => m \in late'
      BY <1>2, <2>2 DEF Delivers
    <3>2. c # 0
      BY <1>1, <1>2
    <3>3. c \in told /\ Visible(c) /\ c \in Messages
      BY <1>1, <3>2 DEF Backed
    <3>4. c > m
      BY <1>1, <1>2, <3>1, <3>3
    <3> QED BY <3>1, <3>3, <3>4 DEF Accounted
  <2> QED BY <2>1, <2>2
<1>3. c # 0 => c \in told'
  BY DEF Backed
<1> QED BY <1>2, <1>3 DEF Stays

(* Processes that keep their cursors, or drop them, or load the one on the  *)
(* disk, and announce nothing.                                             *)
LEMMA CursorFrame ==
  ASSUME TypeOK, CursorInv, Delivers, told' = told, disk'.cursor \in {disk.cursor, 0},
         \A q \in Procs : /\ proc'[q].since \in {proc[q].since, 0, disk.cursor}
                          /\ proc'[q].got \in {proc[q].got, {}}
  PROVE  CursorInv'
<1>1. \A n \in told : Visible(n)
  BY DEF CursorInv
<1>2. \A n \in told' : Visible(n)'
  BY <1>1 DEF Delivers, TypeOK
<1>3. disk.cursor \in 0..MaxMessages /\ 0 \in 0..MaxMessages /\ proc \in [Procs -> Process]
  BY InboxAssumption DEF TypeOK
<1>4. \A c \in 0..MaxMessages : Backed(c) => Stays(c)
  BY <1>1, BackedStays
<1>5. Stays(disk.cursor) /\ Stays(0)
  BY <1>3, <1>4, ZeroIsBacked DEF CursorInv
<1>6. ASSUME NEW q \in Procs PROVE Stays(proc[q].since) /\ (proc[q].got # {} => Stays(Latest(proc[q].got)))
  <2>1. proc[q].since \in 0..MaxMessages /\ proc[q].got \subseteq Messages
    BY <1>3 DEF Process
  <2>2. proc[q].got # {} => Latest(proc[q].got) \in 0..MaxMessages
    BY <2>1, LatestIsOne DEF Messages
  <2> QED BY <1>4, <2>1, <2>2 DEF CursorInv
<1>7. ASSUME NEW q \in Procs PROVE Stays(proc'[q].since) /\ (proc'[q].got # {} => Stays(Latest(proc'[q].got)))
  BY <1>5, <1>6
<1>8. Stays(disk'.cursor)
  BY <1>5
<1> QED BY <1>2, <1>7, <1>8, CursorNext

(* The steps of that kind.                                                 *)
LEMMA CursorSteps ==
  ASSUME TypeOK, NEW p \in Procs, CursorInv,
         \/ Walks(p) \/ Loses(p) \/ Takes(p) \/ Enters(p) \/ LoadsTokens(p) \/ LoadsCursor(p)
         \/ SaveYaml(p) \/ SaveTokens(p) \/ RemoveTokens(p) \/ Refresh(p) \/ MarkAsRead(p)
  PROVE  CursorInv'
<1>1. proc[p] \in Process /\ issued \in Nat
  BY DEF TypeOK, Numbers
<1>2. told' = told
  BY RefreshSorts DEF Walks, Loses, Takes, Enters, LoadsTokens, LoadTokens, LoadsCursor, LoadCursor, OnlyProc, SaveYaml, SaveTokens,
         RemoveTokens, OnlyDisk, MarkAsRead
<1>3. Delivers
  <2>1. UNCHANGED mail \/ MarkAsRead(p)
    BY RefreshSorts DEF Walks, Loses, Takes, Enters, LoadsTokens, LoadTokens, LoadsCursor, LoadCursor, OnlyProc, SaveYaml, SaveTokens,
           RemoveTokens, OnlyDisk
  <2> QED BY <2>1, MailDelivers
<1>4. disk'.cursor \in {disk.cursor, 0}
  <2>1. SaveYaml(p) \/ SaveTokens(p) \/ RemoveTokens(p) => disk'.cursor = disk.cursor
    BY DEF SaveYaml, SaveTokens, RemoveTokens, TypeOK
  <2>2. Refresh(p) => disk' = disk
    BY RefreshSorts
  <2>3. Walks(p) \/ Loses(p) => disk'.cursor \in {disk.cursor, 0}
    BY DEF Walks, Loses, Spares
  <2> QED BY <2>1, <2>2, <2>3 DEF Takes, Enters, LoadsTokens, LoadTokens, LoadsCursor, LoadCursor, OnlyProc, MarkAsRead
<1>5. \E new : /\ Becomes(p, new) /\ new.since \in {proc[p].since, 0, disk.cursor}
               /\ new.got \in {proc[p].got, {}}
  <2>1. CASE Walks(p) \/ Loses(p)
    BY <2>1 DEF Walks, Loses, GoesOn
  <2>2. CASE Takes(p)
    BY <2>2 DEF Takes, GoesOn
  <2>3. CASE Enters(p)
    <3>1. Becomes(p, [proc[p] EXCEPT !.at = "rotate"])
      BY <2>3 DEF Enters, GoTo
    <3> QED BY <1>1, <3>1 DEF Process
  <2>4. CASE LoadsTokens(p)
    <3> DEFINE r == [proc[p] EXCEPT !.cfg.pair = disk.tokens]
    <3>1. Becomes(p, Loaded(r)) /\ GoesOn(r, Loaded(r)) /\ r.since = proc[p].since /\ r.got = proc[p].got
      BY <1>1, <2>4, LoadedOK DEF LoadsTokens, LoadTokens, Process
    <3> HIDE DEF r
    <3> QED BY <3>1 DEF GoesOn
  <2>5. CASE LoadsCursor(p)
    BY <2>5, CursorGoesOn
  <2>6. CASE SaveYaml(p)
    BY <1>1, <2>6 DEF SaveYaml, GoTo, Process
  <2>7. CASE SaveTokens(p)
    BY <1>1, <2>7, SavedGoesOn DEF SaveTokens, GoesOn
  <2>8. CASE RemoveTokens(p) \/ MarkAsRead(p)
    BY <2>8, IdleIsOne DEF RemoveTokens, MarkAsRead
  <2>9. CASE Refresh(p)
    <3> DEFINE new == [proc[p] EXCEPT !.at = "saveYaml", !.cfg = AdoptRefreshed(@, issued + 1)]
    <3>1. issued + 1 \in Pairs
      <4>1. issued < MaxPairs
        BY <2>9, RefreshSorts DEF Issue
      <4> QED BY <1>1, <4>1, SessionsAssumption DEF Pairs
    <3>2. new.since = proc[p].since /\ new.got = proc[p].got
      BY <3>1, Refreshed
    <3>3. Becomes(p, new) \/ Becomes(p, Ended(proc[p]))
      BY <2>9, RefreshSorts
    <3> HIDE DEF new
    <3> QED BY <1>1, <3>2, <3>3, EndedGoesOn DEF GoesOn
  <2> QED BY <2>1, <2>2, <2>3, <2>4, <2>5, <2>6, <2>7, <2>8, <2>9
<1>6. \A q \in Procs : /\ proc'[q].since \in {proc[q].since, 0, disk.cursor}
                       /\ proc'[q].got \in {proc[q].got, {}}
  BY <1>5, Others
<1> QED BY <1>2, <1>3, <1>4, <1>6, CursorFrame

(* The answer to a poll holds all unread messages of the enterprise up to   *)
(* the latest it holds.                                                    *)
LEMMA AnswerHasAll ==
  ASSUME NEW ent, NEW since, NEW c \in ListUnreadByReceiver(ent, since),
         NEW m \in Unreads(ent, since), m <= c
  PROVE  m \in ListUnreadByReceiver(ent, since)
<1> DEFINE Before(x) == {n \in Unreads(ent, since) : n < x}
<1>1. Unreads(ent, since) \subseteq Messages /\ Messages \subseteq Nat
  BY InboxAssumption DEF Unreads, Messages
<1>2. IsFiniteSet(Messages)
  BY InboxAssumption, FS_Interval DEF Messages
<1>3. c \in Unreads(ent, since) /\ Cardinality(Before(c)) < PollLimit
  BY DEF ListUnreadByReceiver
<1>4. Before(c) \subseteq Messages /\ Before(m) \subseteq Before(c)
  <2>1. c \in Nat /\ m \in Nat /\ \A n \in Unreads(ent, since) : n \in Nat
    BY <1>1, <1>3
  <2>2. \A n \in Unreads(ent, since) : n < m => n < c
    BY <2>1
  <2> QED BY <1>1, <2>2
<1>5. IsFiniteSet(Before(c))
  BY <1>2, <1>4, FS_Subset
<1>6. Cardinality(Before(m)) <= Cardinality(Before(c)) /\ Cardinality(Before(m)) \in Nat /\ Cardinality(Before(c)) \in Nat
  BY <1>4, <1>5, FS_Subset, FS_CardinalityType
<1>7. Cardinality(Before(m)) < PollLimit
  BY <1>3, <1>6, InboxAssumption
<1> QED BY <1>7 DEF ListUnreadByReceiver

(* Every step keeps the cursors.                                            *)
LEMMA CursorStep ==
  ASSUME TypeOK, CursorInv, [Next]_vars
  PROVE  CursorInv'
<1>1. proc \in [Procs -> Process] /\ disk.cursor \in 0..MaxMessages /\ told \subseteq Messages
      /\ inbox \in [Messages -> [ent : Entities, at : {"unsent", "sending", "unread", "read"}]]
  BY DEF TypeOK
<1>2. \A n \in told : Visible(n)
  BY DEF CursorInv
<1>3. CASE Stutters \/ Clock \/ Mail
  <2>1. Delivers
    BY <1>3, MailDelivers DEF Stutters, Clock, Mail
  <2>2. UNCHANGED <<disk, proc, told>>
    BY <1>3 DEF Stutters, Clock, Mail, Aside
  <2> QED BY <2>1, <2>2, CursorFrame
<1>4. ASSUME NEW q \in Procs PROVE proc[q].got # {} => Latest(proc[q].got) \in 0..MaxMessages
  <2>1. proc[q].got \subseteq Messages
    BY <1>1 DEF Process
  <2> QED BY <2>1, LatestIsOne DEF Messages
<1>5. ASSUME NEW p \in Procs, SaveCursor(p) PROVE CursorInv'
  <2>1. Delivers /\ told' = told
    BY <1>5, MailDelivers DEF SaveCursor, OnlyDisk
  <2>2. \A c \in 0..MaxMessages : Backed(c) => Stays(c)
    BY <1>2, <2>1, BackedStays
  <2>3. proc[p].got # {}
    BY <1>5 DEF SaveCursor, At, TypeOK
  <2>7. Stays(0)
    BY <2>2, ZeroIsBacked, InboxAssumption
  <2>4. disk'.cursor \in {disk.cursor, Latest(proc[p].got), 0}
    BY <1>5, FilesSpared DEF SaveCursor, TypeOK, Spares
  <2>5. Stays(disk'.cursor)
    BY <1>1, <1>4, <2>2, <2>3, <2>4, <2>7 DEF CursorInv
  <2>6. \A q \in Procs : /\ proc'[q].since \in {proc[q].since, 0}
                         /\ proc'[q].got \in {proc[q].got, {}}
    BY <1>1, <1>5, EndedGoesOn, Others DEF SaveCursor, Ends, GoesOn
  <2>8. ASSUME NEW q \in Procs PROVE Stays(proc'[q].since) /\ (proc'[q].got # {} => Stays(Latest(proc'[q].got)))
    <3>1. proc[q].since \in 0..MaxMessages
      BY <1>1 DEF Process
    <3>2. Stays(proc[q].since) /\ (proc[q].got # {} => Stays(Latest(proc[q].got)))
      BY <1>4, <2>2, <3>1 DEF CursorInv
    <3> QED BY <2>6, <2>7, <3>2
  <2>9. \A n \in told' : Visible(n)'
    BY <1>1, <1>2, <2>1 DEF Delivers
  <2> QED BY <2>5, <2>8, <2>9, CursorNext
<1>6. ASSUME NEW p \in Procs, Tells(p) PROVE CursorInv'
  <2> DEFINE ent == proc[p].cfg.ent
             since == proc[p].since
             S == ListUnreadByReceiver(ent, since)
             new == [proc[p] EXCEPT !.at = "saveCursor", !.got = S]
  <2>1. S # {} /\ told' = told \cup S /\ Becomes(p, new) /\ UNCHANGED <<mail, disk>>
    BY <1>6 DEF Tells
  <2>2. S \subseteq Unreads(ent, since)
    BY DEF ListUnreadByReceiver
  <2>3. S \subseteq Messages /\ Messages \subseteq Nat
    BY <2>2, InboxAssumption DEF Unreads, Messages
  <2>4. new.since = since /\ new.got = S
    <3> HIDE DEF S
    <3> QED BY <1>1 DEF Process
  <2>5. Delivers
    BY <2>1, MailDelivers
  <2>6. \A c \in 0..MaxMessages : Backed(c) => Stays(c)
    BY <1>2, <2>1, <2>5, BackedStays
  <2>7. Latest(S) \in S /\ Latest(S) \in Messages
    BY <2>1, <2>3, LatestIsOne
  <2>8. Backed(since) /\ since \in 0..MaxMessages
    BY <1>1 DEF CursorInv, Process
  <2>9. Stays(Latest(S))
    <3>1. inbox' = inbox
      BY <2>1 DEF mail
    <3>2. ASSUME NEW m \in Messages, Unread(m)', m <= Latest(S) PROVE Accounted(m)'
      <4>1. Unread(m)
        BY <3>1, <3>2 DEF Unread
      <4>2. CASE m <= since
        BY <2>6, <2>8, <3>2, <4>2 DEF Stays
      <4>3. CASE m > since /\ inbox[m].ent = ent
        <5>1. m \in Unreads(ent, since)
          BY <4>1, <4>3 DEF Unreads
        <5>2. m \in S
          BY <2>7, <3>2, <5>1, AnswerHasAll
        <5> QED BY <2>1, <5>2 DEF Accounted
      <4>4. CASE inbox[m].ent # ent
        <5>1. inbox[Latest(S)].ent = ent
          BY <2>2, <2>7 DEF Unreads
        <5>2. Latest(S) # m /\ Latest(S) > m
          <6>1. Latest(S) # m
            BY <4>4, <5>1
          <6>2. Latest(S) \in Nat /\ m \in Nat
            BY <2>3, <2>7
          <6> HIDE DEF S
          <6> QED BY <3>2, <6>1, <6>2
        <5>3. Latest(S) \in told'
          BY <2>1, <2>7
        <5> QED BY <3>1, <4>4, <5>1, <5>2, <5>3 DEF Accounted
      <4> QED BY <2>3, <2>8, <4>2, <4>3, <4>4
    <3> QED BY <2>1, <2>7, <3>2 DEF Stays
  <2>10. Stays(disk'.cursor)
    BY <1>1, <2>1, <2>6 DEF CursorInv
  <2>11. ASSUME NEW q \in Procs PROVE Stays(proc'[q].since) /\ (proc'[q].got # {} => Stays(Latest(proc'[q].got)))
    <3> HIDE DEF S, new, since, ent
    <3>1. CASE q = p
      <4>1. proc'[p] = new
        BY <2>1, Others
      <4> QED BY <2>4, <2>6, <2>8, <2>9, <3>1, <4>1
    <3>2. CASE q # p
      <4>1. proc'[q] = proc[q]
        BY <2>1, <3>2, Others
      <4>2. proc[q].since \in 0..MaxMessages
        BY <1>1 DEF Process
      <4> QED BY <1>4, <2>6, <4>1, <4>2 DEF CursorInv
    <3> QED BY <3>1, <3>2
  <2>12. \A n \in told' : Visible(n)'
    <3>1. \A n \in S : Visible(n)
      BY <2>2 DEF Unreads, Unread, Visible
    <3> QED BY <1>1, <1>2, <2>1, <2>3, <2>5, <3>1 DEF Delivers
  <2> QED BY <2>10, <2>11, <2>12, CursorNext
<1> QED BY <1>3, <1>5, <1>6, CursorSteps, StepKinds DEF Kinds

(* A message the cursor has passed was announced, unless its row came after *)
(* that of a later one, or the cursor was moved by a message of another     *)
(* enterprise: an answer cut off at its limit leaves out only what is       *)
(* beyond the cursor it leads to.                                           *)
THEOREM CursorIsBacked == Spec => []CursorSkipsNothing
<1> DEFINE IInv == TypeOK /\ CursorInv
<1>1. Init => CursorInv
  <2> SUFFICES ASSUME Init PROVE CursorInv
    OBVIOUS
  <2>1. told = {} /\ disk.cursor = 0 /\ \A p \in Procs : proc[p].since = 0 /\ proc[p].got = {}
    BY IdleIsOne DEF Init
  <2> QED BY <2>1, ZeroIsBacked DEF CursorInv
<1>2. IInv /\ [Next]_vars => IInv'
  BY CursorStep, TypeStep
<1>3. IInv => CursorSkipsNothing
  BY DEF CursorInv, Backed, Accounted, CursorSkipsNothing, Skipped
<1> QED BY <1>1, <1>2, <1>3, TypeInit, PTL DEF Spec

=============================================================================
