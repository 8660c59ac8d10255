---------------------------- MODULE Supervision -----------------------------
(***************************************************************************)
(* A supervisor (Frameworks/core/supervisor.lua), its children, the table  *)
(* of process names (GLR/NamedProcessTable.cpp) they register in, the part *)
(* of Process::Destory that ends a child (GLR/LuaNode.cpp), and selective  *)
(* receive (recv_by_condition in GLR/wrappers/_core.lua), by which the     *)
(* supervisor waits for the end of one child among its other messages.     *)
(*                                                                         *)
(* A child process is known by the number of its spawn; kid[i] is what it  *)
(* is an instance of, and also the name it registers.  A child of a kid in *)
(* Bound has a fixed pid (spawn_ex), so it is refused while an earlier one *)
(* is in NodeMap; one of a kid in Gen is an rpc server, which is stopped   *)
(* by a call.  Time is abstract: a wait with a timeout may end whenever no *)
(* message is there.                                                       *)
(***************************************************************************)
EXTENDS CoreRecv, FiniteSets

CONSTANTS Kids,      \* what the supervisor can start
          Bound,     \* those with a fixed pid
          Gen,       \* those that are rpc servers
          ByName,    \* rpc servers created with a server_name
          MaxRequests, MaxCrashes, \* bounds: requests to the supervisor, and
                                   \* children that end by themselves
          MaxSpawns, \* bound: spawns
          MaxNaming  \* bound: names given up, and second names

ASSUME SupervisionAssumption ==
    /\ Bound \subseteq Kids /\ Gen \subseteq Kids /\ ByName \subseteq Gen
    /\ Kids # {}
    /\ {MaxRequests, MaxCrashes, MaxSpawns, MaxNaming} \subseteq Nat

Spawns == 1..MaxSpawns

VARIABLES
    life,      \* none, spawned, up, ended, exited, cleaned, gone
    kid,       \* what each child is
    names,     \* NamedProcessTable::_Map; 0: no entry
    nameOf,    \* __name__ of each child, as a set of at most one name
    unreg,     \* history: the names children gave up with unregister
    renamed,   \* history: the children that registered a second name
    stopping,  \* the children with a stop request in their mailbox
    killed,    \* the children with _Killed set
    mail,      \* the messages to the supervisor
    records,   \* _processes
    spc, cur,  \* where the supervisor is, and the child it waits for
    want,      \* the kid that start_process is about to spawn
    again,     \* a stop that is part of restart_process
    next,      \* spawns so far
    requests, crashes, \* so far
    watched,   \* history: kids recorded and not stopped since
    failed,    \* history: children whose EXIT a start_process consumed
    refused,   \* history: kids whose bound pid was taken at a spawn
    swallowed, \* history: messages lost to a condition that raised an error
    letgo      \* history: children stopped with the wrong process_type

nameVars == <<names, nameOf, unreg, renamed>>
orders == <<stopping, killed>>
childVars == <<life, kid, nameVars, orders>>
pastVars == <<watched, failed, refused, swallowed, letgo>>
superVars == <<records, spc, cur, want, again, next, pastVars>>
bounds == <<requests, crashes>>
vars == <<childVars, mail, superVars, bounds>>

AnyKid == CHOOSE k \in Kids : TRUE

Msg(type, from) == [type |-> type, from |-> from,
                    kid |-> AnyKid, child |-> 0, process_type |-> "none"]

Init ==
    /\ life = [i \in Spawns |-> "none"]
    /\ kid = [i \in Spawns |-> AnyKid]
    /\ names = [k \in Kids |-> 0]
    /\ nameOf = [i \in Spawns |-> {}]
    /\ unreg = {} /\ renamed = {} /\ stopping = {} /\ killed = {}
    /\ mail = NewBox
    /\ records = {} /\ spc = "loop" /\ cur = 0 /\ want = AnyKid /\ again = FALSE
    /\ next = 0 /\ requests = 0 /\ crashes = 0
    /\ watched = {} /\ failed = {} /\ refused = {} /\ swallowed = {} /\ letgo = {}

Become(i, l) == life' = [life EXCEPT ![i] = l]

Deliver(m) == mail' = Arrive(mail, m)

-----------------------------------------------------------------------------
(* Children *)

(* NamedProcessTable::Register: Set throws if the name has an entry, and   *)
(* the Lua error ends the process.                                         *)
Register(i) ==
    /\ life[i] = "spawned"
    /\ IF names[kid[i]] = 0
       THEN /\ names' = [names EXCEPT ![kid[i]] = i]
            /\ nameOf' = [nameOf EXCEPT ![i] = {kid[i]}]
            /\ Become(i, "up")
       ELSE Become(i, "ended") /\ UNCHANGED <<names, nameOf>>
    /\ UNCHANGED <<kid, unreg, renamed, orders, mail, superVars, bounds>>

NamingLeft == Cardinality(unreg) + Cardinality(renamed) < MaxNaming

(* A second register by the same process: __name__ is overwritten and the  *)
(* first entry stays.                                                      *)
RegisterMore(i, k) ==
    /\ life[i] = "up" /\ i \notin renamed /\ NamingLeft
    /\ names[k] = 0
    /\ names' = [names EXCEPT ![k] = i]
    /\ nameOf' = [nameOf EXCEPT ![i] = {k}]
    /\ renamed' = renamed \cup {i}
    /\ UNCHANGED <<life, kid, unreg, orders, mail, superVars, bounds>>

(* NamedProcessTable::_UnRegistered: the entry of __name__ goes, whose     *)
(* ever it is, and __name__ stays.                                         *)
UnRegister(i) ==
    /\ life[i] = "up"
    /\ \E k \in nameOf[i] :
          /\ names[k] # 0
          /\ <<i, k>> \in unreg \/ NamingLeft
          /\ names' = [names EXCEPT ![k] = 0]
          /\ unreg' = unreg \cup {<<i, k>>}
    /\ UNCHANGED <<life, kid, nameOf, renamed, orders, mail, superVars, bounds>>

(* The child's code ends, by an error or because something else killed it. *)
Crash(i) ==
    /\ life[i] \in {"spawned", "up"} /\ crashes < MaxCrashes
    /\ Become(i, "ended")
    /\ crashes' = crashes + 1
    /\ UNCHANGED <<kid, nameVars, orders, mail, superVars, requests>>

(* rpc server:stop raises stop_error; _main answers and ends the process.  *)
Stop(i) ==
    /\ life[i] = "up" /\ i \in stopping
    /\ Become(i, "ended")
    /\ Deliver(Msg("reply", i))
    /\ UNCHANGED <<kid, nameVars, orders, superVars, bounds>>

(* Resume finds _Killed set at the end of the slice.                       *)
Killed(i) ==
    /\ life[i] \in {"spawned", "up"} /\ i \in killed
    /\ Become(i, "ended")
    /\ UNCHANGED <<kid, nameVars, orders, mail, superVars, bounds>>

(* Process::Destory, in the child's processor: the EXIT message,           *)
SendExitMsg(i) ==
    /\ life[i] = "ended"
    /\ Become(i, "exited")
    /\ Deliver(Msg("EXIT", i))
    /\ UNCHANGED <<kid, nameVars, orders, superVars, bounds>>

(* Variant: NamedProcessTable::Clean is not called.                        *)
CleanedNot(i) == names

(* NamedProcessTable::Clean: the entry of __name__ goes, whose ever it is. *)
Cleaned(i) == [k \in Kids |-> IF k \in nameOf[i] THEN 0 ELSE names[k]]

(* then Clean,                                                             *)
Clean(i) ==
    /\ life[i] = "exited"
    /\ Become(i, "cleaned")
    /\ names' = Cleaned(i)
    /\ UNCHANGED <<kid, nameOf, unreg, renamed, orders, mail, superVars, bounds>>

(* then the entry in NodeMap.                                              *)
Unmap(i) ==
    /\ life[i] = "cleaned"
    /\ Become(i, "gone")
    /\ UNCHANGED <<kid, nameVars, orders, mail, superVars, bounds>>

-----------------------------------------------------------------------------
(* The supervisor *)

HasMail == Available(mail)
Top == First(mail)
Take == mail' = TakeFirst(mail)
PutAside == mail' = SetAside(mail)
TimeOut == ~HasMail /\ mail' = GiveUp(mail)

(* A client's request arrives; stop and restart name a process and carry   *)
(* the process_type the client believes it has.                            *)
Request ==
    /\ requests < MaxRequests
    /\ requests' = requests + 1
    /\ \/ \E k \in Kids : Deliver([Msg("start", 0) EXCEPT !.kid = k])
       \/ \E i \in 1..next, type \in {"stop", "restart"}, t \in {"raw", "gen", "none"} :
             Deliver([Msg(type, 0) EXCEPT !.child = i, !.process_type = t])
    /\ UNCHANGED <<childVars, superVars, crashes>>

(* glr.kill: a child that waits is destroyed here and now; one that runs   *)
(* is marked, and ends with its slice (Killed); one that is being          *)
(* destroyed is left alone.  r: a destruction here and now.                *)
Kill(i, r) ==
    /\ r => life[i] = "up"
    /\ life' = IF r THEN [life EXCEPT ![i] = "gone"] ELSE life
    /\ killed' = IF ~r /\ life[i] \in {"spawned", "up"} THEN killed \cup {i} ELSE killed
    /\ names' = IF r THEN Cleaned(i) ELSE names
    /\ UNCHANGED <<kid, nameOf, unreg, renamed, stopping>>

(* Mailbox b after that.                                                   *)
WithExit(b, i, r) == IF r THEN Arrive(b, Msg("EXIT", i)) ELSE b

(* on_message: the EXIT of a recorded child starts another.                *)
OnExit ==
    /\ spc = "loop" /\ HasMail /\ Top.type = "EXIT"
    /\ records' = records \ {Top.from}
    /\ IF Top.from \in records THEN spc' = "spawn" /\ want' = kid[Top.from]
       ELSE UNCHANGED <<spc, want>>
    /\ Take
    /\ UNCHANGED <<childVars, cur, again, next, pastVars, bounds>>

(* start_process, from a request.                                          *)
OnStart ==
    /\ spc = "loop" /\ HasMail /\ Top.type = "start"
    /\ spc' = "spawn" /\ want' = Top.kid
    /\ Take
    /\ UNCHANGED <<childVars, records, cur, again, next, pastVars, bounds>>

(* stop_process and restart_process of a process without a record.         *)
OnStopUnknown ==
    /\ spc = "loop" /\ HasMail /\ Top.type \in {"stop", "restart"}
    /\ Top.child \notin records
    /\ Take
    /\ UNCHANGED <<childVars, superVars, bounds>>

(* stop_process of a recorded child, up to its first wait.  The record     *)
(* goes first.  What is done to the child depends on the process_type of   *)
(* the request: a raw process is killed, an rpc server is called, and with *)
(* neither nothing is done; an rpc call to a process without a client is   *)
(* an error, which ends the request.                                       *)
OnStop ==
    /\ spc = "loop" /\ HasMail /\ Top.type \in {"stop", "restart"}
    /\ LET i == Top.child
           t == Top.process_type
           callable == kid[i] \in Gen
       IN
       /\ i \in records
       /\ records' = records \ {i}
       /\ watched' = watched \ {kid[i]}
       /\ cur' = IF t = "gen" /\ ~callable THEN 0 ELSE i
       /\ again' = (Top.type = "restart" /\ cur' = i)
       /\ letgo' = IF t = "none" \/ cur' = 0 THEN letgo \cup {i} ELSE letgo
       /\ \/ /\ t = "raw" /\ spc' = "stopWait"
             /\ \E r \in BOOLEAN : /\ Kill(i, r)
                                   /\ mail' = WithExit(TakeFirst(mail), i, r)
          \/ /\ t = "gen" /\ callable /\ spc' = "stopCall"
             /\ stopping' = stopping \cup {i}
             /\ Take
             /\ UNCHANGED <<life, kid, nameVars, killed>>
          \/ /\ t = "none" \/ (t = "gen" /\ ~callable)
             /\ spc' = IF t = "none" THEN "stopWait" ELSE "loop"
             /\ Take
             /\ UNCHANGED <<childVars>>
    /\ UNCHANGED <<want, next, failed, refused, swallowed, bounds>>

(* The late answer of a stopped server is taken for a call without a       *)
(* method.                                                                 *)
OnReply ==
    /\ spc = "loop" /\ HasMail /\ Top.type = "reply"
    /\ Take
    /\ UNCHANGED <<childVars, superVars, bounds>>

(* A failed spawn: create_server asserts, but a raw process is waited for. *)
AfterRefusal(k) == IF k \in Gen THEN "loop" ELSE "waitNil"

(* start_process: the spawn.  A bound pid that is still in NodeMap makes   *)
(* it fail.                                                                *)
Spawn ==
    /\ spc = "spawn"
    /\ again' = FALSE
    /\ IF want \in Bound /\ \E j \in 1..next : kid[j] = want /\ life[j] # "gone"
       THEN /\ spc' = AfterRefusal(want)
            /\ refused' = refused \cup {want}
            /\ UNCHANGED <<life, kid, next, cur>>
       ELSE /\ next < MaxSpawns
            /\ next' = next + 1
            /\ kid' = [kid EXCEPT ![next'] = want]
            /\ Become(next', "spawned")
            /\ spc' = "wait" /\ cur' = next'
            /\ UNCHANGED refused
    /\ want' = AnyKid
    /\ UNCHANGED <<nameVars, orders, mail, records,
                   watched, failed, swallowed, letgo, bounds>>

(* The condition start_process waits for; a server name has no gpid.       *)
IsItsExit(m) == m.type = "EXIT" /\ m.from = cur /\ kid[cur] \notin ByName

(* start_process, after the spawn: with the EXIT of the new child the      *)
(* start has failed and the child is forgotten; without it the child is    *)
(* recorded, unless its address is a name, which _processes ignores.       *)
Wait ==
    /\ spc = "wait"
    /\ \/ /\ HasMail /\ IsItsExit(Top) /\ Take
          /\ failed' = failed \cup {cur}
          /\ spc' = "loop" /\ cur' = 0
          /\ UNCHANGED <<records, watched>>
       \/ /\ HasMail /\ ~IsItsExit(Top) /\ PutAside
          /\ UNCHANGED <<failed, spc, cur, records, watched>>
       \/ /\ TimeOut
          /\ IF kid[cur] \in ByName THEN UNCHANGED <<records, watched>>
             ELSE records' = records \cup {cur} /\ watched' = watched \cup {kid[cur]}
          /\ spc' = "loop" /\ cur' = 0
          /\ UNCHANGED failed
    /\ UNCHANGED <<childVars, want, again, next, refused, swallowed, letgo, bounds>>

(* Without an address the condition raises an error at the next message,   *)
(* which is then in no box; start_process ends in an error either way.     *)
WaitNil ==
    /\ spc = "waitNil"
    /\ \/ HasMail /\ Take /\ swallowed' = swallowed \cup {Top}
       \/ TimeOut /\ UNCHANGED swallowed
    /\ spc' = "loop"
    /\ UNCHANGED <<childVars, records, cur, want, again, next,
                   watched, failed, refused, letgo, bounds>>

(* Variant: a server that does not answer is not killed.                   *)
StopCallOnly ==
    /\ spc = "stopCall"
    /\ \/ HasMail /\ Top.from = cur /\ Take /\ spc' = "stopWait"
       \/ HasMail /\ Top.from # cur /\ PutAside /\ UNCHANGED spc
       \/ TimeOut /\ spc' = "stopWait"
    /\ UNCHANGED <<childVars, records, cur, want, again, next, pastVars, bounds>>

(* stop_process of an rpc server: the call takes any message from it for   *)
(* the answer, and without one the child is killed.                        *)
StopCall ==
    /\ spc = "stopCall"
    /\ \/ /\ HasMail /\ Top.from = cur /\ Take
          /\ spc' = "stopWait"
          /\ UNCHANGED <<childVars>>
       \/ /\ HasMail /\ Top.from # cur /\ PutAside
          /\ UNCHANGED <<childVars, spc>>
       \/ /\ ~HasMail
          /\ \E r \in BOOLEAN : Kill(cur, r) /\ mail' = WithExit(GiveUp(mail), cur, r)
          /\ spc' = "stopWait"
    /\ UNCHANGED <<records, cur, want, again, next, pastVars, bounds>>

(* stop_process then waits for one more message from the child;            *)
(* restart_process goes on to start_process.                               *)
StopWait ==
    /\ spc = "stopWait"
    /\ \/ /\ HasMail /\ Top.from # cur /\ PutAside
          /\ UNCHANGED <<spc, cur, want>>
       \/ /\ (HasMail /\ Top.from = cur /\ Take) \/ TimeOut
          /\ spc' = IF again THEN "spawn" ELSE "loop"
          /\ want' = IF again THEN kid[cur] ELSE AnyKid
          /\ cur' = 0
    /\ UNCHANGED <<childVars, records, again, next, pastVars, bounds>>

-----------------------------------------------------------------------------
(* Specification *)

Child(i) ==
    \/ Register(i) \/ UnRegister(i) \/ Crash(i) \/ Stop(i)
    \/ \E k \in Kids : RegisterMore(i, k)

Destory(i) == Killed(i) \/ SendExitMsg(i) \/ Clean(i) \/ Unmap(i)

Supervisor ==
    \/ OnExit \/ OnStart \/ OnStopUnknown \/ OnStop \/ OnReply
    \/ Spawn \/ Wait \/ WaitNil \/ StopCall \/ StopWait

Next ==
    \/ Request
    \/ \E i \in Spawns : Child(i) \/ Destory(i)
    \/ Supervisor

(* A process that is ready or whose timer fires is run, and a processor    *)
(* that destroys a process goes on; a child need not do anything.          *)
Spec ==
    /\ Init /\ [][Next]_vars
    /\ WF_vars(Supervisor)
    /\ \A i \in Spawns : WF_vars(Destory(i))

-----------------------------------------------------------------------------
(* Properties *)

ExitPending(i) ==
    \E m \in 1..Len(Pending(mail)) :
        Pending(mail)[m].type = "EXIT" /\ Pending(mail)[m].from = i
ExitSwallowed(i) == \E m \in swallowed : m.type = "EXIT" /\ m.from = i

(* Every variable has its type.                                            *)
TypeOK ==
    /\ life \in [Spawns -> {"none", "spawned", "up", "ended", "exited", "cleaned", "gone"}]
    /\ kid \in [Spawns -> Kids] /\ names \in [Kids -> 0..MaxSpawns]
    /\ nameOf \in [Spawns -> SUBSET Kids]
    /\ unreg \subseteq (1..next) \X Kids
    /\ renamed \cup stopping \cup killed \cup records \cup failed \cup letgo \subseteq 1..next
    /\ spc \in {"loop", "spawn", "wait", "waitNil", "stopCall", "stopWait"}
    /\ cur \in 0..next /\ want \in Kids /\ again \in BOOLEAN
    /\ (cur # 0) = (spc \in {"wait", "stopCall", "stopWait"})
    /\ next \in 0..MaxSpawns 
    /\ requests \in 0..MaxRequests /\ crashes \in 0..MaxCrashes
    /\ watched \cup refused \subseteq Kids

(* NamedProcessTable never leads to a process that is gone: its entry is   *)
(* deleted before the process leaves NodeMap, also by a kill.  The one     *)
(* exception is a process that registered a second name: Clean knows only  *)
(* the last, and the first entry stays for ever.                           *)
NameIsLive ==
    \A k \in Kids :
        names[k] # 0 =>
            \/ life[names[k]] \in {"up", "ended", "exited"}
            \/ names[k] \in renamed

(* A live process that has registered its name and not given it up is      *)
(* found under it, unless another process gave the same name up before:    *)
(* UnRegister leaves __name__, so that a second UnRegister, or Clean at    *)
(* the end of that process, deletes the entry of its successor.            *)
NameKept ==
    \A i \in Spawns :
        (life[i] = "up" /\ <<i, kid[i]>> \notin unreg) =>
            names[kid[i]] = i \/ \E j \in Spawns \ {i} : <<j, kid[i]>> \in unreg

(* NamedProcessTable and the live processes agree, both ways: what the     *)
(* table names lives (NameIsLive), what lives is named (NameKept).         *)
NamesSound == NameIsLive /\ NameKept

(* The death of a recorded child is never overlooked: as long as the child *)
(* is on record, it lives, or is being destroyed, or its EXIT message is   *)
(* in the channel or one of the boxes of selective receive.  Only a failed *)
(* spawn_ex loses one: the condition of start_process then raises an error *)
(* and recv_by_condition drops the message.                                *)
DeathNoticed ==
    \A i \in records :
        life[i] \in {"spawned", "up", "ended"} \/ ExitPending(i) \/ ExitSwallowed(i)

(* A live child is on record, or the supervisor is starting or stopping    *)
(* it, or it was killed and is in its last slice.  The exceptions: a stop  *)
(* with a process_type that is not the child's takes the record and leaves *)
(* the process; an rpc server created under a name is never recorded.      *)
Supervised ==
    \A i \in Spawns :
        life[i] \in {"spawned", "up"} =>
            \/ i \in records
            \/ cur = i
            \/ i \in killed
            \/ i \in letgo
            \/ kid[i] \in ByName

(* A kid that has been recorded, and not stopped since, keeps a record or  *)
(* is being started.  It is forgotten only when a start failed (the EXIT   *)
(* of the new child came within the wait, for instance because its name    *)
(* was still taken by the child it replaces) or its bound pid was taken:   *)
(* on_message ignores the outcome of start_process.                        *)
Watched ==
    \A k \in watched :
        \/ \E i \in records : kid[i] = k
        \/ spc = "spawn" /\ want = k
        \/ spc = "wait" /\ kid[cur] = k
        \/ \E i \in failed : kid[i] = k
        \/ k \in refused

(* The supervisor and its children agree, both ways: a live child is on    *)
(* record (Supervised), and what was on record is, or is being, replaced   *)
(* (Watched); every variable has its type.                                 *)
Overseen == TypeOK /\ Supervised /\ Watched

(* The supervisor gets to the death of every recorded child, whatever it   *)
(* was waiting for when the EXIT message arrived, unless the message was   *)
(* lost with a failed spawn_ex.                                            *)
DeathHandled ==
    \A i \in Spawns :
        (i \in records /\ life[i] = "ended") ~>
            \/ i \notin records
            \/ ExitSwallowed(i)
            \/ spc = "spawn" /\ next = MaxSpawns

-----------------------------------------------------------------------------
(* Parts of the inductive invariant behind NamesSound, Overseen and        *)
(* DeathNoticed.                                                           *)

Messages ==
    [type : {"start", "stop", "restart", "reply", "EXIT"}, from : 0..MaxSpawns,
     kid : Kids, child : 0..MaxSpawns, process_type : {"raw", "gen", "none"}]
Boxes == [box : Seq(Messages), cacheBox : Seq(Messages), cache : Seq(Messages)]
Inside(b) == {Pending(b)[j] : j \in 1..Len(Pending(b))}

(* The spawns so far are the ones that have happened.                      *)
SpawnOf(i) == (life[i] = "none") = (i > next)

(* A message of a child is sent at its end.                                *)
LastWords(m) == m.from # 0 => life[m.from] \notin {"none", "spawned", "up"}

(* An entry leads to a process that has registered, and that will find it  *)
(* by its __name__ when it ends, unless it has taken a second name.        *)
EntryOf(k) ==
    names[k] # 0 =>
        /\ life[names[k]] \notin {"none", "spawned"}
        /\ \/ names[k] \in renamed
           \/ life[names[k]] \in {"up", "ended", "exited"} /\ nameOf[names[k]] = {k}

(* A __name__ whose entry is not its process's has been given up.          *)
OwnedOf(j, k) ==
    (k \in nameOf[j] /\ life[j] \notin {"cleaned", "gone"}) =>
        names[k] = j \/ \E h \in Spawns : <<h, k>> \in unreg

NamesInv == /\ \A k \in Kids : EntryOf(k)
            /\ \A j \in Spawns, k \in Kids : OwnedOf(j, k)
            /\ NameKept

(* The child the supervisor waits for is not on record; one it stops has   *)
(* been told, one it starts will be heard of if it ends.                   *)
Waited ==
    /\ cur # 0 => cur \notin records
    /\ spc = "stopWait" => \/ life[cur] \notin {"spawned", "up"}
                           \/ cur \in killed \cup letgo
    /\ spc = "wait" => life[cur] \in {"spawned", "up", "ended"} \/ ExitPending(cur)

SupervisorInv ==
    /\ TypeOK /\ mail \in Boxes
    /\ \A i \in Spawns : SpawnOf(i)
    /\ \A m \in Inside(mail) : LastWords(m)
    /\ Waited
    /\ watched \cap ByName = {}
    /\ Supervised /\ Watched /\ DeathNoticed

====
