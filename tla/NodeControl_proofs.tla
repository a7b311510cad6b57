------------------------- MODULE NodeControl_proofs -------------------------
(***************************************************************************)
(* Proofs about the control of the node.  Two virtual machines never both  *)
(* have the site open because the phases in which one has it are among     *)
(* those in which it has the name (Holders), and epmd gives the name to    *)
(* one.                                                                    *)
(***************************************************************************)
EXTENDS NodeControl, TLAPS

Phases == Running \cup {"free", "script", "gone"}

(* The types alone. *)
Types ==
    /\ phase \in [Pids -> Phases]
    /\ reason \in [Pids -> Requests \cup {None}]
    /\ epmd \in Pids \cup {None}
    /\ cmd \in [Scripts -> Commands \cup {None}]
    /\ pc \in [Scripts -> {"idle", "run_erl", "ping", "call", "wait", "done"}]
    /\ status \in [Scripts -> {0, 1}]
    /\ pids \in [Scripts -> SUBSET Pids]
    /\ doomed \in [Scripts -> Pids \cup {None}]
    /\ crashes \in Nat

(* A virtual machine has the name exactly in these phases. *)
Holders == \A p \in Pids : phase[p] \in Named <=> epmd = p

(* A script is where its argument has led it. *)
Callers == \A s \in Scripts :
    /\ pc[s] \in {"ping", "call", "wait"} => cmd[s] \in Requests
    /\ pc[s] = "run_erl" => cmd[s] = "start"

IInv == Types /\ Holders /\ Callers

(* The phase of a virtual machine that has ended does not change. *)
LEMMA GoneForGood ==
    ASSUME Types, [Next]_vars, NEW p \in Pids, phase[p] = "gone"
    PROVE  phase'[p] = "gone"
<1> USE DEF Types, Named, Running
<1>1. ASSUME NEW s \in Scripts PROVE /\ start(s) => phase'[p] = "gone"
                                     /\ nodetool_ping(s) => phase'[p] = "gone"
                                     /\ nodetool_call(s) => phase'[p] = "gone"
                                     /\ kill_0(s) => phase'[p] = "gone"
    BY DEF start, nodetool_ping, nodetool_call, init_stop, kill_0, machines
<1>2. ASSUME NEW s \in Scripts, NEW c \in Requests, request(s, c) PROVE phase'[p] = "gone"
    BY <1>2 DEF request, machines
<1>3. ASSUME NEW s \in Scripts, NEW q \in Pids, run_erl(s, q) \/ console(s, q)
      PROVE  phase'[p] = "gone"
    BY <1>3 DEF run_erl, console
<1>4. ASSUME NEW q \in Pids, Boots(q) PROVE phase'[p] = "gone"
    BY <1>4 DEF Boots, exec, register_node, duplicate_name, application_start
<1>5. ASSUME NEW q \in Pids, Ends(q) \/ crash(q) PROVE phase'[p] = "gone"
    BY <1>5 DEF Ends, shutdown, unregister, do_stop, crash
<1>6. CASE UNCHANGED vars
    BY <1>6 DEF vars, machines
<1> QED BY <1>1, <1>2, <1>3, <1>4, <1>5, <1>6 DEF Next

(* A step of a virtual machine keeps the invariant if it keeps the types   *)
(* and the name: it does not touch the scripts.                            *)
LEMMA MachineStep ==
    ASSUME IInv, UNCHANGED scripts, Types', Holders'
    PROVE  IInv'
BY DEF IInv, Callers, scripts

LEMMA InitIInv == Init => IInv
<1> SUFFICES ASSUME Init PROVE IInv
    OBVIOUS
<1>1. Types
    BY DEF Init, Types, Phases
<1>2. Holders
    BY NoneAssumption DEF Init, Holders, Named
<1>3. Callers
    BY DEF Init, Callers
<1> QED BY <1>1, <1>2, <1>3 DEF IInv

LEMMA NextIInv == IInv /\ [Next]_vars => IInv'
<1> SUFFICES ASSUME IInv, [Next]_vars PROVE IInv'
    OBVIOUS
<1>0. Types /\ Holders /\ Callers
    BY DEF IInv
<1>1. ASSUME NEW s \in Scripts, start(s) PROVE IInv'
  <2>1. Types'
      BY <1>0, <1>1 DEF start, Exit, machines, Types, Commands
  <2>2. Holders' /\ Callers'
      BY <1>0, <1>1 DEF start, Exit, machines, Types, Holders, Callers
  <2> QED BY <2>1, <2>2 DEF IInv
<1>2. ASSUME NEW s \in Scripts, NEW p \in Pids, run_erl(s, p) PROVE IInv'
  <2>1. Types'
      BY <1>0, <1>2 DEF run_erl, Exit, machines, Types, Phases, Commands, Listed
  <2>2. Holders'
      BY <1>0, <1>2 DEF run_erl, machines, Types, Holders, Named
  <2>3. Callers'
      BY <1>0, <1>2 DEF run_erl, Exit, Types, Callers, Requests
  <2> QED BY <2>1, <2>2, <2>3 DEF IInv
<1>3. ASSUME NEW s \in Scripts, NEW p \in Pids, console(s, p) PROVE IInv'
  <2>1. Types'
      BY <1>0, <1>3 DEF console, Exit, machines, Types, Phases, Commands, Listed
  <2>2. Holders'
      BY <1>0, <1>3 DEF console, machines, Types, Holders, Named
  <2>3. Callers'
      BY <1>0, <1>3 DEF console, Exit, Types, Callers, Requests
  <2> QED BY <2>1, <2>2, <2>3 DEF IInv
<1>4. ASSUME NEW s \in Scripts, NEW c \in Requests, request(s, c) PROVE IInv'
  <2>1. Types'
      BY <1>0, <1>4 DEF request, Exit, machines, Types, Phases, Commands, Listed
  <2>2. Holders'
      BY <1>0, <1>4 DEF request, machines, Types, Holders, Named
  <2>3. Callers'
      BY <1>0, <1>4 DEF request, Exit, Types, Callers, Requests
  <2> QED BY <2>1, <2>2, <2>3 DEF IInv
<1>5. ASSUME NEW s \in Scripts, nodetool_ping(s) PROVE IInv'
  <2>1. Types'
      BY <1>0, <1>5 DEF nodetool_ping, Exit, machines, Types, Phases, Commands, Listed
  <2>2. Holders'
      BY <1>0, <1>5 DEF nodetool_ping, machines, Types, Holders, Named
  <2>3. Callers'
      BY <1>0, <1>5 DEF nodetool_ping, Exit, Types, Callers, Requests
  <2> QED BY <2>1, <2>2, <2>3 DEF IInv
<1>6. ASSUME NEW s \in Scripts, nodetool_call(s) PROVE IInv'
  <2>0. cmd[s] \in Requests
      BY <1>0, <1>6 DEF nodetool_call, Callers
  <2>1. phase' \in [Pids -> Phases] /\ reason' \in [Pids -> Requests \cup {None}]
      BY <1>0, <1>6, <2>0 DEF nodetool_call, init_stop, Types, Phases, Running, Named
  <2>2. Types'
      BY <1>0, <1>6, <2>1 DEF nodetool_call, Exit, Types
  <2>3. Holders'
      BY <1>0, <1>6 DEF nodetool_call, init_stop, Types, Holders, Named
  <2>4. Callers'
      BY <1>0, <1>6 DEF nodetool_call, Exit, Types, Callers
  <2> QED BY <2>2, <2>3, <2>4 DEF IInv
<1>7. ASSUME NEW s \in Scripts, kill_0(s) PROVE IInv'
  <2>1. Types'
      BY <1>0, <1>7 DEF kill_0, Exit, machines, Types
  <2>2. Holders' /\ Callers'
      BY <1>0, <1>7 DEF kill_0, Exit, machines, Types, Holders, Callers
  <2> QED BY <2>1, <2>2 DEF IInv
<1>8. ASSUME NEW p \in Pids, exec(p) PROVE IInv'
  <2>1. Types'
      BY <1>0, <1>8 DEF exec, scripts, Types, Phases, Named, Running
  <2>2. Holders'
      BY <1>0, <1>8, NoneAssumption DEF exec, Types, Holders, Named, Running
  <2>3. UNCHANGED scripts
      BY <1>8 DEF exec
  <2> QED BY <2>1, <2>2, <2>3, MachineStep
<1>9. ASSUME NEW p \in Pids, register_node(p) PROVE IInv'
  <2>1. Types'
      BY <1>0, <1>9 DEF register_node, scripts, Types, Phases, Named, Running
  <2>2. Holders'
      BY <1>0, <1>9, NoneAssumption DEF register_node, Types, Holders, Named, Running
  <2>3. UNCHANGED scripts
      BY <1>9 DEF register_node
  <2> QED BY <2>1, <2>2, <2>3, MachineStep
<1>10. ASSUME NEW p \in Pids, duplicate_name(p) PROVE IInv'
  <2>1. Types'
      BY <1>0, <1>10 DEF duplicate_name, scripts, Types, Phases, Named, Running
  <2>2. Holders'
      BY <1>0, <1>10, NoneAssumption DEF duplicate_name, Types, Holders, Named, Running
  <2>3. UNCHANGED scripts
      BY <1>10 DEF duplicate_name
  <2> QED BY <2>1, <2>2, <2>3, MachineStep
<1>11. ASSUME NEW p \in Pids, application_start(p) PROVE IInv'
  <2>1. Types'
      BY <1>0, <1>11 DEF application_start, scripts, Types, Phases, Named, Running
  <2>2. Holders'
      BY <1>0, <1>11, NoneAssumption DEF application_start, Types, Holders, Named, Running
  <2>3. UNCHANGED scripts
      BY <1>11 DEF application_start
  <2> QED BY <2>1, <2>2, <2>3, MachineStep
<1>12. ASSUME NEW p \in Pids, shutdown(p) PROVE IInv'
  <2>1. Types'
      BY <1>0, <1>12 DEF shutdown, scripts, Types, Phases, Named, Running
  <2>2. Holders'
      BY <1>0, <1>12, NoneAssumption DEF shutdown, Types, Holders, Named, Running
  <2>3. UNCHANGED scripts
      BY <1>12 DEF shutdown
  <2> QED BY <2>1, <2>2, <2>3, MachineStep
<1>13. ASSUME NEW p \in Pids, unregister(p) PROVE IInv'
  <2>1. Types'
      BY <1>0, <1>13 DEF unregister, scripts, Types, Phases, Named, Running
  <2>2. Holders'
      BY <1>0, <1>13, NoneAssumption DEF unregister, Types, Holders, Named, Running
  <2>3. UNCHANGED scripts
      BY <1>13 DEF unregister
  <2> QED BY <2>1, <2>2, <2>3, MachineStep
<1>14. ASSUME NEW p \in Pids, do_stop(p) PROVE IInv'
  <2>1. Types'
      BY <1>0, <1>14 DEF do_stop, scripts, Types, Phases, Named, Running
  <2>2. Holders'
      BY <1>0, <1>14, NoneAssumption DEF do_stop, Types, Holders, Named, Running
  <2>3. UNCHANGED scripts
      BY <1>14 DEF do_stop
  <2> QED BY <2>1, <2>2, <2>3, MachineStep
<1>15. ASSUME NEW p \in Pids, crash(p) PROVE IInv'
  <2>1. Types'
      BY <1>0, <1>15 DEF crash, scripts, Types, Phases, Named, Running
  <2>2. Holders'
      BY <1>0, <1>15, NoneAssumption DEF crash, Types, Holders, Named, Running
  <2>3. UNCHANGED scripts
      BY <1>15 DEF crash
  <2> QED BY <2>1, <2>2, <2>3, MachineStep
<1>16. CASE UNCHANGED vars
  <2>1. Types' /\ Holders'
      BY <1>0, <1>16 DEF vars, machines, scripts, Types, Holders
  <2> QED BY <2>1, <1>16, MachineStep DEF vars
<1> QED BY <1>1, <1>2, <1>3, <1>4, <1>5, <1>6, <1>7, <1>8, <1>9, <1>10, <1>11, <1>12, <1>13,
           <1>14, <1>15, <1>16 DEF Next, Boots, Ends

(* The strengthening of the invariants holds in every reachable state. *)
THEOREM Inductive == Spec => []IInv
BY InitIInv, NextIInv, PTL DEF Spec
----------------------------------------------------------------------------
(* The name of the node is never left with a virtual machine that has      *)
(* ended.                                                                  *)
THEOREM TypeCorrect == Spec => []TypeOK
<1>1. IInv => TypeOK
  <2> SUFFICES ASSUME IInv PROVE TypeOK
      OBVIOUS
  <2>1. epmd \in {p \in Pids : phase[p] \in Named} \cup {None}
      BY DEF IInv, Types, Holders
  <2> QED BY <2>1 DEF IInv, Types, TypeOK, Phases
<1> QED BY <1>1, Inductive, PTL

(* However many scripts start the node at the same time, at most one       *)
(* virtual machine has the site open.                                      *)
THEOREM SiteIsExclusive == Spec => []OneSite
<1>1. IInv => OneSite
    BY DEF IInv, Holders, Named, OneSite
<1> QED BY <1>1, Inductive, PTL
----------------------------------------------------------------------------
(***************************************************************************)
(* What stands behind the two liveness properties: a virtual machine that  *)
(* is being shut down has a reason, which some script has asked for, and   *)
(* no other one has.                                                       *)
(***************************************************************************)
Leaving == {"closing", "closed", "cleared"}

(* A script that was not called has no argument. *)
Uncalled == \A s \in Scripts : pc[s] = "idle" => cmd[s] = None

Asked(p) == reason[p] \in Requests /\ \E s \in Scripts : cmd[s] = reason[p]
Reasons == \A p \in Pids :
    /\ phase[p] \in Leaving => Asked(p)
    /\ phase[p] \notin Leaving => reason[p] = None

(* A script keeps its argument. *)
LEMMA CmdKept ==
    ASSUME Types, Uncalled, [Next]_vars
    PROVE  /\ Uncalled'
           /\ \A s \in Scripts : cmd[s] # None => cmd'[s] = cmd[s]
<1> USE DEF Types, Uncalled
<1>1. ASSUME NEW s \in Scripts, start(s) PROVE Uncalled' /\ \A t \in Scripts : cmd[t] # None => cmd'[t] = cmd[t]
    BY <1>1 DEF start, Exit
<1>2. ASSUME NEW s \in Scripts, NEW p \in Pids, run_erl(s, p) \/ console(s, p)
      PROVE  Uncalled' /\ \A t \in Scripts : cmd[t] # None => cmd'[t] = cmd[t]
    BY <1>2 DEF run_erl, console, Exit
<1>3. ASSUME NEW s \in Scripts, NEW c \in Requests, request(s, c)
      PROVE  Uncalled' /\ \A t \in Scripts : cmd[t] # None => cmd'[t] = cmd[t]
    BY <1>3 DEF request
<1>4. ASSUME NEW s \in Scripts, nodetool_ping(s) \/ nodetool_call(s) \/ kill_0(s)
      PROVE  Uncalled' /\ \A t \in Scripts : cmd[t] # None => cmd'[t] = cmd[t]
    BY <1>4 DEF nodetool_ping, nodetool_call, kill_0, Exit
<1>5. CASE UNCHANGED scripts
    BY <1>5 DEF scripts
<1>6. ASSUME NEW p \in Pids, Boots(p) \/ Ends(p) \/ crash(p) PROVE UNCHANGED scripts
    BY <1>6 DEF Boots, exec, register_node, duplicate_name, application_start,
                Ends, shutdown, unregister, do_stop, crash
<1>7. UNCHANGED vars => UNCHANGED scripts
    BY DEF vars
<1> QED BY <1>1, <1>2, <1>3, <1>4, <1>5, <1>6, <1>7 DEF Next

(* A reason that is kept is still one that was asked for. *)
LEMMA AskedKept ==
    ASSUME Types, Uncalled, [Next]_vars, NEW p \in Pids, Asked(p), reason'[p] = reason[p]
    PROVE  Asked(p)'
<1>1. PICK s \in Scripts : cmd[s] = reason[p]
    BY DEF Asked
<1>2. cmd[s] # None
    BY <1>1, CommandsAssumption DEF Asked, Commands
<1>3. cmd'[s] = cmd[s]
    BY <1>2, CmdKept
<1> QED BY <1>1, <1>3 DEF Asked

(* What one step does to a virtual machine: it stays as it is, moves       *)
(* without being shut down, is asked to end, goes on ending, or has ended. *)
LEMMA MachineMoves ==
    ASSUME IInv, [Next]_vars, NEW p \in Pids
    PROVE  \/ phase'[p] = phase[p] /\ reason'[p] = reason[p]
           \/ /\ phase[p] \in {"free", "script", "boot", "up"}
              /\ phase'[p] \in {"script", "boot", "up", "site"}
              /\ reason'[p] = reason[p]
           \/ /\ phase[p] \in {"up", "site"} /\ phase'[p] = "closing"
              /\ reason'[p] \in Requests
              /\ \E s \in Scripts : cmd'[s] = reason'[p]
           \/ /\ phase[p] \in {"closing", "closed"} /\ phase'[p] \in {"closed", "cleared"}
              /\ reason'[p] = reason[p]
           \/ /\ phase[p] = "cleared" /\ reason'[p] = None
              /\ phase'[p] = IF reason[p] = "restart" THEN "boot" ELSE "gone"
           \/ /\ phase[p] = "boot" /\ phase'[p] = "gone" /\ reason'[p] = reason[p]
              /\ \E q \in Pids \ {p} : phase'[q] \in Named
           \/ phase'[p] = "gone" /\ reason'[p] = None /\ crashes' # 0
<1> USE DEF IInv, Types
<1>1. CASE UNCHANGED machines
    BY <1>1 DEF machines
<1>2. ASSUME NEW s \in Scripts, start(s) \/ nodetool_ping(s) \/ kill_0(s) PROVE UNCHANGED machines
    BY <1>2 DEF start, nodetool_ping, kill_0
<1>3. ASSUME NEW s \in Scripts, NEW c \in Requests, request(s, c) PROVE UNCHANGED machines
    BY <1>3 DEF request
<1>4. UNCHANGED vars => UNCHANGED machines
    BY DEF vars
<1>5. CASE \E s \in Scripts, q \in Pids : run_erl(s, q) \/ console(s, q)
    BY <1>5 DEF run_erl, console
<1>6. ASSUME NEW s \in Scripts, nodetool_call(s)
      PROVE  \/ phase'[p] = phase[p] /\ reason'[p] = reason[p]
             \/ /\ phase[p] \in {"up", "site"} /\ phase'[p] = "closing"
                /\ reason'[p] \in Requests
                /\ \E t \in Scripts : cmd'[t] = reason'[p]
  <2>1. cmd[s] \in Requests /\ cmd'[s] = cmd[s]
      BY <1>6 DEF nodetool_call, Callers
  <2>2. CASE epmd = None
      BY <1>6, <2>2 DEF nodetool_call
  <2>3. CASE epmd # None
    <3>1. init_stop(epmd, cmd[s]) /\ epmd \in Pids
        BY <1>6, <2>3 DEF nodetool_call
    <3>2. \/ phase'[p] = phase[p] /\ reason'[p] = reason[p]
          \/ phase[p] \in {"up", "site"} /\ phase'[p] = "closing" /\ reason'[p] = cmd[s]
        BY <3>1 DEF init_stop
    <3> QED BY <2>1, <3>2
  <2> QED BY <2>2, <2>3
<1>7. CASE \E q \in Pids : exec(q) \/ application_start(q)
    BY <1>7 DEF exec, application_start
<1>8. CASE \E q \in Pids : register_node(q)
    BY <1>8 DEF register_node
<1>9. ASSUME NEW q \in Pids, duplicate_name(q)
      PROVE  \/ phase'[p] = phase[p] /\ reason'[p] = reason[p]
             \/ /\ phase[p] = "boot" /\ phase'[p] = "gone" /\ reason'[p] = reason[p]
                /\ \E r \in Pids \ {p} : phase'[r] \in Named
  <2>1. epmd \in Pids /\ phase[epmd] \in Named /\ phase[q] = "boot"
      BY <1>9 DEF duplicate_name, Holders
  <2>2. epmd # q /\ phase'[epmd] = phase[epmd]
      BY <1>9, <2>1 DEF duplicate_name, Named
  <2>3. /\ p # q => phase'[p] = phase[p]
        /\ p = q => phase'[p] = "gone"
        /\ reason'[p] = reason[p]
      BY <1>9 DEF duplicate_name
  <2> QED BY <2>1, <2>2, <2>3
<1>10. CASE \E q \in Pids : shutdown(q)
    BY <1>10 DEF shutdown
<1>11. CASE \E q \in Pids : unregister(q)
    BY <1>11 DEF unregister
<1>12. CASE \E q \in Pids : do_stop(q)
    BY <1>12 DEF do_stop
<1>13. CASE \E q \in Pids : crash(q)
    BY <1>13 DEF crash
<1> QED BY <1>1, <1>2, <1>3, <1>4, <1>5, <1>6, <1>7, <1>8, <1>9, <1>10, <1>11, <1>12, <1>13
        DEF Next, Boots, Ends

(* Every step keeps the reasons, *)
LEMMA ReasonsStep ==
    ASSUME IInv, Uncalled, Reasons, [Next]_vars
    PROVE  Reasons'
<1> SUFFICES ASSUME NEW p \in Pids
             PROVE  /\ phase'[p] \in Leaving => Asked(p)'
                    /\ phase'[p] \notin Leaving => reason'[p] = None
    BY DEF Reasons
<1>1. /\ phase[p] \in Leaving => Asked(p)
      /\ phase[p] \notin Leaving => reason[p] = None
    BY DEF Reasons
<1>2. Asked(p) /\ reason'[p] = reason[p] => Asked(p)'
    BY AskedKept DEF IInv
<1>3. reason'[p] \in Requests /\ (\E s \in Scripts : cmd'[s] = reason'[p]) => Asked(p)'
    BY DEF Asked
<1> HIDE DEF Asked
<1> QED BY <1>1, <1>2, <1>3, MachineMoves DEF Leaving

(* and a virtual machine that ends for good goes on to do so. *)
LEMMA NoComebackStep ==
    ASSUME IInv, Reasons, NoComeback, [Next]_vars
    PROVE  NoComeback'
<1> DEFINE Ending(p) == \/ phase[p] = "gone"
                        \/ phase[p] \in Leaving /\ reason[p] \in {"stop", "reboot"}
           StillEnding(p) == \/ phase'[p] = "gone"
                             \/ phase'[p] \in Leaving /\ reason'[p] \in {"stop", "reboot"}
<1>1. ASSUME NEW p \in Pids, Ending(p) PROVE StillEnding(p)
  <2>1. CASE phase[p] = "gone"
      BY <2>1, GoneForGood DEF IInv
  <2>2. CASE phase[p] \in Leaving /\ reason[p] \in {"stop", "reboot"}
      BY <2>2, MachineMoves DEF Leaving
  <2> QED BY <1>1, <2>1, <2>2
<1>2. ASSUME NEW s \in Scripts, nodetool_call(s), doomed'[s] # None
      PROVE  StillEnding(doomed'[s])
  <2>1. epmd \in Pids /\ doomed'[s] = epmd /\ reason'[epmd] # "restart" /\ epmd # None
      BY <1>2 DEF nodetool_call, IInv, Types
  <2>2. init_stop(epmd, cmd[s])
      BY <1>2, <2>1 DEF nodetool_call
  <2>3. phase[epmd] \in Named /\ cmd[s] \in Requests
      BY <1>2, <2>1 DEF nodetool_call, IInv, Holders, Callers
  <2>4. CASE phase[epmd] \in {"up", "site"}
    <3>1. phase'[epmd] = "closing" /\ reason'[epmd] = cmd[s]
        BY <2>1, <2>2, <2>4 DEF init_stop, IInv, Types
    <3> QED BY <2>1, <2>3, <3>1 DEF Leaving, Requests
  <2>5. CASE phase[epmd] \notin {"up", "site"}
    <3>1. phase'[epmd] = phase[epmd] /\ reason'[epmd] = reason[epmd]
        BY <2>2, <2>5 DEF init_stop
    <3>2. phase[epmd] \in Leaving
        BY <2>3, <2>5 DEF Named, Leaving
    <3>3. reason[epmd] \in Requests
        BY <2>1, <3>2 DEF Reasons, Asked
    <3> QED BY <2>1, <3>1, <3>2, <3>3 DEF Requests
  <2> QED BY <2>4, <2>5
<1>3. \A t \in Scripts : doomed'[t] = doomed[t] \/ nodetool_call(t)
  <2>1. CASE \E s \in Scripts : nodetool_call(s)
      BY <2>1 DEF nodetool_call, IInv, Types
  <2>2. CASE ~ \E s \in Scripts : nodetool_call(s)
      BY <2>2 DEF Next, vars, scripts, start, run_erl, console, request, nodetool_ping, kill_0,
                  Boots, exec, register_node, duplicate_name, application_start,
                  Ends, shutdown, unregister, do_stop, crash
  <2> QED BY <2>1, <2>2
<1> SUFFICES ASSUME NEW t \in Scripts, doomed'[t] # None
             PROVE  StillEnding(doomed'[t])
    BY DEF NoComeback, Leaving
<1>4. CASE doomed'[t] = doomed[t]
  <2>1. doomed[t] \in Pids /\ Ending(doomed[t])
      BY <1>4 DEF NoComeback, Leaving, IInv, Types
  <2> QED BY <1>1, <1>4, <2>1
<1> QED BY <1>2, <1>3, <1>4

(* While nobody asks for the end of the node and it does not crash, no     *)
(* virtual machine ends but for another one that goes on.                  *)
LEMMA NeverAllGoneStep ==
    ASSUME IInv, Uncalled, Reasons, NeverAllGone, [Next]_vars
    PROVE  NeverAllGone'
<1> DEFINE Alive == Running \cup {"script"}
<1> SUFFICES ASSUME Quiet', NEW p \in Pids, phase'[p] # "free"
             PROVE  \E q \in Pids : phase'[q] \in Alive
    BY DEF NeverAllGone
<1>1. Quiet
  <2>1. crashes = 0
      BY DEF Quiet, IInv, Types, Next, vars, start, run_erl, console, request, nodetool_ping,
             nodetool_call, kill_0, Boots, exec, register_node, duplicate_name,
             application_start, Ends, shutdown, unregister, do_stop, crash
  <2>2. \A s \in Scripts : cmd[s] \notin {"stop", "reboot"}
    <3>1. None \notin {"stop", "reboot"}
        BY CommandsAssumption DEF Commands, Requests
    <3>2. \A s \in Scripts : cmd[s] # None => cmd'[s] = cmd[s]
        BY CmdKept DEF IInv
    <3> QED BY <3>1, <3>2 DEF Quiet
  <2> QED BY <2>1, <2>2 DEF Quiet
<1>2. \A q \in Pids : phase[q] = "cleared" => reason[q] = "restart"
  <2> SUFFICES ASSUME NEW q \in Pids, phase[q] = "cleared" PROVE reason[q] = "restart"
      OBVIOUS
  <2>1. Asked(q)
      BY DEF Reasons, Leaving
  <2> QED BY <1>1, <2>1 DEF Asked, Quiet, Requests
<1>3. crashes' = 0
    BY DEF Quiet
<1>4. ASSUME NEW q \in Pids, phase[q] \in Alive
      PROVE  \E r \in Pids : phase'[r] \in Alive
  <2>1. phase[q] \notin {"free", "gone"}
      BY <1>4 DEF Running, Named
  <2>2. phase'[q] \in Alive \/ \E r \in Pids \ {q} : phase'[r] \in Named
      BY <1>2, <1>3, <1>4, <2>1, MachineMoves DEF Running, Named
  <2> QED BY <2>2 DEF Running
<1>5. CASE \E q \in Pids : phase[q] # "free"
  <2>1. \E q \in Pids : phase[q] \in Alive
      BY <1>1, <1>5 DEF NeverAllGone
  <2> QED BY <1>4, <2>1
<1>6. CASE \A q \in Pids : phase[q] = "free"
  <2>1. phase[p] = "free"
      BY <1>6
  <2>2. phase'[p] \in Alive
      BY <1>3, <2>1, MachineMoves DEF Running, Named
  <2> QED BY <2>2
<1> QED BY <1>5, <1>6

(* Both and what they rest on hold in every reachable state. *)
THEOREM EndsInductive == Spec => [](Uncalled /\ Reasons /\ NoComeback /\ NeverAllGone)
<1>1. Init => Uncalled /\ Reasons /\ NoComeback /\ NeverAllGone
    BY DEF Init, Uncalled, Reasons, Leaving, NoComeback, NeverAllGone
<1>2. IInv /\ Uncalled /\ Reasons /\ NoComeback /\ NeverAllGone /\ [Next]_vars
        => (Uncalled /\ Reasons /\ NoComeback /\ NeverAllGone)'
    BY CmdKept, ReasonsStep, NoComebackStep, NeverAllGoneStep DEF IInv
<1> QED BY <1>1, <1>2, Inductive, PTL DEF Spec

(* A virtual machine that accepted a stop never comes back, whatever       *)
(* number of scripts is run.                                               *)
THEOREM StopIsFinal == Spec => []NoComeback
BY EndsInductive, PTL

(* Any number of racing starts and restarts leaves a virtual machine.      *)
THEOREM SomeoneSurvives == Spec => []NeverAllGone
BY EndsInductive, PTL
=============================================================================
