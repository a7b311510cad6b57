---------------------------- MODULE NodeControl ----------------------------
(***************************************************************************)
(* Starting and stopping the node that serves the site: the script         *)
(* bin/nitrogen and its helper nodetool, run by several administrators (or *)
(* supervision services) at the same time.                                 *)
(*                                                                         *)
(* Nothing locks the scripts out against each other.  What they share is   *)
(* the list of processes (ps, kill -0), the name of the node, which epmd   *)
(* gives to one virtual machine at a time, and init, the process of the    *)
(* virtual machine that shuts it down.                                     *)
(*                                                                         *)
(* A virtual machine goes through these phases:                            *)
(*   script    the shell that will exec it is running, ps cannot tell      *)
(*   boot      it boots, without its name yet                              *)
(*   up        it has its name and answers nodetool                        *)
(*   site      the site's application runs: port and database are open     *)
(*   closing   init shuts it down, the site's application first            *)
(*   closed    the applications are stopped, the name is still held        *)
(*   cleared   the name is released, init is about to halt or boot again   *)
(*   gone      the process has ended; its number is not used again         *)
(***************************************************************************)
EXTENDS Naturals

CONSTANTS
    Scripts,     \* calls of bin/nitrogen
    Pids,        \* process numbers for virtual machines
    None,
    MaxCrashes   \* bound: virtual machines that end by themselves

ASSUME NoneAssumption == None \notin Pids
ASSUME CrashAssumption == MaxCrashes \in Nat

VARIABLES
    phase,    \* of each process number, "free" if it is not used yet
    reason,   \* the Reason with which init stops the virtual machine, None if it does not
    epmd,     \* the virtual machine that has the name of the node
    cmd,      \* the argument of each script, None before it is called
    pc,       \* where the script is
    status,   \* its exit status
    pids,     \* the variable PID of "stop"
    doomed,   \* the virtual machine that stops for good after the script's request
    crashes   \* the number of crashes so far

machines == <<phase, reason, epmd>>
scripts == <<cmd, pc, status, pids, doomed>>
vars == <<machines, scripts, crashes>>

Requests == {"stop", "restart", "reboot"}
Commands == Requests \cup {"start", "console"}
ASSUME CommandsAssumption == None \notin Commands

Named == {"up", "site", "closing", "closed"}
Running == Named \cup {"boot", "cleared"}

(* What "ps ... | grep -boot" lists. *)
Listed == {p \in Pids : phase[p] \in Running}
----------------------------------------------------------------------------
Init ==
    /\ phase = [p \in Pids |-> "free"]
    /\ reason = [p \in Pids |-> None]
    /\ epmd = None
    /\ cmd = [s \in Scripts |-> None]
    /\ pc = [s \in Scripts |-> "idle"]
    /\ status = [s \in Scripts |-> 0]
    /\ pids = [s \in Scripts |-> {}]
    /\ doomed = [s \in Scripts |-> None]
    /\ crashes = 0

Exit(s, code) ==
    /\ pc' = [pc EXCEPT ![s] = "done"]
    /\ status' = [status EXCEPT ![s] = code]

(* start, start_boot: refused when a node answers the ping. *)
start(s) ==
    /\ pc[s] = "idle"
    /\ cmd' = [cmd EXCEPT ![s] = "start"]
    /\ \/ epmd # None /\ Exit(s, 1)
       \/ epmd = None /\ pc' = [pc EXCEPT ![s] = "run_erl"] /\ UNCHANGED status
    /\ UNCHANGED <<machines, pids, doomed, crashes>>

(* run_erl -daemon forks a shell that runs "nitrogen console", and returns. *)
run_erl(s, p) ==
    /\ pc[s] = "run_erl" /\ phase[p] = "free"
    /\ phase' = [phase EXCEPT ![p] = "script"]
    /\ Exit(s, 0)
    /\ UNCHANGED <<reason, epmd, cmd, pids, doomed, crashes>>

(* console, console_clean, console_boot and foreground: the script becomes *)
(* the virtual machine, and no ping comes before it.                       *)
console(s, p) ==
    /\ pc[s] = "idle" /\ phase[p] = "free"
    /\ cmd' = [cmd EXCEPT ![s] = "console"]
    /\ phase' = [phase EXCEPT ![p] = "script"]
    /\ Exit(s, 0)
    /\ UNCHANGED <<reason, epmd, pids, doomed, crashes>>

(* exec $CMD *)
exec(p) ==
    /\ phase[p] = "script"
    /\ phase' = [phase EXCEPT ![p] = "boot"]
    /\ UNCHANGED <<reason, epmd, scripts, crashes>>

(* stop notes the processes before it asks; restart and reboot only ask. *)
request(s, c) ==
    /\ pc[s] = "idle"
    /\ cmd' = [cmd EXCEPT ![s] = c]
    /\ pids' = [pids EXCEPT ![s] = IF c = "stop" THEN Listed ELSE {}]
    /\ pc' = [pc EXCEPT ![s] = "ping"]
    /\ UNCHANGED <<machines, status, doomed, crashes>>

(* nodetool first sees if the node is running. *)
nodetool_ping(s) ==
    /\ pc[s] = "ping"
    /\ \/ epmd # None /\ pc' = [pc EXCEPT ![s] = "call"] /\ UNCHANGED status
       \/ epmd = None /\ Exit(s, 1)
    /\ UNCHANGED <<machines, cmd, pids, doomed, crashes>>

(* Mutant of init_stop: a later request replaces the earlier one. *)
InitStopTakesLatest(p, why) ==
    /\ phase' = [phase EXCEPT ![p] = IF @ \in {"up", "site"} THEN "closing" ELSE @]
    /\ reason' = [reason EXCEPT ![p] = why]

(* init gets {stop, Reason}.  When it already stops the virtual machine,   *)
(* shutdown_loop throws the request away.                                  *)
init_stop(p, why) ==
    IF phase[p] \in {"up", "site"}
    THEN /\ phase' = [phase EXCEPT ![p] = "closing"]
         /\ reason' = [reason EXCEPT ![p] = why]
    ELSE UNCHANGED <<phase, reason>>

(* nodetool calls init:stop, init:restart or init:reboot over rpc.  It     *)
(* prints the answer, and ends with 0 also when that is a badrpc because   *)
(* the node has disappeared since the ping.                                *)
nodetool_call(s) ==
    /\ pc[s] = "call"
    /\ IF epmd = None THEN UNCHANGED <<phase, reason>> ELSE init_stop(epmd, cmd[s])
    /\ doomed' = [doomed EXCEPT ![s] =
                    IF epmd # None /\ reason'[epmd] # "restart" THEN epmd ELSE None]
    /\ IF cmd[s] = "stop"
       THEN pc' = [pc EXCEPT ![s] = "wait"] /\ UNCHANGED status
       ELSE Exit(s, 0)
    /\ UNCHANGED <<epmd, cmd, pids, crashes>>

(* "kill -0 $PID" fails, and ends the loop of stop, when there is no       *)
(* process to ask for, and when all of them are gone.  When some are gone  *)
(* it depends on the shell: in dash, as POSIX has it, the command fails if *)
(* one process does not exist, in bash it succeeds if one does.            *)
kill_0(s) ==
    /\ pc[s] = "wait"
    /\ pids[s] = {} \/ \E p \in pids[s] : phase[p] = "gone"
    /\ Exit(s, 0)
    /\ UNCHANGED <<machines, cmd, pids, doomed, crashes>>
----------------------------------------------------------------------------
(* Mutant of register_node: the latest virtual machine gets the name. *)
RegisterTakesOver(p) ==
    /\ phase[p] = "boot"
    /\ epmd' = p
    /\ phase' = [phase EXCEPT ![p] = "up"]
    /\ UNCHANGED <<reason, scripts, crashes>>

(* The virtual machine registers its name, *)
register_node(p) ==
    /\ phase[p] = "boot" /\ epmd = None
    /\ epmd' = p
    /\ phase' = [phase EXCEPT ![p] = "up"]
    /\ UNCHANGED <<reason, scripts, crashes>>

(* Mutant of duplicate_name: the virtual machine stays without a name. *)
DuplicateNameIgnored(p) ==
    /\ phase[p] = "boot" /\ epmd # None
    /\ UNCHANGED vars

(* or halts when another one has it. *)
duplicate_name(p) ==
    /\ phase[p] = "boot" /\ epmd # None
    /\ phase' = [phase EXCEPT ![p] = "gone"]
    /\ UNCHANGED <<reason, epmd, scripts, crashes>>

(* -eval "application:start(nitrogen)" *)
application_start(p) ==
    /\ phase[p] = "up"
    /\ phase' = [phase EXCEPT ![p] = "site"]
    /\ UNCHANGED <<reason, epmd, scripts, crashes>>

(* init stops the applications, the last one that was started first, *)
shutdown(p) ==
    /\ phase[p] = "closing"
    /\ phase' = [phase EXCEPT ![p] = "closed"]
    /\ UNCHANGED <<reason, epmd, scripts, crashes>>

(* Mutant of unregister: the name is not given back. *)
UnregisterForgotten(p) ==
    /\ phase[p] = "closed"
    /\ phase' = [phase EXCEPT ![p] = "cleared"]
    /\ UNCHANGED <<reason, epmd, scripts, crashes>>

(* and so the kernel and the name come last. *)
unregister(p) ==
    /\ phase[p] = "closed"
    /\ epmd' = None
    /\ phase' = [phase EXCEPT ![p] = "cleared"]
    /\ UNCHANGED <<reason, scripts, crashes>>

(* Mutant of do_stop: restart halts as well. *)
DoStopAlwaysHalts(p) ==
    /\ phase[p] = "cleared"
    /\ phase' = [phase EXCEPT ![p] = "gone"]
    /\ reason' = [reason EXCEPT ![p] = None]
    /\ UNCHANGED <<epmd, scripts, crashes>>

(* restart boots again in the same process; stop halts, and as vm.args has *)
(* no -heart so does reboot.                                               *)
do_stop(p) ==
    /\ phase[p] = "cleared"
    /\ phase' = [phase EXCEPT ![p] = IF reason[p] = "restart" THEN "boot" ELSE "gone"]
    /\ reason' = [reason EXCEPT ![p] = None]
    /\ UNCHANGED <<epmd, scripts, crashes>>

(* The virtual machine ends without being asked; epmd notices. *)
crash(p) ==
    /\ crashes < MaxCrashes /\ phase[p] \in Running
    /\ crashes' = crashes + 1
    /\ phase' = [phase EXCEPT ![p] = "gone"]
    /\ reason' = [reason EXCEPT ![p] = None]
    /\ epmd' = IF epmd = p THEN None ELSE epmd
    /\ UNCHANGED scripts

Boots(p) == exec(p) \/ register_node(p) \/ duplicate_name(p) \/ application_start(p)
Ends(p) == shutdown(p) \/ unregister(p) \/ do_stop(p)

Next ==
    \/ \E s \in Scripts :
        \/ start(s) \/ \E p \in Pids : run_erl(s, p) \/ console(s, p)
        \/ \E c \in Requests : request(s, c)
        \/ nodetool_ping(s) \/ nodetool_call(s) \/ kill_0(s)
    \/ \E p \in Pids : Boots(p) \/ Ends(p) \/ crash(p)

Spec == Init /\ [][Next]_vars

(* A script that was called goes on, and so does a virtual machine that    *)
(* boots or shuts down.  Nobody has to call a script.  In every shell the  *)
(* loop of stop ends when none of its processes is left.                   *)
Fairness ==
    /\ \A s \in Scripts :
        /\ WF_vars(\E p \in Pids : run_erl(s, p))
        /\ WF_vars(nodetool_ping(s) \/ nodetool_call(s))
        /\ WF_vars((\A p \in pids[s] : phase[p] = "gone") /\ kill_0(s))
    /\ \A p \in Pids : WF_vars(Boots(p)) /\ WF_vars(Ends(p))

FairSpec == Spec /\ Fairness
----------------------------------------------------------------------------
(* Type invariant: in particular the name is never left with a virtual     *)
(* machine that has ended, which would keep every later one out.           *)
TypeOK ==
    /\ phase \in [Pids -> Running \cup {"free", "script", "gone"}]
    /\ reason \in [Pids -> Requests \cup {None}]
    /\ epmd \in {p \in Pids : phase[p] \in Named} \cup {None}
    /\ cmd \in [Scripts -> Commands \cup {None}]
    /\ pc \in [Scripts -> {"idle", "run_erl", "ping", "call", "wait", "done"}]
    /\ status \in [Scripts -> {0, 1}]
    /\ pids \in [Scripts -> SUBSET Pids]
    /\ doomed \in [Scripts -> Pids \cup {None}]
    /\ crashes \in Nat

(* Although nothing keeps two starts apart after their pings, at most one  *)
(* virtual machine has the site's port and database open: the application  *)
(* is started after the name was registered and stopped before it is       *)
(* released.                                                               *)
OneSite ==
    \A p, q \in Pids : phase[p] \in {"site", "closing"} /\ phase[q] \in {"site", "closing"} => p = q

(* What the comment "Wait for the node to completely stop..." on stop      *)
(* promises: when stop has ended with success, the virtual machine that    *)
(* got the request and stops because of it has ended.                      *)
StopWaitsForNode ==
    \A s \in Scripts :
        cmd[s] = "stop" /\ pc[s] = "done" /\ status[s] = 0 /\ doomed[s] # None =>
            phase[doomed[s]] = "gone"

(* A stop that has been accepted is not taken back: whatever scripts come  *)
(* after it, a restart among them, the virtual machine that got the        *)
(* request is being shut down for good until it has ended.                 *)
NoComeback ==
    \A s \in Scripts : doomed[s] # None =>
        \/ phase[doomed[s]] = "gone"
        \/ /\ phase[doomed[s]] \in {"closing", "closed", "cleared"}
           /\ reason[doomed[s]] \in {"stop", "reboot"}

(* Virtual machines that were started at the same time settle: in the end  *)
(* there is one at most.                                                   *)
OneSurvivor == <>[](\A p, q \in Listed : p = q)

(* Nobody has asked for the end of the node, and it has not crashed. *)
Quiet == crashes = 0 /\ \A s \in Scripts : cmd[s] \notin {"stop", "reboot"}

(* Starts that race and restarts do not bring each other down: a virtual   *)
(* machine halts over its name only when another one goes on.              *)
NeverAllGone ==
    Quiet /\ (\E p \in Pids : phase[p] # "free") =>
        \E q \in Pids : phase[q] \in Running \cup {"script"}

(* Where a virtual machine has been started the site is served in the end, *)
(* whatever other starts and restarts come in between.                     *)
Serves == \A p \in Pids :
    phase[p] \in Running \cup {"script"} ~> (~Quiet \/ \E q \in Pids : phase[q] = "site")

(* stop ends when every process that it waits for has ended or was asked   *)
(* to end, by this script or by another one, whatever restarts come        *)
(* afterwards; a request that came while the process was restarting does   *)
(* not count.                                                              *)
StopEnds == \A s \in Scripts :
    /\ pc[s] = "wait"
    /\ \A p \in pids[s] : phase[p] = "gone" \/ \E t \in Scripts : doomed[t] = p
    ~> pc[s] = "done"
=============================================================================
