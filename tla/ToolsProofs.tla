----------------------------- MODULE ToolsProofs -----------------------------
(***************************************************************************)
(* The tools' safety for any configurations, calls, sandboxes and bounds.  *)
(* None of the four invariants is inductive: each is about the end of a    *)
(* call and needs what holds on the way there.  CallInv says where a call  *)
(* may be with which tool and status; on top of it, ProcInv is what the    *)
(* process runner needs, StopInv the emergency stop, WriteInv and          *)
(* InsideInv the files.                                                    *)
(*                                                                         *)
(* The last part is about the memory behind the memory tools, for any      *)
(* namespaces, keys and texts.  That both backends answer alike does not   *)
(* follow from itself: a restart builds the store from the file alone.     *)
(* MemInv says that table, store and file hold the same records as long as *)
(* nothing failed, that each has one entry for a namespace and key, and    *)
(* that what was forgotten is blank in the open transaction too.           *)
(***************************************************************************)
EXTENDS Tools, Memory, SequenceTheorems, FiniteSetTheorems, WellFoundedInduction, TLAPS

Phases == {"down", "create", "load", "up"}
FilePcs == {"resolve", "walk", "list", "write", "publish", "append"}
ShellPcs == {"spawn", "wait", "read"}

CallShape ==
    /\ DOMAIN call = {"pc", "id", "args", "dir", "path", "segs", "st", "before", "cancel", "acted"}
    /\ call.pc \in {"idle", "receipt"} \cup FilePcs \cup ShellPcs
    /\ call.id \in Nat /\ call.args \in Calls /\ call.acted \in BOOLEAN

DaemonShape ==
    /\ DOMAIN daemon = {"phase", "config", "policy", "estop", "life"}
    /\ daemon.phase \in Phases /\ daemon.life \in Nat

(* Only a daemon that is up has a call; a call fails into its receipt, it  *)
(* acts late, and what acted is not refused any more.                      *)
CallInv ==
    /\ CallShape /\ DaemonShape
    /\ daemon.phase # "up" => call.pc = "idle"
    /\ call.pc # "receipt" => call.st = "ok"
    /\ call.acted => call.pc \in {"wait", "read", "receipt"} /\ call.st # "denied"
    /\ call.pc \in FilePcs => call.args.tool # "shell"
    /\ call.pc \in ShellPcs => call.args.tool = "shell"
    /\ call.pc = "walk" => call.args.tool \in {"file_read", "file_write"}
    /\ call.pc = "list" => call.args.tool = "file_list"
    /\ call.pc \in {"write", "publish"} =>
         call.args.tool = "file_write" /\ call.args.mode \in {"overwrite", "create"}
    /\ call.pc = "append" => call.args.tool = "file_write" /\ call.args.mode = "append"

(* The steps that leave the call, the daemon and the effects alone.        *)
Elsewhere ==
    \/ \E cmd \in {"trip", "reset"} : EstopCommand(cmd)
    \/ EstopWriteFile
    \/ ChildWrites \/ ChildForks \/ (\E code \in {0, 1} : ChildExits(code)) \/ TimeUp
    \/ Swap

LEMMA ElsewhereKeeps == ASSUME Elsewhere PROVE UNCHANGED <<daemon, call, effects>>
BY DEF Elsewhere, EstopCommand, EstopWriteFile, ChildWrites, ChildForks, ChildExits, TimeUp, Swap

(* The call returns to its start.                                          *)
LEMMA NoCallShape ==
    ASSUME NEW id \in Nat, NEW c, c = [NoCall EXCEPT !.id = id]
    PROVE  /\ DOMAIN c = {"pc", "id", "args", "dir", "path", "segs", "st", "before", "cancel", "acted"}
           /\ c.pc = "idle" /\ c.id = id /\ c.args \in Calls /\ c.acted = FALSE /\ c.st = "ok"
BY BoundsAssumption DEF NoCall

LEMMA IdleKeeps ==
    ASSUME CallInv, call' = [NoCall EXCEPT !.id = call.id], DaemonShape'
    PROVE  CallInv' /\ call'.pc = "idle" /\ call'.acted = FALSE /\ call'.id = call.id
<1>1. /\ DOMAIN call' = {"pc", "id", "args", "dir", "path", "segs", "st", "before", "cancel", "acted"}
      /\ call'.pc = "idle" /\ call'.id = call.id /\ call'.args \in Calls /\ call'.acted = FALSE
      /\ call'.st = "ok" /\ call'.id \in Nat
    BY NoCallShape DEF CallInv, CallShape
<1> QED
    BY <1>1 DEF CallInv, CallShape, FilePcs, ShellPcs

LEMMA CallInit == ASSUME ToolInit PROVE CallInv
BY BoundsAssumption DEF ToolInit, CallInv, CallShape, DaemonShape, NoCall, Phases, FilePcs, ShellPcs

(* A call that fails.                                                      *)
LEMMA FailKeeps ==
    ASSUME CallInv, NEW st, Fail(st), daemon.phase = "up", call.acted => st # "denied", UNCHANGED <<daemon, effects>>
    PROVE  CallInv' /\ call'.pc = "receipt" /\ call'.st = st
BY DEF Fail, CallInv, CallShape, DaemonShape, FilePcs, ShellPcs

LEMMA CallStep ==
    ASSUME CallInv, [ToolNext]_toolVars
    PROVE  CallInv'
<1> USE DEF FilePcs, ShellPcs
<1>1. CASE Elsewhere \/ UNCHANGED toolVars
    BY <1>1, ElsewhereKeeps DEF toolVars, CallInv, CallShape, DaemonShape
<1>2. ASSUME NEW c \in Configs, BootCheck(c) PROVE CallInv'
  <2>1. call' = [NoCall EXCEPT !.id = call.id]
      BY <1>2 DEF BootCheck
  <2>2. daemon'.phase \in Phases /\ daemon'.life = daemon.life + 1 /\ DOMAIN daemon' = DOMAIN daemon
      BY <1>2 DEF BootCheck, CallInv, DaemonShape, Phases
  <2>3. DaemonShape'
      BY <2>1, <2>2 DEF CallInv, DaemonShape
  <2> QED
      BY <2>1, <2>3, IdleKeeps
<1>3. CASE BootCreate \/ BootLoad
    BY <1>3 DEF BootCreate, BootLoad, CallInv, CallShape, DaemonShape, Phases
<1>4. CASE Crash
  <2>1. call' = [NoCall EXCEPT !.id = call.id] /\ UNCHANGED effects
        /\ daemon'.phase \in Phases /\ daemon'.life = daemon.life /\ DOMAIN daemon' = DOMAIN daemon
      BY <1>4 DEF Crash, CallInv, DaemonShape, Phases
  <2> QED
      BY <2>1, IdleKeeps DEF CallInv, DaemonShape
<1>5. ASSUME NEW args \in Calls, Invoke(args) PROVE CallInv'
  <2>1. PICK st : call' = [NoCall EXCEPT !.id = call.id + 1, !.args = args, !.st = st, !.before = tree.file,
                                         !.pc = IF st # "ok" THEN "receipt"
                                                ELSE IF args.tool = "shell" THEN "spawn" ELSE "resolve"]
      BY <1>5 DEF Invoke
  <2>2. /\ DOMAIN call' = DOMAIN NoCall /\ call'.id = call.id + 1 /\ call'.args = args /\ call'.st = st
        /\ call'.acted = FALSE
        /\ \/ st # "ok" /\ call'.pc = "receipt"
           \/ st = "ok" /\ args.tool = "shell" /\ call'.pc = "spawn"
           \/ st = "ok" /\ args.tool # "shell" /\ call'.pc = "resolve"
      BY <2>1 DEF NoCall
  <2>3. DOMAIN NoCall = {"pc", "id", "args", "dir", "path", "segs", "st", "before", "cancel", "acted"}
      BY DEF NoCall
  <2>4. daemon.phase = "up" /\ UNCHANGED <<daemon, effects>> /\ call.id + 1 \in Nat
      BY <1>5 DEF Invoke, CallInv, CallShape
  <2> QED
      BY <2>2, <2>3, <2>4 DEF CallInv, CallShape, DaemonShape
<1>6. ASSUME call.pc \in FilePcs \cup {"spawn"}, UNCHANGED <<daemon, effects>>, NEW st, Fail(st) PROVE CallInv'
    BY <1>6, FailKeeps DEF CallInv
<1>7. CASE ResolveParent
    BY <1>6, <1>7 DEF ResolveParent, CallInv, CallShape, DaemonShape
<1>8. CASE WalkSegment
    BY <1>6, <1>8 DEF WalkSegment, CallInv, CallShape, DaemonShape
<1>9. CASE ReadLeaf
    BY <1>6, <1>9 DEF ReadLeaf, AtLeaf, CallInv, CallShape, DaemonShape
<1>10. CASE ResolveList
    BY <1>6, <1>10 DEF ResolveList, CallInv, CallShape, DaemonShape
<1>11. CASE ListDirectory
    BY <1>6, <1>11 DEF ListDirectory, CallInv, CallShape, DaemonShape
<1>12. CASE OpenTemp
    BY <1>6, <1>12 DEF OpenTemp, AtLeaf, CallInv, CallShape, DaemonShape
<1>13. CASE WriteTemp
    BY <1>6, <1>13 DEF WriteTemp, CallInv, CallShape, DaemonShape
<1>14. CASE PublishTemp
    BY <1>6, <1>14 DEF PublishTemp, CallInv, CallShape, DaemonShape
<1>15. CASE OpenAppend
    BY <1>6, <1>15 DEF OpenAppend, AtLeaf, CallInv, CallShape, DaemonShape
<1>16. CASE AppendBytes
  <2>1. call.pc = "append" /\ UNCHANGED <<daemon, effects>>
      BY <1>16 DEF AppendBytes
  <2>2. /\ DOMAIN call' = DOMAIN call /\ call'.pc = "receipt" /\ call'.acted = TRUE /\ call'.id = call.id
        /\ call'.args = call.args /\ call'.st \in {call.st, "io"}
      BY <1>16 DEF AppendBytes, CallInv, CallShape
  <2> QED
      BY <2>1, <2>2 DEF CallInv, CallShape, DaemonShape
<1>17. CASE BadMode
    BY <1>6, <1>17 DEF BadMode, AtLeaf
<1>18. CASE Spawn
  <2>1. CASE call' = [call EXCEPT !.pc = "receipt", !.st = "io", !.acted = TRUE]
    <3>1. call.pc = "spawn" /\ UNCHANGED <<daemon, effects>> /\ daemon.phase = "up" /\ "io" # "denied"
        BY <1>18 DEF Spawn, CallInv
    <3>2. /\ DOMAIN call' = DOMAIN call /\ call'.pc = "receipt" /\ call'.acted = TRUE /\ call'.id = call.id
          /\ call'.args = call.args /\ call'.st = "io"
        BY <2>1 DEF CallInv, CallShape
    <3> QED
        BY <3>1, <3>2 DEF CallInv, CallShape, DaemonShape
  <2>2. CASE ~(call' = [call EXCEPT !.pc = "receipt", !.st = "io", !.acted = TRUE])
      BY <1>6, <1>18, <2>2 DEF Spawn, SpawnFails, CallInv, CallShape, DaemonShape
  <2> QED
      BY <2>1, <2>2
<1>19. CASE Cancel
    BY <1>19 DEF Cancel, CallInv, CallShape, DaemonShape
<1>20. ASSUME call.pc \in {"wait", "read"}, UNCHANGED <<daemon, effects>>, NEW st, st # "denied", Fail(st) PROVE CallInv'
    BY <1>20, FailKeeps DEF CallInv
<1>21. CASE RunWait
    BY <1>20, <1>21 DEF RunWait, CallInv, CallShape, DaemonShape
<1>22. CASE RunRead
  <2>1. call.pc = "read" /\ UNCHANGED <<daemon, effects>> /\ "io" # "denied"
      BY <1>22 DEF RunRead
  <2>2. \/ Fail("io")
        \/ call' = [call EXCEPT !.pc = "receipt"]
        \/ call' = [call EXCEPT !.pc = "wait"]
      BY <1>22 DEF RunRead
  <2> QED
      BY <1>20, <2>1, <2>2 DEF CallInv, CallShape, DaemonShape
<1>23. CASE RecordReceipt
  <2>1. call' = [NoCall EXCEPT !.id = call.id] /\ UNCHANGED daemon
      BY <1>23 DEF RecordReceipt
  <2> QED
      BY <2>1, IdleKeeps DEF CallInv, DaemonShape
<1> QED
    BY <1>1, <1>2, <1>3, <1>4, <1>5, <1>7, <1>8, <1>9, <1>10, <1>11, <1>12, <1>13, <1>14, <1>15, <1>16, <1>17,
       <1>18, <1>19, <1>21, <1>22, <1>23
    DEF ToolNext, Elsewhere

-----------------------------------------------------------------------------
(* The child of the process runner: alive only while the runner's loop     *)
(* waits for it, and every chunk it wrote is either read or still in the   *)
(* pipe; when the loop has seen its end it writes no more.                 *)
ProcShape ==
    /\ DOMAIN proc = {"st", "kids", "wrote", "pipe", "code", "read", "seen", "late"}
    /\ proc.wrote \in Nat /\ proc.pipe \in Nat /\ proc.read \in Nat
    /\ proc.st \in {"none", "run", "exited", "reaped"}

ProcInv ==
    /\ ProcShape
    /\ call.pc \in {"wait", "read"} => proc.wrote = proc.read + proc.pipe
    /\ call.pc \notin {"wait", "read"} => proc.st \in {"none", "reaped"} /\ ~proc.kids
    /\ call.pc = "read" /\ proc.seen => proc.st = "exited"
    /\ call.pc = "receipt" /\ call.args.tool = "shell" /\ call.st = "ok" => proc.read = proc.wrote

(* A step of a file tool leaves the runner idle.                           *)
LEMMA ProcFileStep ==
    ASSUME ProcInv, UNCHANGED proc, call.pc \notin {"wait", "read"}, call'.pc \notin {"wait", "read"},
           call'.pc = "receipt" => call'.args.tool # "shell" \/ call'.st # "ok"
    PROVE  ProcInv'
BY DEF ProcInv, ProcShape

LEMMA ProcStep ==
    ASSUME CallInv, ProcInv, [ToolNext]_toolVars
    PROVE  ProcInv'
<1>0. MaxOut \in Nat
    BY BoundsAssumption
<1>1. CASE UNCHANGED <<call, proc>>
    BY <1>1 DEF ProcInv, ProcShape
<1>2. CASE call' = [NoCall EXCEPT !.id = call.id] /\ proc' = NoProc
  <2>1. call'.pc = "idle"
      BY <1>2 DEF NoCall
  <2>2. /\ DOMAIN NoProc = {"st", "kids", "wrote", "pipe", "code", "read", "seen", "late"}
        /\ NoProc.st = "none" /\ ~NoProc.kids /\ NoProc.wrote = 0 /\ NoProc.pipe = 0 /\ NoProc.read = 0
        /\ ~NoProc.seen
      BY DEF NoProc
  <2>3. NoProc.wrote \in Nat /\ NoProc.pipe \in Nat /\ NoProc.read \in Nat
      BY <2>2
  <2> QED
      BY <1>2, <2>1, <2>2, <2>3 DEF ProcInv, ProcShape
<1>3. ASSUME NEW args \in Calls, Invoke(args) PROVE ProcInv'
  <2>1. /\ call'.pc \in {"receipt", "spawn", "resolve"} /\ UNCHANGED proc /\ call.pc = "idle"
        /\ call'.pc = "receipt" => call'.st # "ok"
      BY <1>3 DEF Invoke, NoCall
  <2> QED
      BY <2>1, ProcFileStep
<1>4. CASE \/ ResolveParent \/ WalkSegment \/ ReadLeaf \/ ResolveList \/ ListDirectory \/ OpenTemp \/ WriteTemp
           \/ PublishTemp \/ OpenAppend \/ AppendBytes \/ BadMode
  <2>1. call.pc \in FilePcs /\ UNCHANGED proc
      BY <1>4 DEF ResolveParent, WalkSegment, ReadLeaf, ResolveList, ListDirectory, OpenTemp, WriteTemp, PublishTemp,
                  OpenAppend, AppendBytes, BadMode, AtLeaf, FilePcs
  <2>2. call'.pc \in FilePcs \cup {"receipt"} /\ call'.args = call.args
      BY <1>4 DEF ResolveParent, WalkSegment, ReadLeaf, ResolveList, ListDirectory, OpenTemp, WriteTemp, PublishTemp,
                  OpenAppend, AppendBytes, BadMode, AtLeaf, Fail, FilePcs, CallInv, CallShape
  <2> QED
      BY <2>1, <2>2, ProcFileStep DEF CallInv, FilePcs
<1>5. CASE Cancel
  <2>1. call'.pc = call.pc /\ call'.args = call.args /\ call'.st = call.st /\ UNCHANGED proc
      BY <1>5 DEF Cancel, CallInv, CallShape
  <2> QED
      BY <2>1 DEF ProcInv, ProcShape
<1>6. CASE Spawn
  <2>1. call.pc = "spawn" /\ call.args.tool = "shell"
      BY <1>6 DEF Spawn, CallInv, ShellPcs
  <2>2. ASSUME NEW st, st # "ok", Fail(st), UNCHANGED proc PROVE ProcInv'
    <3>1. call'.pc = "receipt" /\ call'.st = st
        BY <2>2 DEF Fail, CallInv, CallShape
    <3> QED
        BY <2>1, <2>2, <3>1, ProcFileStep
  <2>3. CASE call' = [call EXCEPT !.pc = "wait", !.acted = TRUE] /\ proc' = [NoProc EXCEPT !.st = "run"]
    <3>1. call'.pc = "wait"
        BY <2>3 DEF CallInv, CallShape
    <3>2. /\ DOMAIN proc' = {"st", "kids", "wrote", "pipe", "code", "read", "seen", "late"}
          /\ proc'.st = "run" /\ ~proc'.kids /\ proc'.wrote = 0 /\ proc'.pipe = 0 /\ proc'.read = 0
          /\ ~proc'.seen
        BY <2>3 DEF NoProc
    <3>3. proc'.wrote \in Nat /\ proc'.pipe \in Nat /\ proc'.read \in Nat /\ proc'.wrote = proc'.read + proc'.pipe
        BY <3>2
    <3> QED
        BY <3>1, <3>2, <3>3 DEF ProcInv, ProcShape
  <2>4. CASE /\ call' = [call EXCEPT !.pc = "receipt", !.st = "io", !.acted = TRUE]
             /\ proc' = [NoProc EXCEPT !.st = "reaped"]
    <3>1. call'.pc = "receipt" /\ call'.st = "io"
        BY <2>4 DEF CallInv, CallShape
    <3>2. /\ DOMAIN proc' = {"st", "kids", "wrote", "pipe", "code", "read", "seen", "late"}
          /\ proc'.st = "reaped" /\ ~proc'.kids /\ proc'.wrote = 0 /\ proc'.pipe = 0 /\ proc'.read = 0
          /\ ~proc'.seen
        BY <2>4 DEF NoProc
    <3>3. proc'.wrote \in Nat /\ proc'.pipe \in Nat /\ proc'.read \in Nat /\ proc'.wrote = proc'.read + proc'.pipe
        BY <3>2
    <3> QED
        BY <3>1, <3>2, <3>3 DEF ProcInv, ProcShape
  <2> QED
      BY <1>6, <2>2, <2>3, <2>4 DEF Spawn, SpawnFails
<1>7. CASE ChildWrites \/ ChildForks \/ (\E code \in {0, 1} : ChildExits(code)) \/ TimeUp
  <2>1. call.pc \in {"wait", "read"} /\ UNCHANGED call
      BY <1>7 DEF ChildWrites, ChildForks, ChildExits, TimeUp, ProcInv
  <2>2. /\ DOMAIN proc' = DOMAIN proc /\ proc'.read = proc.read /\ proc'.seen = proc.seen
        /\ proc'.st \in {"run", "exited"}
        /\ proc.st = "exited" => proc'.st = "exited"
        /\ \/ proc'.wrote = proc.wrote /\ proc'.pipe = proc.pipe
           \/ proc'.wrote = proc.wrote + 1 /\ proc'.pipe = proc.pipe + 1
      BY <1>7 DEF ChildWrites, ChildForks, ChildExits, TimeUp, ProcInv, ProcShape
  <2> QED
      BY <2>1, <2>2 DEF ProcInv, ProcShape
<1>8. ASSUME NEW st, st # "ok", Fail(st), DOMAIN proc' = DOMAIN proc, proc'.st = "reaped", ~proc'.kids,
             proc'.wrote \in Nat, proc'.read \in Nat, proc'.pipe \in Nat
      PROVE  ProcInv'
  <2>1. call'.pc = "receipt" /\ call'.st = st
      BY <1>8 DEF Fail, CallInv, CallShape
  <2> QED
      BY <1>8, <2>1 DEF ProcInv, ProcShape
<1>9. CASE RunWait
  <2>1. CASE proc' = KillGroup /\ \E st \in {"cancelled", "timeout"} : Fail(st)
    <3>1. /\ DOMAIN proc' = DOMAIN proc /\ proc'.st = "reaped" /\ ~proc'.kids /\ proc'.seen = proc.seen
          /\ proc'.wrote = proc.wrote /\ proc'.read = proc.read /\ proc'.pipe = proc.pipe
        BY <2>1 DEF KillGroup, ProcInv, ProcShape
    <3> QED
        BY <1>8, <2>1, <3>1 DEF ProcInv, ProcShape
  <2>2. CASE proc' = [proc EXCEPT !.seen = proc.st = "exited"] /\ call' = [call EXCEPT !.pc = "read"] /\ call.pc = "wait"
    <3>1. /\ DOMAIN proc' = DOMAIN proc /\ proc'.st = proc.st /\ proc'.kids = proc.kids
          /\ (proc'.seen => proc.st = "exited")
          /\ proc'.wrote = proc.wrote /\ proc'.read = proc.read /\ proc'.pipe = proc.pipe
        BY <2>2 DEF ProcInv, ProcShape
    <3>2. call'.pc = "read"
        BY <2>2 DEF CallInv, CallShape
    <3> QED
        BY <2>2, <3>1, <3>2 DEF ProcInv, ProcShape
  <2> QED
      BY <1>9, <2>1, <2>2 DEF RunWait
<1>11. CASE EstopWriteFile \/ (\E cmd \in {"trip", "reset"} : EstopCommand(cmd)) \/ BootCreate \/ BootLoad
            \/ Swap \/ UNCHANGED toolVars
    BY <1>1, <1>11 DEF EstopWriteFile, EstopCommand, BootCreate, BootLoad, Swap, toolVars
<1>12. CASE (\E c \in Configs : BootCheck(c)) \/ Crash \/ RecordReceipt
    BY <1>2, <1>12 DEF BootCheck, Crash, RecordReceipt
<1>10. CASE RunRead
  <2>0. PICK count \in Nat : count = IF proc.seen THEN proc.pipe ELSE IF proc.pipe > 0 THEN 1 ELSE 0
      BY DEF ProcInv, ProcShape
  <2> DEFINE a == AppendOut(count)
  <2>1. a.read \in Nat /\ (a.fits => a.read = proc.read + count)
    <3>1. proc.read \in Nat
        BY DEF ProcInv, ProcShape
    <3>2. a.fits => count <= MaxOut - proc.read
        BY DEF AppendOut
    <3>3. a.read = IF count > MaxOut - proc.read THEN MaxOut ELSE proc.read + count
        BY DEF AppendOut
    <3> HIDE DEF a
    <3> QED
        BY <1>0, <3>1, <3>2, <3>3
  <2>2. /\ call.pc = "read"
        /\ IF proc.seen
           THEN /\ proc' = [KillGroup EXCEPT !.read = a.read, !.pipe = 0]
                /\ IF ~a.fits THEN Fail("io")
                   ELSE IF proc.code # 0 THEN Fail("io")
                   ELSE call' = [call EXCEPT !.pc = "receipt"]
           ELSE IF ~a.fits
           THEN Fail("io") /\ proc' = [KillGroup EXCEPT !.read = a.read]
           ELSE /\ proc' = [proc EXCEPT !.read = a.read, !.pipe = IF @ > 0 THEN @ - 1 ELSE 0]
                /\ call' = [call EXCEPT !.pc = "wait"]
      BY <1>10, <2>0 DEF RunRead
  <2> HIDE DEF a
  <2>3. CASE proc.seen /\ Fail("io")
    <3>1. /\ DOMAIN proc' = DOMAIN proc /\ proc'.st = "reaped" /\ ~proc'.kids /\ proc'.seen = proc.seen
          /\ proc'.wrote = proc.wrote /\ proc'.read = a.read /\ proc'.pipe = 0
        BY <2>2, <2>3 DEF KillGroup, ProcInv, ProcShape
    <3>2. proc'.pipe \in Nat /\ proc'.read \in Nat /\ proc'.wrote \in Nat
        BY <2>1, <3>1 DEF ProcInv, ProcShape
    <3> QED
        BY <1>8, <2>3, <3>1, <3>2
  <2>4. CASE proc.seen /\ a.fits /\ call' = [call EXCEPT !.pc = "receipt"]
    <3>1. /\ DOMAIN proc' = DOMAIN proc /\ proc'.st = "reaped" /\ ~proc'.kids /\ proc'.seen = proc.seen
          /\ proc'.wrote = proc.wrote /\ proc'.read = a.read /\ proc'.pipe = 0
        BY <2>2, <2>4 DEF KillGroup, ProcInv, ProcShape
    <3>2. call'.pc = "receipt" /\ proc.wrote = a.read
        BY <2>0, <2>1, <2>2, <2>4 DEF CallInv, CallShape, ProcInv
    <3>3. proc'.pipe \in Nat /\ proc'.read \in Nat /\ proc'.wrote \in Nat
          /\ proc'.read = proc'.wrote
        BY <2>1, <3>1, <3>2 DEF ProcInv, ProcShape
    <3> QED
        BY <3>1, <3>2, <3>3 DEF ProcInv, ProcShape
  <2>5. CASE ~proc.seen /\ ~a.fits
    <3>1. /\ DOMAIN proc' = DOMAIN proc /\ proc'.st = "reaped" /\ ~proc'.kids /\ proc'.seen = proc.seen
          /\ proc'.wrote = proc.wrote /\ proc'.read = a.read /\ proc'.pipe = proc.pipe /\ Fail("io")
        BY <2>2, <2>5 DEF KillGroup, ProcInv, ProcShape
    <3> QED
        BY <1>8, <2>1, <3>1 DEF ProcInv, ProcShape
  <2>6. CASE ~proc.seen /\ a.fits
    <3>1. /\ DOMAIN proc' = DOMAIN proc /\ proc'.st = proc.st /\ proc'.kids = proc.kids /\ proc'.seen = proc.seen
          /\ proc'.wrote = proc.wrote /\ proc'.read = a.read
          /\ proc'.pipe = (IF proc.pipe > 0 THEN proc.pipe - 1 ELSE 0) /\ call' = [call EXCEPT !.pc = "wait"]
        BY <2>2, <2>6 DEF ProcInv, ProcShape
    <3>2. call'.pc = "wait"
        BY <3>1 DEF CallInv, CallShape
    <3>3. proc.wrote = proc.read + proc.pipe /\ proc.pipe \in Nat /\ proc.read \in Nat
        BY <2>2 DEF ProcInv, ProcShape
    <3>4. proc'.wrote = proc'.read + proc'.pipe /\ proc'.pipe \in Nat
        BY <2>0, <2>1, <2>6, <3>1, <3>3
    <3> QED
        BY <2>1, <3>1, <3>2, <3>4 DEF ProcInv, ProcShape
  <2> QED
      BY <2>1, <2>2, <2>3, <2>4, <2>5, <2>6
<1> QED
    BY <1>3, <1>4, <1>5, <1>6, <1>7, <1>9, <1>10, <1>11, <1>12 DEF ToolNext

(* The process runner leaves no child and no member of its group behind    *)
(* and a run that succeeds returns everything the child wrote, whatever    *)
(* the child does and however its exit interleaves with the loop           *)
(* (sc_process_runner_run).                                                *)
THEOREM ProcessSettledHolds == ToolSpec => []ProcessSettled
<1>1. ToolInit => CallInv /\ ProcInv
  <2>1. ASSUME ToolInit PROVE ProcInv
    <3>1. call.pc = "idle" /\ proc = NoProc
        BY <2>1 DEF ToolInit, NoCall
    <3>2. /\ DOMAIN NoProc = {"st", "kids", "wrote", "pipe", "code", "read", "seen", "late"}
          /\ NoProc.st = "none" /\ ~NoProc.kids /\ NoProc.wrote = 0 /\ NoProc.pipe = 0 /\ NoProc.read = 0
        BY DEF NoProc
    <3> QED
        BY <3>1, <3>2 DEF ProcInv, ProcShape
  <2> QED
      BY <2>1, CallInit
<1>2. CallInv /\ ProcInv /\ [ToolNext]_toolVars => CallInv' /\ ProcInv'
    BY CallStep, ProcStep
<1>3. ProcInv => ProcessSettled
    BY DEF ProcInv, ProcessSettled
<1> QED
    BY <1>1, <1>2, <1>3, PTL DEF ToolSpec

-----------------------------------------------------------------------------
(* A daemon that read an active stop refuses every request.                *)
LEMMA StopDenies ==
    ASSUME NEW policy, NEW world, NEW request, NEW estop, estop
    PROVE  ValidateRequest(policy, estop, world, request).st # "ok"
<1> DEFINE answers == RequestChecks(policy, estop, world, request)
           bad == {i \in DOMAIN answers : answers[i] # "ok"}
<1>1. DOMAIN answers = 1..9 /\ answers[1] = EstopCheck(estop)
    BY DEF RequestChecks
<1>2. ValidateRequest(policy, estop, world, request).st
        = IF bad = {} THEN "ok" ELSE answers[CHOOSE i \in bad : \A j \in bad : i <= j]
    BY DEF ValidateRequest, FirstRefusal
<1>3. EstopCheck(estop) = "denied"
    BY DEF EstopCheck
<1> HIDE DEF answers
<1>4. 1 \in bad /\ \A j \in bad : 1 <= j
  <2>1. bad \subseteq 1..9 /\ 1 \in 1..9
      BY <1>1
  <2>2. 1 \in bad
      BY <1>1, <1>3, <2>1, Zenon
  <2> QED
      BY <2>1, <2>2
<1>5. (CHOOSE i \in bad : \A j \in bad : i <= j) \in bad
    BY <1>4
<1> QED
    BY <1>2, <1>4, <1>5

(* Under the stop a call goes straight to its receipt, and a booting       *)
(* daemon has done nothing yet.                                            *)
StopInv ==
    /\ daemon.phase \in {"create", "load"} => effects = {}
    /\ daemon.phase = "up" /\ daemon.estop =>
         effects = {} /\ ~call.acted /\ call.pc \in {"idle", "receipt"}

LEMMA StopStep ==
    ASSUME CallInv, StopInv, [ToolNext]_toolVars
    PROVE  StopInv'
<1>1. CASE Elsewhere \/ UNCHANGED toolVars
    BY <1>1, ElsewhereKeeps DEF toolVars, StopInv
<1>2. ASSUME NEW c \in Configs, BootCheck(c) PROVE StopInv'
  <2>1. effects' = {} /\ daemon'.phase \in {"create", "load"}
      BY <1>2 DEF BootCheck, CallInv, DaemonShape
  <2> QED
      BY <2>1 DEF StopInv
<1>3. CASE BootCreate
  <2>1. daemon'.phase = "load" /\ UNCHANGED effects /\ daemon.phase = "create"
      BY <1>3 DEF BootCreate, CallInv, DaemonShape
  <2> QED
      BY <2>1 DEF StopInv
<1>4. CASE BootLoad
  <2>1. daemon'.phase = "up" /\ UNCHANGED <<call, effects>> /\ daemon.phase = "load"
      BY <1>4 DEF BootLoad, CallInv, DaemonShape
  <2> QED
      BY <2>1 DEF StopInv, CallInv
<1>5. CASE Crash
    BY <1>5 DEF Crash, StopInv, CallInv, DaemonShape
<1>6. ASSUME NEW args \in Calls, Invoke(args) PROVE StopInv'
  <2>1. PICK st : /\ call' = [NoCall EXCEPT !.id = call.id + 1, !.args = args, !.st = st, !.before = tree.file,
                                         !.pc = IF st # "ok" THEN "receipt"
                                                ELSE IF args.tool = "shell" THEN "spawn" ELSE "resolve"]
                  /\ SecurityCheck(args) # "ok" => st = SecurityCheck(args)
      BY <1>6 DEF Invoke
  <2>2. ~call'.acted /\ (st # "ok" => call'.pc = "receipt") /\ UNCHANGED <<daemon, effects>> /\ daemon.phase = "up"
      BY <1>6, <2>1 DEF Invoke, NoCall
  <2>3. CASE daemon.estop
    <3>1. SecurityCheck(args) # "ok"
        BY <2>3, StopDenies DEF SecurityCheck
    <3> QED
        BY <2>1, <2>2, <3>1 DEF StopInv
  <2>4. CASE ~daemon.estop
      BY <2>2, <2>4 DEF StopInv
  <2> QED
      BY <2>3, <2>4
<1>7. CASE UNCHANGED <<daemon, effects>> /\ call.pc \notin {"idle", "receipt"}
    BY <1>7 DEF StopInv, CallInv
<1>8. CASE \/ ResolveParent \/ WalkSegment \/ ReadLeaf \/ ResolveList \/ ListDirectory \/ OpenTemp \/ WriteTemp
           \/ PublishTemp \/ OpenAppend \/ AppendBytes \/ BadMode
           \/ Spawn \/ Cancel \/ RunWait \/ RunRead
    BY <1>7, <1>8 DEF ResolveParent, WalkSegment, ReadLeaf, ResolveList, ListDirectory, OpenTemp, WriteTemp,
                      PublishTemp, OpenAppend, AppendBytes, BadMode, AtLeaf, Spawn, Cancel, RunWait, RunRead
<1>9. CASE RecordReceipt
  <2>1. UNCHANGED daemon /\ (~call.acted => effects' = effects)
        /\ call' = [NoCall EXCEPT !.id = call.id] /\ daemon.phase = "up"
      BY <1>9 DEF RecordReceipt, CallInv
  <2>2. call'.pc = "idle" /\ ~call'.acted
      BY <2>1 DEF NoCall
  <2> QED
      BY <2>1, <2>2 DEF StopInv
<1> QED
    BY <1>1, <1>2, <1>3, <1>4, <1>5, <1>6, <1>8, <1>9 DEF ToolNext, Elsewhere

(* A daemon that read an active emergency stop at its boot performs no     *)
(* effect with a tool in all of that life, whatever its policy, the calls  *)
(* and the operator's later commands are (sc_estop_check, the first check  *)
(* of sc_security_validate_request).                                       *)
THEOREM NoEffectUnderStopHolds == ToolSpec => []NoEffectUnderStop
<1>1. ToolInit => CallInv /\ StopInv
    BY CallInit DEF ToolInit, StopInv
<1>2. CallInv /\ StopInv /\ [ToolNext]_toolVars => CallInv' /\ StopInv'
    BY CallStep, StopStep
<1>3. StopInv => NoEffectUnderStop
    BY DEF StopInv, NoEffectUnderStop
<1> QED
    BY <1>1, <1>2, <1>3, PTL DEF ToolSpec

-----------------------------------------------------------------------------
(* A write on its way: until it is published no file has changed, and what *)
(* is published is all of the new bytes.                                   *)
TreeShape ==
    /\ DOMAIN tree = {"dLink", "fLink", "file", "tmp"}
    /\ DOMAIN tree.file = Dirs /\ DOMAIN tree.tmp = Dirs

Writing == call.pc # "idle" /\ call.args.tool = "file_write" /\ call.args.mode # "append"

WriteInv ==
    /\ TreeShape
    /\ call.pc \in {"write", "publish"} => call.dir \in Dirs
    /\ call.pc = "publish" => tree.tmp[call.dir] = "new"
    /\ Writing /\ (call.pc # "receipt" \/ call.st # "ok") => tree.file = call.before
    /\ Writing /\ call.pc = "receipt" => \A d \in Dirs : tree.file[d] \in {call.before[d], "new"}

(* A step that leaves the files alone and goes on with the same call.      *)
LEMMA WriteGoesOn ==
    ASSUME WriteInv, CallInv, tree'.file = tree.file, tree'.tmp = tree.tmp, DOMAIN tree' = DOMAIN tree,
           call.pc \notin {"idle", "receipt"},
           call'.args = call.args, call'.before = call.before,
           \/ call'.pc \notin {"write", "publish", "idle"}
           \/ call'.pc = call.pc /\ call'.dir = call.dir
    PROVE  WriteInv'
<1>1. Writing' => Writing
    BY DEF Writing
<1>2. Writing => tree.file = call.before
    BY DEF WriteInv, Writing
<1> QED
    BY <1>1, <1>2 DEF WriteInv, TreeShape

LEMMA WriteStep ==
    ASSUME CallInv, WriteInv, [ToolNext]_toolVars
    PROVE  WriteInv'
<1> USE DEF FilePcs, ShellPcs
<1>1. CASE UNCHANGED <<tree, call>>
    BY <1>1 DEF WriteInv, TreeShape, Writing
<1>2. CASE \/ EstopWriteFile \/ (\E cmd \in {"trip", "reset"} : EstopCommand(cmd)) \/ BootCreate \/ BootLoad
           \/ ChildWrites \/ ChildForks \/ (\E code \in {0, 1} : ChildExits(code)) \/ TimeUp \/ UNCHANGED toolVars
    BY <1>1, <1>2 DEF EstopWriteFile, EstopCommand, BootCreate, BootLoad, ChildWrites, ChildForks, ChildExits, TimeUp, toolVars
<1>3. CASE (\E c \in Configs : BootCheck(c)) \/ Crash \/ RecordReceipt
  <2>0. UNCHANGED tree => TreeShape'
      BY DEF WriteInv, TreeShape
  <2>1. call' = [NoCall EXCEPT !.id = call.id] /\ TreeShape'
      BY <1>3, <2>0 DEF BootCheck, Crash, RecordReceipt, WriteInv, TreeShape
  <2>2. call'.pc = "idle"
      BY <2>1 DEF NoCall
  <2> QED
      BY <2>1, <2>2 DEF WriteInv, TreeShape, Writing
<1>4. ASSUME NEW args \in Calls, Invoke(args) PROVE WriteInv'
  <2>1. call'.before = tree.file /\ call'.pc \in {"receipt", "spawn", "resolve"} /\ UNCHANGED tree
      BY <1>4 DEF Invoke, NoCall
  <2> QED
      BY <2>1 DEF WriteInv, TreeShape, Writing
<1>5. ASSUME UNCHANGED tree, call.pc \notin {"idle", "receipt"}, NEW st, Fail(st) PROVE WriteInv'
    BY <1>5, WriteGoesOn DEF Fail, CallInv, CallShape
<1>6. CASE ResolveParent \/ WalkSegment \/ ReadLeaf \/ ResolveList \/ ListDirectory \/ BadMode
  <2>1. call.pc \in {"resolve", "walk", "list"} /\ UNCHANGED tree
      BY <1>6 DEF ResolveParent, WalkSegment, ReadLeaf, ResolveList, ListDirectory, BadMode, AtLeaf
  <2>2. call'.args = call.args /\ call'.before = call.before /\ call'.pc \in {"walk", "list", "receipt"}
      BY <1>6 DEF ResolveParent, WalkSegment, ReadLeaf, ResolveList, ListDirectory, BadMode, AtLeaf, Fail,
                  CallInv, CallShape
  <2> QED
      BY <2>1, <2>2, WriteGoesOn
<1>7. CASE Spawn \/ RunWait \/ RunRead
  <2>1. call.pc \in {"spawn", "wait", "read"} /\ UNCHANGED tree
      BY <1>7 DEF Spawn, RunWait, RunRead
  <2>2. call'.args = call.args /\ call'.before = call.before /\ call'.pc \in {"wait", "read", "receipt"}
      BY <1>7 DEF Spawn, SpawnFails, RunWait, RunRead, Fail, CallInv, CallShape
  <2> QED
      BY <2>1, <2>2, WriteGoesOn
<1>8. CASE Cancel \/ Swap
  <2>1. /\ call.pc \notin {"idle", "receipt"}
        /\ tree'.file = tree.file /\ tree'.tmp = tree.tmp /\ DOMAIN tree' = DOMAIN tree
      BY <1>8 DEF Cancel, Swap, WriteInv, TreeShape
  <2>2. call'.args = call.args /\ call'.before = call.before /\ call'.pc = call.pc /\ call'.dir = call.dir
      BY <1>8 DEF Cancel, Swap, CallInv, CallShape
  <2> QED
      BY <2>1, <2>2, WriteGoesOn
<1>14. ASSUME DropTemp, call.pc \notin {"idle", "receipt"}, NEW st, Fail(st) PROVE WriteInv'
  <2>1. /\ DOMAIN tree' = DOMAIN tree /\ tree'.file = tree.file /\ DOMAIN tree'.tmp = DOMAIN tree.tmp
      BY <1>14 DEF DropTemp, WriteInv, TreeShape
  <2>2. call'.args = call.args /\ call'.before = call.before /\ call'.pc = "receipt"
      BY <1>14 DEF Fail, CallInv, CallShape
  <2>3. Writing' => Writing
      BY <1>14, <2>2 DEF Writing
  <2>4. Writing => tree.file = call.before
      BY <1>14 DEF WriteInv, Writing
  <2> QED
      BY <2>1, <2>2, <2>3, <2>4 DEF WriteInv, TreeShape
<1>9. CASE OpenTemp
  <2>1. CASE DropTemp /\ (Fail("invalid") \/ Fail("io"))
      BY <1>14, <1>9, <2>1 DEF OpenTemp, AtLeaf
  <2>2. CASE call' = [call EXCEPT !.pc = "write"] /\ tree' = [tree EXCEPT !.tmp[call.dir] = "part"]
    <3>1. /\ DOMAIN tree' = DOMAIN tree /\ tree'.file = tree.file /\ DOMAIN tree'.tmp = DOMAIN tree.tmp
          /\ call.dir \in Dirs /\ call.pc = "walk"
        BY <1>9, <2>2 DEF OpenTemp, AtLeaf, WriteInv, TreeShape
    <3>2. call'.pc = "write" /\ call'.dir = call.dir /\ call'.args = call.args /\ call'.before = call.before
        BY <2>2 DEF CallInv, CallShape
    <3> QED
        BY <3>1, <3>2 DEF WriteInv, TreeShape, Writing
  <2> QED
      BY <1>9, <2>1, <2>2 DEF OpenTemp
<1>10. CASE WriteTemp
  <2>1. /\ DOMAIN tree' = DOMAIN tree /\ tree'.file = tree.file /\ DOMAIN tree'.tmp = DOMAIN tree.tmp
        /\ call.dir \in Dirs /\ call.pc = "write"
        /\ \/ call' = [call EXCEPT !.pc = "publish"] /\ tree'.tmp[call.dir] = "new"
           \/ Fail("io")
      BY <1>10 DEF WriteTemp, DropTemp, WriteInv, TreeShape
  <2>2. /\ call'.dir = call.dir /\ call'.args = call.args /\ call'.before = call.before
        /\ \/ call'.pc = "publish" /\ tree'.tmp[call.dir] = "new"
           \/ call'.pc = "receipt"
      BY <2>1 DEF Fail, CallInv, CallShape
  <2>3. Writing' => Writing
      BY <2>1, <2>2 DEF Writing
  <2>4. Writing => tree.file = call.before
      BY <2>1 DEF WriteInv
  <2> QED
      BY <2>1, <2>2, <2>3, <2>4 DEF WriteInv, TreeShape
<1>11. CASE PublishTemp
  <2>1. call.pc = "publish" /\ call.dir \in Dirs /\ tree.tmp[call.dir] = "new" /\ call.st = "ok"
      BY <1>11 DEF PublishTemp, WriteInv, CallInv
  <2>2. CASE DropTemp /\ (Fail("invalid") \/ Fail("io"))
      BY <1>14, <2>1, <2>2
  <2>3. CASE /\ call' = [call EXCEPT !.pc = "receipt", !.acted = TRUE]
             /\ tree' = [tree EXCEPT !.file[call.dir] = tree.tmp[call.dir], !.tmp[call.dir] = "none",
                                     !.fLink = @ /\ call.dir # "ws"]
    <3>1. /\ DOMAIN tree' = DOMAIN tree /\ DOMAIN tree'.file = DOMAIN tree.file /\ DOMAIN tree'.tmp = DOMAIN tree.tmp
          /\ \A d \in Dirs : tree'.file[d] = IF d = call.dir THEN "new" ELSE tree.file[d]
        BY <2>1, <2>3 DEF WriteInv, TreeShape
    <3>2. /\ call'.dir = call.dir /\ call'.args = call.args /\ call'.before = call.before /\ call'.pc = "receipt"
          /\ call'.st = "ok"
        BY <2>1, <2>3 DEF CallInv, CallShape
    <3>3. Writing' => tree.file = call.before
        BY <2>1, <3>2 DEF WriteInv, Writing
    <3> QED
        BY <3>1, <3>2, <3>3 DEF WriteInv, TreeShape
  <2> QED
      BY <1>11, <2>2, <2>3 DEF PublishTemp
<1>12. CASE OpenAppend
  <2>1. CASE UNCHANGED tree /\ Fail("denied")
      BY <1>5, <1>12, <2>1 DEF OpenAppend, AtLeaf
  <2>2. CASE /\ call' = [call EXCEPT !.pc = "append"]
             /\ tree' = [tree EXCEPT !.file[call.dir] = IF @ = "none" THEN "part" ELSE @]
    <3>1. /\ DOMAIN tree' = DOMAIN tree /\ tree'.tmp = tree.tmp /\ DOMAIN tree'.file = DOMAIN tree.file
          /\ call.args.mode = "append"
        BY <1>12, <2>2 DEF OpenAppend, AtLeaf, WriteInv, TreeShape
    <3>2. call'.pc = "append" /\ call'.args = call.args
        BY <2>2 DEF CallInv, CallShape
    <3> QED
        BY <3>1, <3>2 DEF WriteInv, TreeShape, Writing
  <2> QED
      BY <1>12, <2>1, <2>2 DEF OpenAppend
<1>13. CASE AppendBytes
  <2>1. /\ DOMAIN tree' = DOMAIN tree /\ tree'.tmp = tree.tmp /\ DOMAIN tree'.file = DOMAIN tree.file
        /\ call.args.mode = "append"
      BY <1>13 DEF AppendBytes, WriteInv, TreeShape, CallInv
  <2>2. call'.pc = "receipt" /\ call'.args = call.args
      BY <1>13 DEF AppendBytes, CallInv, CallShape
  <2> QED
      BY <2>1, <2>2 DEF WriteInv, TreeShape, Writing
<1> QED
    BY <1>2, <1>3, <1>4, <1>6, <1>7, <1>8, <1>9, <1>10, <1>11, <1>12, <1>13 DEF ToolNext

(* At every step of an overwrite or a create, so also where the daemon is  *)
(* killed, each file holds what it held before or all of the new bytes,    *)
(* and a write reported as failed changed none (invoke_file_write).        *)
THEOREM WriteIsAllOrNothingHolds == ToolSpec => []WriteIsAllOrNothing
<1>1. ToolInit => CallInv /\ WriteInv
  <2>1. ASSUME ToolInit PROVE WriteInv
    <3>1. call.pc = "idle"
        BY <2>1 DEF ToolInit, NoCall
    <3>2. TreeShape
        BY <2>1 DEF ToolInit, TreeShape, Dirs
    <3> QED
        BY <3>1, <3>2 DEF WriteInv, Writing
  <2> QED
      BY <2>1, CallInit
<1>2. CallInv /\ WriteInv /\ [ToolNext]_toolVars => CallInv' /\ WriteInv'
    BY CallStep, WriteStep
<1>3. WriteInv => WriteIsAllOrNothing
    BY DEF WriteInv, Writing, WriteIsAllOrNothing
<1> QED
    BY <1>1, <1>2, <1>3, PTL DEF ToolSpec

-----------------------------------------------------------------------------
(* The workspace of the tree is /w: a configuration names it or none.      *)
WorkspaceIsW ==
    \A config \in Configs : Given(config, "runtime.workspace_path", NoArg) \in {FromRoot(<<"w">>), NoArg}

(* From the resolution of its name on, a file tool bound to the workspace  *)
(* holds a directory of it.                                                *)
InsideInv ==
    /\ daemon.policy.root \in {FromRoot(<<"w">>), NoArg}
    /\ /\ daemon.policy.workspaceOnly
       /\ \/ call.pc \in {"walk", "write", "publish", "append"}
          \/ call.pc = "receipt" /\ call.acted /\ call.args.tool \in {"file_read", "file_write"}
       => call.dir \in {"ws", "sub"}

(* The real path of the workspace, and that there is none without it.      *)
LEMMA WorkspaceReal ==
    /\ RealPath(World, <<"w">>) = <<"w">>
    /\ RealPath(World, NoPath) = NoPath
<1>1. /\ <<"w">> # <<"w", "d">> /\ <<"w">> # <<"w", "d", "f">> /\ <<"w">> # <<"w", "f">> /\ <<"w">> # <<"o", "f">>
    OBVIOUS
<1>2. /\ <<"fail">> \notin {<<>>, <<"w">>, <<"o">>, <<"h">>, <<"w", "d">>, <<"w", "d", "f">>,
                            <<"w", "f">>, <<"o", "f">>}
    OBVIOUS
<1>3. DOMAIN World.real = {<<>>, <<"w">>, <<"o">>, <<"h">>, <<"w", "d">>, <<"w", "d", "f">>,
                           <<"w", "f">>, <<"o", "f">>}
    BY DEF World
<1>4. World.real[<<"w">>] = <<"w">>
    BY <1>1 DEF World
<1> QED
    BY <1>2, <1>3, <1>4 DEF RealPath, NoPath

LEMMA WorkspaceDir == DirOf(<<"w">>) = "ws"
<1>1. /\ CanonicalOf["ws"] = <<"w">> /\ CanonicalOf["sub"] # <<"w">> /\ CanonicalOf["out"] # <<"w">>
    BY DEF CanonicalOf
<1>2. \A dir \in Dirs : CanonicalOf[dir] = <<"w">> <=> dir = "ws"
    BY <1>1 DEF Dirs
<1>3. "ws" \in Dirs
    BY DEF Dirs
<1> QED
    BY <1>2, <1>3 DEF DirOf

(* A plan under the workspace starts in it.                                *)
LEMMA PlanStartsInside ==
    ASSUME NEW path, daemon.policy.workspaceOnly, daemon.policy.root \in {FromRoot(<<"w">>), NoArg},
           OpenParentPlan(path).st = "ok"
    PROVE  WorkspaceRoot # <<>> /\ DirOf(WorkspaceRoot) = "ws"
<1>1. CASE daemon.policy.root = FromRoot(<<"w">>)
  <2>1. WorkspaceRoot = <<"w">>
      BY <1>1, WorkspaceReal DEF WorkspaceRoot, CanonicalizeExisting, FromRoot
  <2> QED
      BY <2>1, WorkspaceDir
<1>2. CASE daemon.policy.root = NoArg
  <2>1. CanonicalizeExisting(World, daemon.policy.root) = NoPath
      BY <1>2, WorkspaceReal DEF CanonicalizeExisting, FromRoot, NoArg
  <2>2. WorkspaceResolve(daemon.policy, World, path, FALSE).st = "io"
      BY <2>1 DEF WorkspaceResolve
  <2>3. ValidatePath(daemon.policy, World, path, FALSE) # "ok"
      BY <2>2 DEF ValidatePath
  <2> QED
      BY <2>3 DEF OpenParentPlan
<1> QED
    BY <1>1, <1>2

(* The workspace of a policy is the one its configuration names.           *)
LEMMA PolicyRoot ==
    ASSUME NEW config, NEW policy \in PolicyFromConfig(config)
    PROVE  policy.root = Given(config, "runtime.workspace_path", NoArg)
<1>1. PICK defaults : defaults = PolicyInitDefaults
    OBVIOUS
<1>2. "root" \in DOMAIN defaults /\ defaults.root = NoArg
    BY <1>1 DEF PolicyInitDefaults, NoArg, NoPath
<1>3. policy.root = Given(config, "runtime.workspace_path", defaults.root)
    BY <1>1, <1>2 DEF PolicyFromConfig
<1> QED
    BY <1>2, <1>3

LEMMA InsideStep ==
    ASSUME WorkspaceIsW, CallInv, InsideInv, [ToolNext]_toolVars
    PROVE  InsideInv'
<1> USE DEF FilePcs, ShellPcs
<1>1. CASE UNCHANGED call /\ daemon'.policy = daemon.policy
    BY <1>1 DEF InsideInv
<1>2. CASE \/ Elsewhere \/ BootCreate \/ BootLoad \/ UNCHANGED toolVars
    BY <1>1, <1>2, ElsewhereKeeps DEF BootCreate, BootLoad, toolVars, CallInv, DaemonShape
<1>3. ASSUME NEW c \in Configs, BootCheck(c) PROVE InsideInv'
  <2>1. PICK policy \in PolicyFromConfig(c) : daemon'.policy = policy
      BY <1>3 DEF BootCheck, CallInv, DaemonShape
  <2>2. policy.root = Given(c, "runtime.workspace_path", NoArg)
      BY <2>1, PolicyRoot
  <2>3. call'.pc = "idle"
      BY <1>3 DEF BootCheck, NoCall
  <2> QED
      BY <2>1, <2>2, <2>3 DEF InsideInv, WorkspaceIsW
<1>4. CASE Crash \/ RecordReceipt
  <2>1. call' = [NoCall EXCEPT !.id = call.id] /\ daemon'.policy = daemon.policy
      BY <1>4 DEF Crash, RecordReceipt, CallInv, DaemonShape
  <2>2. call'.pc = "idle"
      BY <2>1 DEF NoCall
  <2> QED
      BY <2>1, <2>2 DEF InsideInv
<1>5. ASSUME NEW args \in Calls, Invoke(args) PROVE InsideInv'
  <2>1. ~call'.acted /\ call'.pc \in {"receipt", "spawn", "resolve"} /\ UNCHANGED daemon
      BY <1>5 DEF Invoke, NoCall
  <2> QED
      BY <2>1 DEF InsideInv
<1>6. ASSUME UNCHANGED daemon, call.pc \in FilePcs, NEW st, Fail(st) PROVE InsideInv'
  <2>1. call'.acted = call.acted /\ call'.pc = "receipt" /\ ~call.acted
      BY <1>6 DEF Fail, CallInv, CallShape
  <2> QED
      BY <1>6, <2>1 DEF InsideInv
<1>7. CASE ResolveParent
  <2>1. PICK plan : plan = OpenParentPlan(call.args.path)
      OBVIOUS
  <2>2. CASE plan.st # "ok"
      BY <1>6, <1>7, <2>1, <2>2 DEF ResolveParent
  <2>3. CASE plan.st = "ok"
    <3>1. call'.dir = IF WorkspaceRoot = <<>> THEN "root" ELSE DirOf(WorkspaceRoot)
        BY <1>7, <2>1, <2>3 DEF ResolveParent, CallInv, CallShape
    <3>2. daemon.policy.workspaceOnly => call'.dir = "ws"
        BY <2>1, <2>3, <3>1, PlanStartsInside DEF InsideInv
    <3>3. UNCHANGED daemon
        BY <1>7 DEF ResolveParent
    <3> QED
        BY <3>2, <3>3 DEF InsideInv
  <2> QED
      BY <2>2, <2>3
<1>8. CASE WalkSegment
  <2>1. PICK next : next = OpenDirAt(call.dir, Head(call.segs))
      OBVIOUS
  <2>2. CASE next \in Status
      BY <1>6, <1>8, <2>1, <2>2 DEF WalkSegment
  <2>3. CASE next \notin Status
    <3>1. call'.dir = next /\ UNCHANGED daemon /\ call.pc = "walk"
        BY <1>8, <2>1, <2>3 DEF WalkSegment, CallInv, CallShape
    <3>2. call.dir \in {"ws", "sub"} => next = "sub"
        BY <2>1, <2>3 DEF OpenDirAt, Status
    <3> QED
        BY <3>1, <3>2 DEF InsideInv
  <2> QED
      BY <2>2, <2>3
<1>9. CASE UNCHANGED daemon /\ call.pc \in {"walk", "write", "publish", "append"} /\ call'.dir = call.dir
    BY <1>9 DEF InsideInv
<1>10. CASE ReadLeaf \/ OpenTemp \/ WriteTemp \/ PublishTemp \/ OpenAppend \/ AppendBytes \/ BadMode
  <2>1. UNCHANGED daemon /\ call.pc \in {"walk", "write", "publish", "append"}
      BY <1>10 DEF ReadLeaf, OpenTemp, WriteTemp, PublishTemp, OpenAppend, AppendBytes, BadMode, AtLeaf
  <2>2. call'.dir = call.dir
      BY <1>10 DEF ReadLeaf, OpenTemp, WriteTemp, PublishTemp, OpenAppend, AppendBytes, BadMode, AtLeaf, Fail,
                   CallInv, CallShape
  <2> QED
      BY <1>9, <2>1, <2>2
<1>11. CASE ResolveList \/ ListDirectory
  <2>1. UNCHANGED daemon /\ call.pc \in {"resolve", "list"}
      BY <1>11 DEF ResolveList, ListDirectory
  <2>2. call'.args = call.args /\ call'.pc \in {"receipt", "list"} /\ (call'.acted => call.pc = "list")
      BY <1>11 DEF ResolveList, ListDirectory, Fail, CallInv, CallShape
  <2>3. call.pc = "list" => call.args.tool = "file_list"
      BY DEF CallInv
  <2> QED
      BY <2>1, <2>2, <2>3 DEF InsideInv
<1>12. CASE Spawn \/ RunWait \/ RunRead
  <2>1. UNCHANGED daemon /\ call.args.tool = "shell"
      BY <1>12 DEF Spawn, RunWait, RunRead, CallInv
  <2>2. call'.args = call.args /\ call'.pc \in {"wait", "read", "receipt"}
      BY <1>12 DEF Spawn, SpawnFails, RunWait, RunRead, Fail, CallInv, CallShape
  <2> QED
      BY <2>1, <2>2 DEF InsideInv
<1>13. CASE Cancel
  <2>1. call'.args = call.args /\ call'.pc = call.pc /\ call'.dir = call.dir /\ call'.acted = call.acted
        /\ UNCHANGED daemon
      BY <1>13 DEF Cancel, CallInv, CallShape
  <2> QED
      BY <2>1 DEF InsideInv
<1> QED
    BY <1>2, <1>3, <1>4, <1>5, <1>7, <1>8, <1>10, <1>11, <1>12, <1>13 DEF ToolNext, Elsewhere

(* Whatever is replaced by a link between the check and the open, a file   *)
(* tool bound to the workspace only ever holds a directory of it, and its  *)
(* writes are all or nothing (sc_workspace_open_parent, the file_write     *)
(* tool).  The tree of the model has its workspace at /w, hence the        *)
(* hypothesis on the configurations.                                       *)
THEOREM FilesSoundHolds ==
    ASSUME WorkspaceIsW
    PROVE  ToolSpec => []FilesSound
<1>1. ToolInit => CallInv /\ InsideInv
  <2>1. ASSUME ToolInit PROVE InsideInv
    <3>1. call.pc = "idle" /\ daemon.policy.root = NoArg
        BY <2>1 DEF ToolInit, NoCall, PolicyInitDefaults, NoArg, NoPath
    <3> QED
        BY <3>1 DEF InsideInv
  <2> QED
      BY <2>1, CallInit
<1>2. CallInv /\ InsideInv /\ [ToolNext]_toolVars => CallInv' /\ InsideInv'
    BY CallStep, InsideStep
<1>3. InsideInv => FilesStayInside
    BY DEF InsideInv, FilesStayInside
<1> QED
    BY <1>1, <1>2, <1>3, WriteIsAllOrNothingHolds, PTL DEF ToolSpec, FilesSound

----------------------------------------------------------------------------
(***************************************************************************)
(* The memory.                                                             *)
(***************************************************************************)
EntryParts == {"ns", "session", "category", "key", "content", "meta", "super", "red", "score", "imp", "ts"}

(* An entry with values that can be compared.                              *)
Entry(e) ==
    /\ EntryParts \subseteq DOMAIN e
    /\ e.score \in Int /\ e.imp \in Int /\ e.ts \in Int /\ KeyOrder[e.key] \in Int

(* A finite family of sets has a smallest one.                             *)
LEMMA SmallestSet ==
    ASSUME NEW S, IsFiniteSet(S), NEW B, B \subseteq SUBSET S, B # {}
    PROVE  \E U \in B : \A V \in B : V \subseteq U => V = U
<1>1. IsWellFoundedOn(StrictSubsetOrdering(S), FiniteSubsetsOf(S))
    BY FS_StrictSubsetOrderingWellFounded
<1>2. FiniteSubsetsOf(S) = SUBSET S
    BY FS_FiniteSubsetsOfFinite
<1>3. PICK U \in B : \A V \in B : ~(<<V, U>> \in StrictSubsetOrdering(S))
  <2>1. IsWellFoundedOn(StrictSubsetOrdering(S), SUBSET S)
      BY <1>1, <1>2
  <2> QED
      BY <2>1, WFMin
<1>4. ASSUME NEW V \in B, V \subseteq U PROVE V = U
    BY <1>3, <1>4 DEF StrictSubsetOrdering
<1> QED
    BY <1>4

(* Entries can be compared: sc_memory_entry_compare_desc is total and      *)
(* transitive.                                                             *)
LEMMA Comparable ==
    ASSUME NEW a, NEW b, NEW c, Entry(a), Entry(b), Entry(c)
    PROVE  /\ EntryCompareDesc(a, b) \/ EntryCompareDesc(b, a)
           /\ EntryCompareDesc(a, b) /\ EntryCompareDesc(b, c) => EntryCompareDesc(a, c)
<1>1. PICK a1, a2, a3, a4, b1, b2, b3, b4, c1, c2, c3, c4 \in Int :
        /\ a1 = a.score /\ a2 = a.imp /\ a3 = a.ts /\ a4 = KeyOrder[a.key]
        /\ b1 = b.score /\ b2 = b.imp /\ b3 = b.ts /\ b4 = KeyOrder[b.key]
        /\ c1 = c.score /\ c2 = c.imp /\ c3 = c.ts /\ c4 = KeyOrder[c.key]
    BY DEF Entry
<1> DEFINE before(x1, x2, x3, x4, y1, y2, y3, y4) ==
        IF x1 # y1 THEN x1 > y1 ELSE IF x2 # y2 THEN x2 > y2 ELSE IF x3 # y3 THEN x3 > y3 ELSE x4 <= y4
<1>2. /\ EntryCompareDesc(a, b) = before(a1, a2, a3, a4, b1, b2, b3, b4)
      /\ EntryCompareDesc(b, a) = before(b1, b2, b3, b4, a1, a2, a3, a4)
      /\ EntryCompareDesc(b, c) = before(b1, b2, b3, b4, c1, c2, c3, c4)
      /\ EntryCompareDesc(a, c) = before(a1, a2, a3, a4, c1, c2, c3, c4)
    BY <1>1 DEF EntryCompareDesc, CompareStr
<1>3. /\ before(a1, a2, a3, a4, b1, b2, b3, b4) \/ before(b1, b2, b3, b4, a1, a2, a3, a4)
      /\ before(a1, a2, a3, a4, b1, b2, b3, b4) /\ before(b1, b2, b3, b4, c1, c2, c3, c4)
            => before(a1, a2, a3, a4, c1, c2, c3, c4)
    OBVIOUS
<1> HIDE DEF before
<1> QED
    BY <1>2, <1>3

(* A finite set of entries has one that may stand last.                    *)
LEMMA LastThere ==
    ASSUME NEW S, IsFiniteSet(S), S # {}, \A e \in S : Entry(e)
    PROVE  \E m \in S : \A e \in S : EntryCompareDesc(e, m)
<1> DEFINE HasLast(T) == \E m \in T : \A e \in T : EntryCompareDesc(e, m)
           B == {T \in SUBSET S : T # {} /\ ~HasLast(T)}
<1> SUFFICES ASSUME ~HasLast(S) PROVE FALSE
    OBVIOUS
<1>1. S \in B
    OBVIOUS
<1>2. PICK U \in B : \A V \in B : V \subseteq U => V = U
  <2>1. B \subseteq SUBSET S /\ B # {}
      BY <1>1
  <2> HIDE DEF B
  <2> QED
      BY <2>1, SmallestSet
<1>3. PICK x \in U : TRUE
    OBVIOUS
<1>4. U \subseteq S /\ ~HasLast(U)
    OBVIOUS
<1>5. U \ {x} # {}
  <2>1. SUFFICES ASSUME U = {x} PROVE FALSE
      OBVIOUS
  <2>2. EntryCompareDesc(x, x)
      BY <1>3, <1>4, Comparable
  <2> QED
      BY <1>4, <2>1, <2>2
<1>6. HasLast(U \ {x})
  <2>1. U \ {x} \notin B
      BY <1>2, <1>3
  <2> QED
      BY <1>4, <1>5, <2>1
<1>7. PICK m \in U \ {x} : \A e \in U \ {x} : EntryCompareDesc(e, m)
    BY <1>6
<1>8. Entry(x) /\ Entry(m) /\ \A e \in U : Entry(e)
    BY <1>3, <1>4, <1>7
<1>9. EntryCompareDesc(m, x) \/ EntryCompareDesc(x, m)
    BY <1>8, Comparable
<1>10. CASE EntryCompareDesc(x, m)
  <2>1. \A e \in U : EntryCompareDesc(e, m)
      BY <1>7, <1>10
  <2> QED
      BY <1>4, <1>7, <2>1
<1>11. CASE EntryCompareDesc(m, x)
  <2>1. ASSUME NEW e \in U PROVE EntryCompareDesc(e, x)
    <3>1. CASE e = x
        BY <1>8, <3>1, Comparable
    <3>2. CASE e # x
      <4>1. EntryCompareDesc(e, m)
          BY <1>7, <3>2
      <4> QED
          BY <1>8, <1>11, <4>1, Comparable
    <3> QED
        BY <3>1, <3>2
  <2> QED
      BY <1>3, <1>4, <2>1
<1> QED
    BY <1>9, <1>10, <1>11

InOrder(s) == \A i, j \in DOMAIN s : i < j => EntryCompareDesc(s[i], s[j])

(* And so it can be sorted.                                                *)
LEMMA SortThere ==
    ASSUME NEW S, IsFiniteSet(S), \A e \in S : Entry(e)
    PROVE  \E s \in SetToSeqs(S) : InOrder(s)
<1> DEFINE HasSort(T) == \E s \in SetToSeqs(T) : InOrder(s)
           B == {T \in SUBSET S : ~HasSort(T)}
<1> SUFFICES ASSUME ~HasSort(S) PROVE FALSE
    OBVIOUS
<1>1. S \in B
    OBVIOUS
<1>2. PICK U \in B : \A V \in B : V \subseteq U => V = U
  <2>1. B \subseteq SUBSET S /\ B # {}
      BY <1>1
  <2> HIDE DEF B
  <2> QED
      BY <2>1, SmallestSet
<1>3. U \subseteq S /\ ~HasSort(U)
    OBVIOUS
<1>4. IsFiniteSet(U) /\ Cardinality(U) \in Nat
    BY <1>3, FS_Subset, FS_CardinalityType
<1>5. U # {}
  <2>1. SUFFICES ASSUME U = {} PROVE FALSE
      OBVIOUS
  <2>2. Cardinality(U) = 0
      BY <2>1, FS_EmptySet
  <2>3. 1..0 = {}
      OBVIOUS
  <2>4. PICK f : f = [i \in 1..0 |-> i]
      OBVIOUS
  <2>5. f \in [1..0 -> {}] /\ DOMAIN f = {}
      BY <2>3, <2>4
  <2>6. f \in SetToSeqs(U)
      BY <2>1, <2>2, <2>3, <2>5 DEF SetToSeqs
  <2>7. InOrder(f)
      BY <2>5 DEF InOrder
  <2> QED
      BY <1>3, <2>6, <2>7
<1>6. PICK m \in U : \A e \in U : EntryCompareDesc(e, m)
    BY <1>3, <1>4, <1>5, LastThere
<1>7. PICK n \in Nat : Cardinality(U) = n + 1 /\ Cardinality(U \ {m}) = n
  <2>1. Cardinality(U \ {m}) = Cardinality(U) - 1 /\ IsFiniteSet(U \ {m})
      BY <1>4, <1>6, FS_RemoveElement
  <2>2. Cardinality(U \ {m}) \in Nat
      BY <2>1, FS_CardinalityType
  <2> QED
      BY <1>4, <2>1, <2>2
<1>8. PICK t \in SetToSeqs(U \ {m}) : InOrder(t)
  <2>1. U \ {m} \notin B
      BY <1>2, <1>6
  <2> QED
      BY <1>3, <2>1
<1>9. /\ t \in [1..n -> U \ {m}] /\ DOMAIN t = 1..n
      /\ \A i, j \in 1..n : i # j => t[i] # t[j]
    BY <1>7, <1>8 DEF SetToSeqs
<1>10. PICK s : s = [i \in 1..(n + 1) |-> IF i = n + 1 THEN m ELSE t[i]]
    OBVIOUS
<1>11. /\ DOMAIN s = 1..(n + 1) /\ s[n + 1] = m /\ \A i \in 1..n : s[i] = t[i] /\ s[i] \in U \ {m}
       /\ \A i \in 1..(n + 1) : i # n + 1 => i \in 1..n
       /\ n + 1 \in 1..(n + 1)
    BY <1>9, <1>10
<1>12. s \in [1..(n + 1) -> U]
  <2>1. \A i \in 1..(n + 1) : s[i] \in U
      BY <1>6, <1>11
  <2>2. s = [i \in 1..(n + 1) |-> s[i]]
      BY <1>10
  <2> QED
      BY <2>1, <2>2
<1>13. \A i, j \in 1..(n + 1) : i # j => s[i] # s[j]
    BY <1>9, <1>11
<1>14. s \in SetToSeqs(U)
    BY <1>7, <1>12, <1>13 DEF SetToSeqs
<1>15. InOrder(s)
  <2> SUFFICES ASSUME NEW i \in 1..(n + 1), NEW j \in 1..(n + 1), i < j PROVE EntryCompareDesc(s[i], s[j])
      BY <1>11 DEF InOrder
  <2>1. i # n + 1 /\ i \in 1..n
      OBVIOUS
  <2>2. CASE j = n + 1
      BY <1>6, <1>11, <2>1, <2>2
  <2>3. CASE j # n + 1
    <3>1. j \in 1..n
        BY <2>3
    <3>2. EntryCompareDesc(t[i], t[j])
        BY <1>8, <1>9, <2>1, <3>1 DEF InOrder
    <3> QED
        BY <1>11, <2>1, <3>1, <3>2
  <2> QED
      BY <2>2, <2>3
<1> QED
    BY <1>3, <1>14, <1>15

(* What an order of a set gives: every element once.                       *)
LEMMA SeqsHold ==
    ASSUME NEW S, IsFiniteSet(S), NEW s \in SetToSeqs(S)
    PROVE  /\ Cardinality(S) \in Nat /\ Len(s) = Cardinality(S) /\ DOMAIN s = 1..Len(s)
           /\ s \in Seq(S)
           /\ \A i \in DOMAIN s : s[i] \in S
           /\ \A i, j \in DOMAIN s : i # j => s[i] # s[j]
           /\ \A e \in S : \E i \in DOMAIN s : s[i] = e
<1>2. Cardinality(S) \in Nat
    BY FS_CardinalityType
<1>3. PICK n \in Nat : n = Cardinality(S)
    BY <1>2
<1>4. s \in [1..n -> S] /\ \A i, j \in 1..n : i # j => s[i] # s[j]
    BY <1>3 DEF SetToSeqs
<1>5. s \in Seq(S) /\ Len(s) = n /\ DOMAIN s = 1..n
    BY <1>4
<1>6. IsFiniteSet(1..n) /\ Cardinality(1..n) = n
    BY FS_Interval
<1>7. s \in Injection(1..n, S)
    BY <1>4 DEF Injection, IsInjective
<1>8. s \in Surjection(1..n, S)
    BY <1>3, <1>6, <1>7, FS_Injection
<1>9. \A e \in S : \E i \in 1..n : s[i] = e
    BY <1>8 DEF Surjection
<1> QED
    BY <1>3, <1>4, <1>5, <1>9

(* Sorted and Ranked are such orders.                                      *)
LEMMA SortedHolds ==
    ASSUME NEW S, IsFiniteSet(S), \A e \in S : Entry(e)
    PROVE  Sorted(S) \in SetToSeqs(S) /\ Ranked(S) \in SetToSeqs(S)
<1>1. \E x \in SetToSeqs(S) : InOrder(x)
    BY SortThere
<1>2. Sorted(S) = CHOOSE x \in SetToSeqs(S) : InOrder(x)
    BY DEF Sorted, InOrder
<1>3. Ranked(S) = CHOOSE x \in SetToSeqs(S) : TRUE
    BY DEF Ranked
<1> QED
    BY <1>1, <1>2, <1>3

----------------------------------------------------------------------------
(* A store has one entry for a namespace and key.                          *)
StoreGood(S) ==
    /\ IsFiniteSet(S)
    /\ \A e \in S : Entry(e)
    /\ \A e, f \in S : e.ns = f.ns /\ e.key = f.key => e = f

NotReplaced(e) == e.super = ""
TextOf(e) == EntryJson(e, TRUE)

(* What a file of the store says.                                          *)
Texts(S) == {TextOf(e) : e \in {x \in S : NotReplaced(x)}}

(* A snapshot has one record for a namespace and key.                      *)
SnapGood(p) ==
    /\ Len(p) \in Nat /\ DOMAIN p = 1..Len(p)
    /\ \A i \in DOMAIN p : KeyOrder[p[i].key] \in Int
    /\ \A i, j \in DOMAIN p : p[i].ns = p[j].ns /\ p[i].key = p[j].key => i = j

Blanked(x, ns, key) == x.ns = ns /\ x.key = key => x.content = Redacted /\ x.red # "none"

SameText(e, f) ==
    /\ e.ns = f.ns /\ e.session = f.session /\ e.category = f.category /\ e.key = f.key
    /\ e.super = f.super /\ e.red = f.red /\ e.content = f.content /\ e.meta = f.meta

(* An entry's text says all of it but its score, importance and time       *)
(* (json_entry).                                                           *)
LEMMA TextHas ==
    ASSUME NEW e
    PROVE  /\ SameText(TextOf(e), e)
           /\ \A f : TextOf(e) = TextOf(f) <=> SameText(e, f)
<1>1. ASSUME NEW f
      PROVE  TextOf(f) = [ns |-> f.ns, session |-> f.session, category |-> f.category, key |-> f.key, super |-> f.super,
                          red |-> f.red, content |-> f.content, meta |-> f.meta]
    BY DEF TextOf, EntryJson
<1>2. ASSUME NEW f PROVE SameText(TextOf(f), f)
    BY <1>1 DEF SameText
<1>3. ASSUME NEW f, SameText(e, f) PROVE TextOf(e) = TextOf(f)
    BY <1>1, <1>3 DEF SameText
<1>4. ASSUME NEW f, TextOf(e) = TextOf(f) PROVE SameText(e, f)
    BY <1>2, <1>4 DEF SameText
<1> QED
    BY <1>2, <1>3, <1>4

(* A function takes finitely many values on a finite set.                  *)
LEMMA FiniteImage ==
    ASSUME NEW S, IsFiniteSet(S), NEW f, DOMAIN f = S
    PROVE  IsFiniteSet({f[x] : x \in S})
<1> DEFINE T == {f[x] : x \in S}
           g == [x \in S |-> f[x]]
<1>1. g \in Surjection(S, T)
    BY DEF Surjection
<1> QED
    BY <1>1, FS_Surjection

(* The query behind a snapshot finds every record that was not replaced.   *)
LEMMA SnapshotHolds ==
    ASSUME NEW S, StoreGood(S), NEW p, p = MarkdownSnapshot(S)
    PROVE  /\ SnapGood(p) /\ {p[i] : i \in DOMAIN p} = Texts(S)
           /\ \A i \in DOMAIN p : \E e \in S : p[i] = TextOf(e)
<1>1. PICK z : z = ""
    OBVIOUS
<1>2. PICK q : q = [Query("") EXCEPT !.red = TRUE, !.del = TRUE]
    OBVIOUS
<1>3. q = [[[given |-> FALSE, ns |-> z, session |-> z, category |-> z, text |-> z, limit |-> 0, maxResults |-> 0,
             maxBytes |-> 0, super |-> FALSE, red |-> FALSE, del |-> FALSE] EXCEPT !.given = TRUE, !.ns = z]
             EXCEPT !.red = TRUE, !.del = TRUE]
    BY <1>1, <1>2, Zenon DEF Query, NoQuery
<1>4. /\ q.given = TRUE /\ q.ns = z /\ q.session = z /\ q.category = z /\ q.text = z /\ q.limit = 0 /\ q.maxResults = 0
      /\ q.maxBytes = 0 /\ q.super = FALSE /\ q.red = TRUE /\ q.del = TRUE
    BY <1>3
<1>5. ASSUME NEW e PROVE QueryMatchesEntry(q, e) <=> NotReplaced(e)
    BY <1>1, <1>4, Zenon DEF QueryMatchesEntry, FiltersPass, NotReplaced
<1>6. PICK M : M = {e \in S : QueryMatchesEntry(q, e)}
    OBVIOUS
<1>7. M = {e \in S : NotReplaced(e)}
    BY <1>5, <1>6
<1>8. PICK s : s = Sorted(M)
    OBVIOUS
<1>9. StoreSearch(S, q) = s
    BY <1>4, <1>6, <1>8 DEF StoreSearch, MaxResultsOf
<1>10. p = [i \in DOMAIN s |-> TextOf(s[i])]
  <2>1. MarkdownSnapshot(S) = ExportSnapshot(S, q, TRUE)
      BY <1>2, Zenon DEF MarkdownSnapshot
  <2> QED
      BY <1>9, <2>1 DEF ExportSnapshot, SnapshotOf, TextOf
<1>11. IsFiniteSet(M) /\ \A e \in M : Entry(e)
    BY <1>7, FS_Subset DEF StoreGood
<1>12. /\ Len(s) \in Nat /\ DOMAIN s = 1..Len(s) /\ \A i \in DOMAIN s : s[i] \in M
       /\ \A i, j \in DOMAIN s : i # j => s[i] # s[j]
       /\ \A e \in M : \E i \in DOMAIN s : s[i] = e
  <2>1. s \in SetToSeqs(M)
      BY <1>8, <1>11, SortedHolds
  <2> QED
      BY <1>11, <2>1, SeqsHold
<1>13. DOMAIN p = DOMAIN s /\ \A i \in DOMAIN s : p[i] = TextOf(s[i])
    BY <1>10
<1>14. Len(p) = Len(s)
  <2>1. PICK n \in Nat : n = Len(s)
      BY <1>12
  <2> QED
      BY <1>10, <1>12, <2>1
<1>15. \A i \in DOMAIN p : SameText(p[i], s[i]) /\ s[i] \in S
    BY <1>7, <1>12, <1>13, TextHas
<1>16. \A i \in DOMAIN p : KeyOrder[p[i].key] \in Int
    BY <1>15 DEF SameText, StoreGood, Entry
<1>17. ASSUME NEW i \in DOMAIN p, NEW j \in DOMAIN p, p[i].ns = p[j].ns, p[i].key = p[j].key PROVE i = j
  <2>1. s[i] = s[j]
      BY <1>15, <1>17 DEF SameText, StoreGood
  <2> QED
      BY <1>12, <1>13, <2>1
<1>18. {p[i] : i \in DOMAIN p} = {TextOf(e) : e \in M}
    BY <1>12, <1>13
<1>19. {p[i] : i \in DOMAIN p} = Texts(S)
    BY <1>7, <1>18 DEF Texts
<1>20. SnapGood(p)
    BY <1>12, <1>13, <1>14, <1>16, <1>17 DEF SnapGood
<1> QED
    BY <1>13, <1>15, <1>19, <1>20

----------------------------------------------------------------------------
(* What a write makes of a store.                                          *)
RecordGood(r) == KeyOrder[r.key] \in Int /\ r.score \in Int /\ r.imp \in Int

(* An entry made from a record has the record's text                       *)
(* (copy_entry_from_record).                                               *)
LEMMA CopyHolds ==
    ASSUME NEW r, RecordGood(r), NEW now \in Int, NEW c, c = CopyEntryFromRecord(r, now)
    PROVE  Entry(c) /\ SameText(c, r)
BY DEF CopyEntryFromRecord, RecordGood, Entry, EntryParts, SameText

(* A put keeps one entry for a namespace and key, and brings back no text  *)
(* but its own.                                                            *)
LEMMA PutHolds ==
    ASSUME NEW S, StoreGood(S), NEW r, RecordGood(r), NEW now \in Int, NEW P, P = StorePut(S, r, now)
    PROVE  /\ StoreGood(P)
           /\ \A ns, key : (\A e \in S : Blanked(e, ns, key)) /\ <<ns, key>> # <<r.ns, r.key>>
                             => \A e \in P : Blanked(e, ns, key)
<1>1. PICK c : c = CopyEntryFromRecord(r, now)
    OBVIOUS
<1>2. Entry(c) /\ c.ns = r.ns /\ c.key = r.key
    BY <1>1, CopyHolds DEF SameText
<1>3. PICK K : K = {e \in S : ~NamespaceKeyEqual(e, r.ns, r.key)}
    OBVIOUS
<1>4. P = K \union {c} /\ K \subseteq S
    BY <1>1, <1>3 DEF StorePut
<1>5. \A e \in K : ~(e.ns = r.ns /\ e.key = r.key)
    BY <1>3 DEF NamespaceKeyEqual
<1>6. IsFiniteSet(P)
  <2>1. IsFiniteSet(K)
      BY <1>4, FS_Subset DEF StoreGood
  <2> QED
      BY <1>4, <2>1, FS_AddElement
<1>7. StoreGood(P)
    BY <1>2, <1>4, <1>5, <1>6 DEF StoreGood
<1>8. ASSUME NEW ns, NEW key, \A e \in S : Blanked(e, ns, key), <<ns, key>> # <<r.ns, r.key>>, NEW e \in P
      PROVE  Blanked(e, ns, key)
  <2>1. CASE e = c
      BY <1>2, <1>8, <2>1 DEF Blanked
  <2>2. CASE e \in S
      BY <1>8, <2>2
  <2> QED
      BY <1>4, <2>1, <2>2
<1> QED
    BY <1>7, <1>8

(* A put makes the same of two stores that say the same.                   *)
LEMMA PutAlike ==
    ASSUME NEW S, NEW R, NEW r, RecordGood(r), NEW now \in Int, Texts(S) \subseteq Texts(R)
    PROVE  Texts(StorePut(S, r, now)) \subseteq Texts(StorePut(R, r, now))
<1>1. PICK c : c = CopyEntryFromRecord(r, now)
    OBVIOUS
<1>2. ASSUME NEW T PROVE StorePut(T, r, now) = {e \in T : ~(e.ns = r.ns /\ e.key = r.key)} \union {c}
    BY <1>1 DEF StorePut, NamespaceKeyEqual
<1>3. ASSUME NEW e \in StorePut(S, r, now), NotReplaced(e) PROVE TextOf(e) \in Texts(StorePut(R, r, now))
  <2>1. CASE e = c
    <3>1. c \in StorePut(R, r, now)
        BY <1>2
    <3> QED
        BY <1>3, <2>1, <3>1 DEF Texts
  <2>2. CASE e \in S /\ ~(e.ns = r.ns /\ e.key = r.key)
    <3>1. TextOf(e) \in Texts(R)
        BY <1>3, <2>2 DEF Texts
    <3>2. PICK f \in R : NotReplaced(f) /\ TextOf(e) = TextOf(f)
        BY <3>1 DEF Texts
    <3>3. SameText(e, f)
        BY <3>2, TextHas
    <3>4. f \in StorePut(R, r, now)
        BY <1>2, <2>2, <3>3 DEF SameText
    <3> QED
        BY <3>2, <3>4 DEF Texts
  <2> QED
      BY <1>2, <2>1, <2>2
<1> QED
    BY <1>3 DEF Texts

(* What is left of a blanked entry.                                        *)
LEMMA BlankHas ==
    ASSUME NEW e, Entry(e), NEW state, NEW b, b = Blank(e, state)
    PROVE  /\ Entry(b) /\ b.content = Redacted /\ b.red = state /\ b.ns = e.ns /\ b.key = e.key
           /\ b.super = e.super /\ b.session = e.session /\ b.category = e.category
<1>1. PICK z : z = ""
    OBVIOUS
<1>2. b = [e EXCEPT !.content = Redacted, !.meta = z, !.red = state]
    BY <1>1, Zenon DEF Blank
<1> QED
    BY <1>2 DEF Entry, EntryParts

(* Two entries that say the same still do when both are blanked.           *)
LEMMA BlankAlike ==
    ASSUME NEW e, NEW f, Entry(e), Entry(f), SameText(e, f), NEW state
    PROVE  SameText(Blank(e, state), Blank(f, state))
<1>1. PICK z : z = ""
    OBVIOUS
<1>2. PICK b, c : /\ b = [e EXCEPT !.content = Redacted, !.meta = z, !.red = state] /\ b = Blank(e, state)
                  /\ c = [f EXCEPT !.content = Redacted, !.meta = z, !.red = state] /\ c = Blank(f, state)
    BY <1>1, Zenon DEF Blank
<1>3. b.meta = z /\ c.meta = z /\ b.content = c.content /\ b.red = c.red
    BY <1>2 DEF Entry, EntryParts
<1>4. /\ b.ns = e.ns /\ b.key = e.key /\ b.super = e.super /\ b.session = e.session /\ b.category = e.category
      /\ c.ns = f.ns /\ c.key = f.key /\ c.super = f.super /\ c.session = f.session /\ c.category = f.category
    BY <1>2, BlankHas
<1> QED
    BY <1>2, <1>3, <1>4 DEF SameText

Marked(e, ns, key, state) == IF NamespaceKeyEqual(e, ns, key) THEN Blank(e, state) ELSE e

(* After a forget or a redact the key is blank, and what was blank stays   *)
(* so.                                                                     *)
LEMMA MarkHolds ==
    ASSUME NEW S, StoreGood(S), NEW ns, NEW key, NEW state, state # "none", NEW P, P = StoreMark(S, ns, key, state)
    PROVE  /\ StoreGood(P)
           /\ \A e \in P : Blanked(e, ns, key)
           /\ \A m, k : (\A e \in S : Blanked(e, m, k)) => \A e \in P : Blanked(e, m, k)
<1>1. P = {Marked(e, ns, key, state) : e \in S}
    BY DEF StoreMark, Marked
<1>2. ASSUME NEW e \in S
      PROVE  LET b == Marked(e, ns, key, state)
             IN  /\ Entry(b) /\ b.ns = e.ns /\ b.key = e.key
                 /\ e.ns = ns /\ e.key = key => b.content = Redacted /\ b.red = state
                 /\ ~(e.ns = ns /\ e.key = key) => b = e
  <2>1. Entry(e)
      BY DEF StoreGood
  <2>2. PICK b : b = Marked(e, ns, key, state)
      OBVIOUS
  <2>3. CASE e.ns = ns /\ e.key = key
    <3>1. b = Blank(e, state)
        BY <2>2, <2>3 DEF Marked, NamespaceKeyEqual
    <3>2. Entry(b) /\ b.ns = e.ns /\ b.key = e.key /\ b.content = Redacted /\ b.red = state
        BY <2>1, <3>1, BlankHas
    <3> QED
        BY <2>2, <2>3, <3>2
  <2>4. CASE ~(e.ns = ns /\ e.key = key)
    <3>1. b = e
        BY <2>2, <2>4 DEF Marked, NamespaceKeyEqual
    <3> QED
        BY <2>1, <2>2, <2>4, <3>1
  <2> QED
      BY <2>3, <2>4
<1>3. IsFiniteSet(P)
  <2>1. PICK f : f = [e \in S |-> Marked(e, ns, key, state)]
      OBVIOUS
  <2>2. DOMAIN f = S /\ P = {f[e] : e \in S}
      BY <1>1, <2>1
  <2>3. IsFiniteSet(S)
      BY DEF StoreGood
  <2> QED
      BY <2>2, <2>3, FiniteImage
<1>4. StoreGood(P)
  <2>1. \A b \in P : Entry(b)
      BY <1>1, <1>2
  <2>2. ASSUME NEW b \in P, NEW c \in P, b.ns = c.ns, b.key = c.key PROVE b = c
    <3>1. PICK e \in S : b = Marked(e, ns, key, state)
        BY <1>1
    <3>2. PICK f \in S : c = Marked(f, ns, key, state)
        BY <1>1
    <3>3. e.ns = f.ns /\ e.key = f.key
        BY <1>2, <2>2, <3>1, <3>2
    <3>4. e = f
        BY <3>3 DEF StoreGood
    <3> QED
        BY <3>1, <3>2, <3>4
  <2> QED
      BY <1>3, <2>1, <2>2 DEF StoreGood
<1>5. ASSUME NEW b \in P PROVE Blanked(b, ns, key)
    BY <1>1, <1>2 DEF Blanked
<1>6. ASSUME NEW m, NEW k, \A e \in S : Blanked(e, m, k), NEW b \in P PROVE Blanked(b, m, k)
  <2>1. PICK e \in S : b = Marked(e, ns, key, state)
      BY <1>1
  <2>2. Blanked(e, m, k)
      BY <1>6
  <2> QED
      BY <1>2, <2>1, <2>2 DEF Blanked
<1> QED
    BY <1>4, <1>5, <1>6

(* A forget makes the same of two stores that say the same.                *)
LEMMA MarkAlike ==
    ASSUME NEW S, NEW R, StoreGood(S), StoreGood(R), NEW ns, NEW key, NEW state, Texts(S) \subseteq Texts(R)
    PROVE  Texts(StoreMark(S, ns, key, state)) \subseteq Texts(StoreMark(R, ns, key, state))
<1>1. ASSUME NEW T PROVE StoreMark(T, ns, key, state) = {Marked(e, ns, key, state) : e \in T}
    BY DEF StoreMark, Marked
<1>2. ASSUME NEW e, Entry(e) PROVE NotReplaced(Marked(e, ns, key, state)) = NotReplaced(e)
  <2>1. Marked(e, ns, key, state).super = e.super
      BY <1>2, BlankHas DEF Marked
  <2> QED
      BY <2>1, Zenon DEF NotReplaced
<1>3. ASSUME NEW e \in S, NotReplaced(Marked(e, ns, key, state))
      PROVE  TextOf(Marked(e, ns, key, state)) \in Texts(StoreMark(R, ns, key, state))
  <2>1. Entry(e) /\ NotReplaced(e)
      BY <1>2, <1>3 DEF StoreGood
  <2>2. TextOf(e) \in Texts(R)
      BY <2>1 DEF Texts
  <2>3. PICK f \in R : NotReplaced(f) /\ TextOf(e) = TextOf(f)
      BY <2>2 DEF Texts
  <2>4. SameText(e, f) /\ Entry(f)
      BY <2>3, TextHas DEF StoreGood
  <2>5. SameText(Marked(e, ns, key, state), Marked(f, ns, key, state))
    <3>1. NamespaceKeyEqual(e, ns, key) = NamespaceKeyEqual(f, ns, key)
        BY <2>4 DEF NamespaceKeyEqual, SameText
    <3>2. SameText(Blank(e, state), Blank(f, state))
        BY <2>1, <2>4, BlankAlike
    <3> QED
        BY <2>4, <3>1, <3>2 DEF Marked
  <2>6. TextOf(Marked(e, ns, key, state)) = TextOf(Marked(f, ns, key, state))
      BY <2>5, TextHas
  <2>7. NotReplaced(Marked(f, ns, key, state)) /\ Marked(f, ns, key, state) \in StoreMark(R, ns, key, state)
      BY <1>1, <1>2, <2>3, <2>4
  <2> QED
      BY <2>6, <2>7 DEF Texts
<1> QED
    BY <1>1, <1>3 DEF Texts

(* A store from which entries were taken out.                              *)
LEMMA LessHolds ==
    ASSUME NEW S, StoreGood(S), NEW P, P \subseteq S
    PROVE  StoreGood(P) /\ \A m, k : (\A e \in S : Blanked(e, m, k)) => \A e \in P : Blanked(e, m, k)
<1>1. IsFiniteSet(P)
    BY FS_Subset DEF StoreGood
<1> QED
    BY <1>1 DEF StoreGood

(* A purge makes the same of two stores that say the same.                 *)
LEMMA PurgeAlike ==
    ASSUME NEW S, NEW R, NEW ns, NEW session, Texts(S) \subseteq Texts(R)
    PROVE  /\ Texts(StorePurgeNamespace(S, ns)) \subseteq Texts(StorePurgeNamespace(R, ns))
           /\ Texts(StorePurgeSession(S, ns, session)) \subseteq Texts(StorePurgeSession(R, ns, session))
<1>1. ASSUME NEW e \in S, NotReplaced(e) PROVE \E f \in R : NotReplaced(f) /\ TextOf(e) = TextOf(f) /\ SameText(e, f)
  <2>1. TextOf(e) \in Texts(R)
      BY <1>1 DEF Texts
  <2> QED
      BY <2>1, TextHas DEF Texts
<1>2. ASSUME NEW e \in StorePurgeNamespace(S, ns), NotReplaced(e) PROVE TextOf(e) \in Texts(StorePurgeNamespace(R, ns))
  <2>1. e \in S /\ e.ns # ns
      BY DEF StorePurgeNamespace
  <2>2. PICK f \in R : NotReplaced(f) /\ TextOf(e) = TextOf(f) /\ SameText(e, f)
      BY <1>1, <1>2, <2>1
  <2>3. f \in StorePurgeNamespace(R, ns)
      BY <2>1, <2>2 DEF StorePurgeNamespace, SameText
  <2> QED
      BY <2>2, <2>3 DEF Texts
<1>3. ASSUME NEW e \in StorePurgeSession(S, ns, session), NotReplaced(e)
      PROVE  TextOf(e) \in Texts(StorePurgeSession(R, ns, session))
  <2>1. e \in S /\ ~(e.ns = ns /\ e.session = session)
      BY DEF StorePurgeSession
  <2>2. PICK f \in R : NotReplaced(f) /\ TextOf(e) = TextOf(f) /\ SameText(e, f)
      BY <1>1, <1>3, <2>1
  <2>3. f \in StorePurgeSession(R, ns, session)
      BY <2>1, <2>2 DEF StorePurgeSession, SameText
  <2> QED
      BY <2>2, <2>3 DEF Texts
<1> QED
    BY <1>2, <1>3 DEF Texts

----------------------------------------------------------------------------
(* The two memories.                                                       *)
ViewOf(d, t) == IF t = <<>> THEN d ELSE t[1]

GoneKept(g, d, v, s, p) ==
    \A x \in g : IF x[1] = "sqlite" THEN \A e \in d \union v : Blanked(e, x[2], x[3])
                 ELSE (\A e \in s : Blanked(e, x[2], x[3])) /\ \A i \in DOMAIN p : Blanked(p[i], x[2], x[3])

(* As long as nothing failed, the table, the store and the file hold the   *)
(* same records.                                                           *)
MemGood(d, t, m, f, now, g, c) ==
    /\ StoreGood(d) /\ StoreGood(ViewOf(d, t)) /\ StoreGood(m.store) /\ SnapGood(f.snap)
    /\ m = [open |-> m.open, store |-> m.store]
    /\ now \in Int
    /\ GoneKept(g, d, ViewOf(d, t), m.store, f.snap)
    /\ c => /\ m.open /\ t = <<>> /\ f.has = "snapshot"
            /\ Texts(d) = Texts(m.store) /\ Texts(d) = {f.snap[i] : i \in DOMAIN f.snap}

MemInv == MemGood(db, tx, md, mdFile, clock, gone, calm)

(* What a call makes of a table and of a store.                            *)
Becomes(from, to, dead, alive) ==
    /\ StoreGood(to)
    /\ \A ns, key : <<ns, key>> \notin alive /\ (\A e \in from : Blanked(e, ns, key)) => \A e \in to : Blanked(e, ns, key)
    /\ \A x \in dead : \A e \in to : Blanked(e, x[1], x[2])

(* The empty store and its file.                                           *)
LEMMA EmptyHolds == StoreGood({}) /\ MarkdownSnapshot({}) = <<>>
<1>1. StoreGood({})
    BY FS_EmptySet DEF StoreGood
<1>2. PICK p : p = MarkdownSnapshot({})
    OBVIOUS
<1>3. DOMAIN p = {}
  <2>1. PICK S : S = {}
      OBVIOUS
  <2>2. \A i \in DOMAIN p : \E e \in S : p[i] = TextOf(e)
      BY <1>1, <1>2, <2>1, SnapshotHolds
  <2> QED
      BY <2>1, <2>2
<1>4. PICK s : p = [i \in DOMAIN s |-> EntryJson(s[i], TRUE)]
    BY <1>2 DEF MarkdownSnapshot, ExportSnapshot, SnapshotOf
<1>5. p = <<>>
    BY <1>3, <1>4
<1> QED
    BY <1>1, <1>2, <1>5

(* A call to both memories, with whatever outcome of the commit and of the *)
(* rewrite.                                                                *)
LEMMA CallHolds ==
    ASSUME MemInv, NEW rows, NEW store, NEW dead, NEW alive,
           Becomes(View, rows, dead, alive), Becomes(md.store, store, dead, alive),
           Texts(View) = Texts(md.store) => Texts(rows) = Texts(store),
           Call(rows, store, dead, alive)
    PROVE  MemInv'
<1>1. PICK so \in SqliteOutcomes, mo \in (IF md.open THEN RewriteOutcomes ELSE {"ok"}) :
        LET acked == (IF so = "ok" THEN {"sqlite"} ELSE {}) \union (IF mo = "ok" /\ md.open THEN {"markdown"} ELSE {})
        IN  /\ SqliteWrite(rows, so) /\ MarkdownWrite(store, mo)
            /\ gone' = {g \in gone : <<g[2], g[3]>> \notin alive} \union {<<b, d[1], d[2]>> : b \in acked, d \in dead}
            /\ calm' = (calm /\ so = "ok" /\ mo = "ok")
            /\ clock' = clock + 1
    BY DEF Call
<1>2. /\ StoreGood(db) /\ StoreGood(View) /\ StoreGood(md.store) /\ SnapGood(mdFile.snap)
      /\ md = [open |-> md.open, store |-> md.store]
      /\ clock \in Int
      /\ GoneKept(gone, db, View, md.store, mdFile.snap)
      /\ calm => /\ md.open /\ tx = <<>> /\ mdFile.has = "snapshot"
                 /\ Texts(db) = Texts(md.store) /\ Texts(db) = {mdFile.snap[i] : i \in DOMAIN mdFile.snap}
      /\ View = ViewOf(db, tx)
    BY DEF MemInv, MemGood, View, ViewOf
<1>3. PICK d2, t2, m2, f2, g2, c2, n2 : /\ d2 = db' /\ t2 = tx' /\ m2 = md' /\ f2 = mdFile' /\ g2 = gone' /\ c2 = calm'
                                        /\ n2 = clock'
    OBVIOUS
<1>4. /\ so = "ok" => d2 = rows /\ t2 = <<>>
      /\ so # "ok" => d2 = db /\ (t2 = <<>> \/ t2 = <<rows>>)
    BY <1>1, <1>3 DEF SqliteWrite, BeginTransaction, CommitTransaction, RollbackTransaction
<1>5. /\ StoreGood(d2) /\ StoreGood(ViewOf(d2, t2))
      /\ ViewOf(d2, t2) \in {d2, rows}
  <2>1. d2 \in {db, rows}
      BY <1>4
  <2>2. t2 = <<>> \/ t2 = <<rows>>
      BY <1>4
  <2>3. ViewOf(d2, t2) \in {d2, rows}
      BY <2>2 DEF ViewOf
  <2> QED
      BY <1>2, <2>1, <2>3 DEF Becomes
<1>6. /\ ~md.open => m2 = md /\ f2 = mdFile
      /\ md.open => m2 = [md EXCEPT !.store = store] /\ f2 = MarkdownRewrite(store, mo)
    BY <1>1, <1>3 DEF MarkdownWrite
<1>7. md.open => m2 = [open |-> md.open, store |-> store] /\ m2.store = store /\ m2.open = md.open
    BY <1>2, <1>6
<1>8. PICK p : p = MarkdownSnapshot(store)
    OBVIOUS
<1>9. /\ SnapGood(p) /\ {p[i] : i \in DOMAIN p} = Texts(store)
      /\ \A i \in DOMAIN p : \E e \in store : p[i] = TextOf(e)
    BY <1>8, SnapshotHolds DEF Becomes
<1>10. md.open => \/ f2.snap = p /\ f2.has = "snapshot"
                  \/ mo # "ok" /\ f2 = mdFile
                  \/ mo # "ok" /\ f2.snap = <<>>
    BY <1>6, <1>8 DEF MarkdownRewrite, FileHolding, TornFile
<1>11. SnapGood(<<>>)
    BY DEF SnapGood
<1>12. SnapGood(f2.snap) /\ StoreGood(m2.store) /\ m2 = [open |-> m2.open, store |-> m2.store]
  <2>1. CASE md.open
    <3>1. SnapGood(f2.snap)
        BY <1>2, <1>9, <1>10, <1>11, <2>1
    <3>2. StoreGood(m2.store)
        BY <1>7, <2>1 DEF Becomes
    <3>3. m2 = [open |-> m2.open, store |-> m2.store]
        BY <1>7, <2>1
    <3> QED
        BY <3>1, <3>2, <3>3
  <2>2. CASE ~md.open
      BY <1>2, <1>6, <2>2
  <2> QED
      BY <2>1, <2>2
<1>13. n2 \in Int
    BY <1>1, <1>2, <1>3
<1>14. ASSUME NEW ns, NEW key, \A e \in store : Blanked(e, ns, key), NEW i \in DOMAIN p PROVE Blanked(p[i], ns, key)
  <2>1. PICK e \in store : p[i] = TextOf(e)
      BY <1>9
  <2>2. SameText(p[i], e) /\ Blanked(e, ns, key)
      BY <1>14, <2>1, TextHas
  <2> QED
      BY <2>2 DEF Blanked, SameText
<1>15. GoneKept(g2, d2, ViewOf(d2, t2), m2.store, f2.snap)
  <2> SUFFICES ASSUME NEW x \in g2
               PROVE  IF x[1] = "sqlite" THEN \A e \in d2 \union ViewOf(d2, t2) : Blanked(e, x[2], x[3])
                      ELSE (\A e \in m2.store : Blanked(e, x[2], x[3])) /\ \A i \in DOMAIN f2.snap : Blanked(f2.snap[i], x[2], x[3])
      BY DEF GoneKept
  <2>1. CASE x \in gone /\ <<x[2], x[3]>> \notin alive
    <3>1. CASE x[1] = "sqlite"
      <4>1. \A e \in db \union View : Blanked(e, x[2], x[3])
          BY <1>2, <2>1, <3>1 DEF GoneKept
      <4>2. \A e \in rows : Blanked(e, x[2], x[3])
          BY <2>1, <4>1 DEF Becomes
      <4>3. d2 \in {db, rows}
          BY <1>4
      <4> QED
          BY <1>5, <3>1, <4>1, <4>2, <4>3
    <3>2. CASE x[1] # "sqlite"
      <4>1. (\A e \in md.store : Blanked(e, x[2], x[3])) /\ \A i \in DOMAIN mdFile.snap : Blanked(mdFile.snap[i], x[2], x[3])
          BY <1>2, <2>1, <3>2 DEF GoneKept
      <4>2. \A e \in store : Blanked(e, x[2], x[3])
          BY <2>1, <4>1 DEF Becomes
      <4>3. \A e \in m2.store : Blanked(e, x[2], x[3])
          BY <1>6, <1>7, <4>1, <4>2
      <4>4. \A i \in DOMAIN f2.snap : Blanked(f2.snap[i], x[2], x[3])
        <5>1. f2.snap \in {p, mdFile.snap, <<>>}
            BY <1>6, <1>10
        <5>2. \A i \in DOMAIN p : Blanked(p[i], x[2], x[3])
            BY <1>14, <4>2
        <5>3. DOMAIN <<>> = {}
            OBVIOUS
        <5> QED
            BY <4>1, <5>1, <5>2, <5>3
      <4> QED
          BY <3>2, <4>3, <4>4
    <3> QED
        BY <3>1, <3>2
  <2>2. CASE \E y \in dead : \/ so = "ok" /\ x = <<"sqlite", y[1], y[2]>>
                             \/ mo = "ok" /\ md.open /\ x = <<"markdown", y[1], y[2]>>
    <3>1. PICK y \in dead : \/ so = "ok" /\ x = <<"sqlite", y[1], y[2]>>
                            \/ mo = "ok" /\ md.open /\ x = <<"markdown", y[1], y[2]>>
        BY <2>2
    <3>2. x[2] = y[1] /\ x[3] = y[2]
        BY <3>1
    <3>3. (\A e \in rows : Blanked(e, x[2], x[3])) /\ \A e \in store : Blanked(e, x[2], x[3])
        BY <3>2 DEF Becomes
    <3>4. CASE so = "ok" /\ x[1] = "sqlite"
      <4>1. d2 = rows /\ ViewOf(d2, t2) = rows
          BY <1>4, <3>4 DEF ViewOf
      <4> QED
          BY <3>3, <3>4, <4>1
    <3>5. CASE mo = "ok" /\ md.open /\ x[1] = "markdown"
      <4>1. m2.store = store /\ f2.snap = p
          BY <1>7, <1>10, <3>5
      <4>2. \A i \in DOMAIN p : Blanked(p[i], x[2], x[3])
          BY <1>14, <3>3
      <4> QED
          BY <3>3, <3>5, <4>1, <4>2
    <3> QED
        BY <3>1, <3>4, <3>5
  <2> QED
      BY <1>1, <1>3, <2>1, <2>2
<1>16. ASSUME c2
       PROVE  /\ m2.open /\ t2 = <<>> /\ f2.has = "snapshot"
              /\ Texts(d2) = Texts(m2.store) /\ Texts(d2) = {f2.snap[i] : i \in DOMAIN f2.snap}
  <2>1. calm /\ so = "ok" /\ mo = "ok"
      BY <1>1, <1>3, <1>16
  <2>2. md.open /\ View = db /\ Texts(db) = Texts(md.store)
      BY <1>2, <2>1 DEF ViewOf
  <2>3. Texts(rows) = Texts(store)
      BY <2>2
  <2>4. d2 = rows /\ t2 = <<>> /\ m2.store = store /\ m2.open = md.open /\ f2.snap = p /\ f2.has = "snapshot"
      BY <1>4, <1>7, <1>10, <2>1, <2>2
  <2> QED
      BY <1>9, <2>2, <2>3, <2>4
<1>17. MemGood(d2, t2, m2, f2, n2, g2, c2)
    BY <1>5, <1>12, <1>13, <1>15, <1>16 DEF MemGood
<1>18. MemGood(db', tx', md', mdFile', clock', gone', calm')
    BY <1>3, <1>17
<1> QED
    BY <1>18 DEF MemInv

(* The records of the tools and of the agent.                              *)
LEMMA ToolRecordHas ==
    ASSUME NEW ns, NEW key, NEW content, KeyOrder[key] \in Int
    PROVE  /\ RecordGood(ToolRecord(ns, key, content))
           /\ RecordGood([ToolRecord(ns, key, content) EXCEPT !.category = "pinned", !.meta = "object"])
           /\ RecordGood([ToolRecord(ns, key, content) EXCEPT !.super = "other"])
           /\ \A s : RecordGood([ToolRecord(ns, key, content) EXCEPT !.session = s, !.category = "turn", !.score = 1, !.imp = 1])
<1>1. PICK z : z = ""
    OBVIOUS
<1>2. PICK r : r = ToolRecord(ns, key, content)
    OBVIOUS
<1>3. r = [ns |-> ns, session |-> z, category |-> z, key |-> key, content |-> content, meta |-> z,
           super |-> z, red |-> "none", score |-> 0, imp |-> 0, sensitive |-> FALSE]
    BY <1>1, <1>2, Zenon DEF ToolRecord
<1>4. /\ RecordGood(r)
      /\ RecordGood([r EXCEPT !.category = "pinned", !.meta = "object"])
      /\ RecordGood([r EXCEPT !.super = "other"])
      /\ \A s : RecordGood([r EXCEPT !.session = s, !.category = "turn", !.score = 1, !.imp = 1])
    BY <1>3 DEF RecordGood
<1> QED
    BY <1>2, <1>4

(* A record that is refused: an open transaction is taken back.            *)
LEMMA RefusedStep ==
    ASSUME MemInv, PutRefused
    PROVE  MemInv'
<1>1. db' = db /\ tx' = <<>> /\ md' = md /\ mdFile' = mdFile /\ clock' = clock /\ gone' = gone /\ calm' = calm
    BY DEF PutRefused, RollbackTransaction
<1>2. MemGood(db, tx, md, mdFile, clock, gone, calm)
    BY DEF MemInv
<1>3. ViewOf(db, <<>>) = db
    BY DEF ViewOf
<1>4. GoneKept(gone, db, db, md.store, mdFile.snap)
    BY <1>2 DEF MemGood, GoneKept
<1>5. MemGood(db, <<>>, md, mdFile, clock, gone, calm)
    BY <1>2, <1>3, <1>4 DEF MemGood
<1> QED
    BY <1>1, <1>5 DEF MemInv

(* Every write of a record.                                                *)
LEMMA PutStep ==
    ASSUME MemInv, NEW r, RecordGood(r), Put(r)
    PROVE  MemInv'
<1>0. SUFFICES ASSUME ValidateRecord(r) PROVE MemInv'
    BY RefusedStep DEF Put
<1>1. /\ StoreGood(View) /\ StoreGood(md.store) /\ clock \in Int
    BY DEF MemInv, MemGood, View, ViewOf
<1>2. PICK rows, store : rows = StorePut(View, r, clock) /\ store = StorePut(md.store, r, clock)
    OBVIOUS
<1>3. Call(rows, store, {}, {<<r.ns, r.key>>})
    BY <1>0, <1>2 DEF Put, SqlitePut
<1>4. /\ StoreGood(rows)
      /\ \A ns, key : (\A e \in View : Blanked(e, ns, key)) /\ <<ns, key>> # <<r.ns, r.key>> => \A e \in rows : Blanked(e, ns, key)
    BY <1>1, <1>2, PutHolds
<1>5. /\ StoreGood(store)
      /\ \A ns, key : (\A e \in md.store : Blanked(e, ns, key)) /\ <<ns, key>> # <<r.ns, r.key>> => \A e \in store : Blanked(e, ns, key)
    BY <1>1, <1>2, PutHolds
<1>6. Becomes(View, rows, {}, {<<r.ns, r.key>>}) /\ Becomes(md.store, store, {}, {<<r.ns, r.key>>})
    BY <1>4, <1>5 DEF Becomes
<1>7. ASSUME Texts(View) = Texts(md.store) PROVE Texts(rows) = Texts(store)
  <2>1. Texts(rows) \subseteq Texts(store)
      BY <1>1, <1>2, <1>7, PutAlike
  <2>2. Texts(store) \subseteq Texts(rows)
      BY <1>1, <1>2, <1>7, PutAlike
  <2> QED
      BY <2>1, <2>2
<1> QED
    BY <1>3, <1>6, <1>7, CallHolds

(* sc_memory_store_forget and sc_memory_store_redact with their SQLite     *)
(* counterparts.                                                           *)
LEMMA MarkStep ==
    ASSUME MemInv, NEW ns, NEW key, NEW state, state # "none",
           Call(StoreMark(View, ns, key, state), StoreMark(md.store, ns, key, state), {<<ns, key>>}, {})
    PROVE  MemInv'
<1>1. /\ StoreGood(View) /\ StoreGood(md.store)
    BY DEF MemInv, MemGood, View, ViewOf
<1>2. PICK rows, store : rows = StoreMark(View, ns, key, state) /\ store = StoreMark(md.store, ns, key, state)
    OBVIOUS
<1>3. Call(rows, store, {<<ns, key>>}, {})
    BY <1>2
<1>4. /\ StoreGood(rows) /\ \A e \in rows : Blanked(e, ns, key)
      /\ \A m, k : (\A e \in View : Blanked(e, m, k)) => \A e \in rows : Blanked(e, m, k)
    BY <1>1, <1>2, MarkHolds
<1>5. /\ StoreGood(store) /\ \A e \in store : Blanked(e, ns, key)
      /\ \A m, k : (\A e \in md.store : Blanked(e, m, k)) => \A e \in store : Blanked(e, m, k)
    BY <1>1, <1>2, MarkHolds
<1>6. Becomes(View, rows, {<<ns, key>>}, {}) /\ Becomes(md.store, store, {<<ns, key>>}, {})
    BY <1>4, <1>5 DEF Becomes
<1>7. ASSUME Texts(View) = Texts(md.store) PROVE Texts(rows) = Texts(store)
  <2>1. Texts(rows) \subseteq Texts(store)
      BY <1>1, <1>2, <1>7, MarkAlike
  <2>2. Texts(store) \subseteq Texts(rows)
      BY <1>1, <1>2, <1>7, MarkAlike
  <2> QED
      BY <2>1, <2>2
<1> QED
    BY <1>3, <1>6, <1>7, CallHolds

(* The purge of a namespace and of a session.                              *)
LEMMA PurgeStep ==
    ASSUME MemInv, NEW ns, InvokePurge(ns) \/ \E s : PurgeSession(ns, s)
    PROVE  MemInv'
<1>1. /\ StoreGood(View) /\ StoreGood(md.store)
    BY DEF MemInv, MemGood, View, ViewOf
<1>2. CASE InvokePurge(ns)
  <2>1. PICK rows, store, dead : /\ rows = StorePurgeNamespace(View, ns) /\ store = StorePurgeNamespace(md.store, ns)
                                 /\ dead = {<<ns, k>> : k \in Keys}
      OBVIOUS
  <2>2. Call(rows, store, dead, {})
      BY <1>2, <2>1 DEF InvokePurge, SqlitePurgeNamespace
  <2>3. /\ rows \subseteq View /\ store \subseteq md.store
        /\ (\A e \in rows : e.ns # ns) /\ \A e \in store : e.ns # ns
      BY <2>1 DEF StorePurgeNamespace
  <2>4. /\ StoreGood(rows) /\ \A m, k : (\A e \in View : Blanked(e, m, k)) => \A e \in rows : Blanked(e, m, k)
      BY <1>1, <2>3, LessHolds
  <2>5. /\ StoreGood(store) /\ \A m, k : (\A e \in md.store : Blanked(e, m, k)) => \A e \in store : Blanked(e, m, k)
      BY <1>1, <2>3, LessHolds
  <2>6. \A x \in dead : x[1] = ns
      BY <2>1
  <2>7. Becomes(View, rows, dead, {}) /\ Becomes(md.store, store, dead, {})
      BY <2>3, <2>4, <2>5, <2>6 DEF Becomes, Blanked
  <2>8. ASSUME Texts(View) = Texts(md.store) PROVE Texts(rows) = Texts(store)
    <3>1. Texts(rows) \subseteq Texts(store)
        BY <2>1, <2>8, PurgeAlike
    <3>2. Texts(store) \subseteq Texts(rows)
        BY <2>1, <2>8, PurgeAlike
    <3> QED
        BY <3>1, <3>2
  <2> QED
      BY <2>2, <2>7, <2>8, CallHolds
<1>3. CASE \E s : PurgeSession(ns, s)
  <2>1. PICK s : PurgeSession(ns, s)
      BY <1>3
  <2>2. PICK rows, store : rows = StorePurgeSession(View, ns, s) /\ store = StorePurgeSession(md.store, ns, s)
      OBVIOUS
  <2>3. Call(rows, store, {}, {})
      BY <2>1, <2>2 DEF PurgeSession, SqlitePurgeSession
  <2>4. rows \subseteq View /\ store \subseteq md.store
      BY <2>2 DEF StorePurgeSession
  <2>5. /\ StoreGood(rows) /\ \A m, k : (\A e \in View : Blanked(e, m, k)) => \A e \in rows : Blanked(e, m, k)
      BY <1>1, <2>4, LessHolds
  <2>6. /\ StoreGood(store) /\ \A m, k : (\A e \in md.store : Blanked(e, m, k)) => \A e \in store : Blanked(e, m, k)
      BY <1>1, <2>4, LessHolds
  <2>7. Becomes(View, rows, {}, {}) /\ Becomes(md.store, store, {}, {})
      BY <2>5, <2>6 DEF Becomes
  <2>8. ASSUME Texts(View) = Texts(md.store) PROVE Texts(rows) = Texts(store)
    <3>1. Texts(rows) \subseteq Texts(store)
        BY <2>2, <2>8, PurgeAlike
    <3>2. Texts(store) \subseteq Texts(rows)
        BY <2>2, <2>8, PurgeAlike
    <3> QED
        BY <3>1, <3>2
  <2> QED
      BY <2>3, <2>7, <2>8, CallHolds
<1> QED
    BY <1>2, <1>3

----------------------------------------------------------------------------
(* What an import makes of a snapshot.                                     *)
(* A record read back has the text of the snapshot's record, without score *)
(* and importance.                                                         *)
LEMMA HydrateHolds ==
    ASSUME NEW json, KeyOrder[json.key] \in Int, NEW allow, NEW r, r = HydrateRecord(json, allow)
    PROVE  RecordGood(r) /\ SameText(r, json)
BY DEF HydrateRecord, RecordGood, SameText

(* An import makes one entry of every record it takes, and takes all if it *)
(* says so.                                                                *)
LEMMA ImportHolds ==
    ASSUME NEW p, SnapGood(p), NEW now \in Int, NEW r, r = ImportInto({}, p, TRUE, now)
    PROVE  /\ StoreGood(r.store)
           /\ \A e \in r.store : \E i \in DOMAIN p : SameText(e, p[i])
           /\ r.ok => \A i \in DOMAIN p : \E e \in r.store : SameText(e, p[i])
<1> DEFINE record(i) == HydrateRecord(p[i], TRUE)
           copy(i) == CopyEntryFromRecord(record(i), now)
<1>1. ASSUME NEW i \in DOMAIN p PROVE Entry(copy(i)) /\ SameText(copy(i), p[i]) /\ SameText(record(i), p[i])
  <2>1. PICK h : h = record(i)
      OBVIOUS
  <2>2. RecordGood(h) /\ SameText(h, p[i])
      BY <2>1, HydrateHolds DEF SnapGood
  <2>3. PICK c : c = copy(i)
      OBVIOUS
  <2>4. Entry(c) /\ SameText(c, h)
      BY <2>1, <2>2, <2>3, CopyHolds
  <2>5. SameText(c, p[i])
      BY <2>2, <2>4 DEF SameText
  <2> QED
      BY <2>1, <2>2, <2>3, <2>4, <2>5
<1>2. PICK taken : taken = {i \in DOMAIN p : \A j \in 1..i : ValidateRecord(record(j))}
    OBVIOUS
<1>3. PICK last : last = {i \in taken : \A j \in taken : j > i => ~NamespaceKeyEqual(record(i), record(j).ns, record(j).key)}
    OBVIOUS
<1>4. last = taken
  <2> SUFFICES ASSUME NEW i \in taken, NEW j \in taken, j > i, NamespaceKeyEqual(record(i), record(j).ns, record(j).key)
               PROVE  FALSE
      BY <1>3
  <2>1. i \in DOMAIN p /\ j \in DOMAIN p
      BY <1>2
  <2>2. p[i].ns = p[j].ns /\ p[i].key = p[j].key
    <3>1. SameText(record(i), p[i]) /\ SameText(record(j), p[j])
        BY <1>1, <2>1
    <3>2. PICK a, b : a = record(i) /\ b = record(j)
        OBVIOUS
    <3>3. SameText(a, p[i]) /\ SameText(b, p[j]) /\ NamespaceKeyEqual(a, b.ns, b.key)
        BY <3>1, <3>2
    <3> QED
        BY <3>3 DEF SameText, NamespaceKeyEqual
  <2>3. i = j
      BY <2>1, <2>2 DEF SnapGood
  <2>4. i \in Int
      BY <2>1 DEF SnapGood
  <2> QED
      BY <2>3, <2>4
<1>5. CASE Len(p) > ImportMax
  <2>1. r.store = {} /\ r.ok = FALSE
      BY <1>5 DEF ImportInto
  <2> QED
      BY <2>1, EmptyHolds
<1>6. CASE ~(Len(p) > ImportMax)
  <2>1. PICK ok, T : ok = (taken = DOMAIN p) /\ T = {copy(i) : i \in last}
      OBVIOUS
  <2>2. r.ok = ok /\ r.store = T
    <3>1. PICK K : K = {e \in {} : \A i \in taken : ~NamespaceKeyEqual(e, record(i).ns, record(i).key)}
        OBVIOUS
    <3>2. r = [ok |-> taken = DOMAIN p, store |-> K \union T]
        BY <1>2, <1>3, <1>6, <2>1, <3>1 DEF ImportInto
    <3>3. K = {}
        BY <3>1
    <3>4. r = [ok |-> ok, store |-> T]
        BY <2>1, <3>2, <3>3
    <3> HIDE DEF record, copy
    <3>5. PICK h : h = [ok |-> ok, store |-> T]
        OBVIOUS
    <3>6. h.store = T
        BY <3>5
    <3>7. h.ok = ok
        BY <3>5
    <3> QED
        BY <3>4, <3>5, <3>6, <3>7
  <2>3. last \subseteq DOMAIN p
      BY <1>2, <1>4
  <2> HIDE DEF record, copy
  <2>4. PICK f : f = [i \in last |-> copy(i)]
      OBVIOUS
  <2>5. DOMAIN f = last /\ T = {f[i] : i \in last}
      BY <2>1, <2>4
  <2>6. IsFiniteSet(last)
    <3>1. IsFiniteSet(DOMAIN p)
        BY FS_Interval DEF SnapGood
    <3> QED
        BY <2>3, <3>1, FS_Subset
  <2>7. IsFiniteSet(T)
    <3>1. IsFiniteSet({f[i] : i \in last})
        BY <2>5, <2>6, FiniteImage
    <3> QED
        BY <2>5, <3>1
  <2>8. \A i \in last : Entry(f[i]) /\ SameText(f[i], p[i])
      BY <1>1, <2>3, <2>4
  <2>9. ASSUME NEW e \in T, NEW g \in T, e.ns = g.ns, e.key = g.key PROVE e = g
    <3>1. PICK i \in last : e = f[i]
        BY <2>5
    <3>2. PICK j \in last : g = f[j]
        BY <2>5
    <3>3. p[i].ns = p[j].ns /\ p[i].key = p[j].key
        BY <2>8, <2>9, <3>1, <3>2 DEF SameText
    <3>4. i = j
        BY <2>3, <3>3 DEF SnapGood
    <3> QED
        BY <3>1, <3>2, <3>4
  <2>10. \A e \in T : Entry(e)
      BY <2>5, <2>8
  <2>11. StoreGood(T)
      BY <2>7, <2>9, <2>10 DEF StoreGood
  <2>12. \A e \in T : \E i \in DOMAIN p : SameText(e, p[i])
      BY <2>3, <2>5, <2>8
  <2>13. ok => \A i \in DOMAIN p : \E e \in T : SameText(e, p[i])
      BY <1>4, <2>1, <2>5, <2>8
  <2> QED
      BY <2>2, <2>11, <2>12, <2>13
<1> QED
    BY <1>5, <1>6

(* A restart: the table loses its open transaction, the store is what the  *)
(* file says.                                                              *)
LEMMA RestartStep ==
    ASSUME MemInv, MemoryRestart
    PROVE  MemInv'
<1>1. /\ StoreGood(db) /\ SnapGood(mdFile.snap) /\ clock \in Int
      /\ GoneKept(gone, db, View, md.store, mdFile.snap)
      /\ calm => /\ md.open /\ tx = <<>> /\ mdFile.has = "snapshot"
                 /\ Texts(db) = Texts(md.store) /\ Texts(db) = {mdFile.snap[i] : i \in DOMAIN mdFile.snap}
    BY DEF MemInv, MemGood, View, ViewOf
<1>2. PICK p, r : p = mdFile.snap /\ r = ImportInto({}, p, TRUE, clock)
    OBVIOUS
<1>3. /\ StoreGood(r.store)
      /\ \A e \in r.store : \E i \in DOMAIN p : SameText(e, p[i])
      /\ r.ok => \A i \in DOMAIN p : \E e \in r.store : SameText(e, p[i])
    BY <1>1, <1>2, ImportHolds
<1>4. PICK l : l = MarkdownLoad(mdFile)
    OBVIOUS
<1>5. \/ /\ mdFile.has = "snapshot" /\ l.file = mdFile
         /\ l.open = (SnapshotParses(p) /\ r.ok) /\ l.store = IF SnapshotParses(p) THEN r.store ELSE {}
      \/ mdFile.has # "snapshot" /\ l.store = {} /\ (l.file = mdFile \/ l.file = FileHolding({}))
    BY <1>2, <1>4 DEF MarkdownLoad, FindSnapshotComment
<1>6. PICK m2, f2, c2 : m2 = md' /\ f2 = mdFile' /\ c2 = calm'
    OBVIOUS
<1>7. /\ m2 = [open |-> l.open, store |-> l.store] /\ f2 = l.file /\ m2.open = l.open /\ m2.store = l.store
      /\ db' = db /\ tx' = <<>> /\ clock' = clock /\ gone' = gone
      /\ c2 = (calm /\ m2.open)
    BY <1>4, <1>6 DEF MemoryRestart, SqliteOpen, MarkdownOpen
<1>8. f2.snap = p \/ f2.snap = <<>>
  <2>1. FileHolding({}).snap = <<>>
      BY EmptyHolds DEF FileHolding
  <2> QED
      BY <1>2, <1>5, <1>7, <2>1
<1>9. SnapGood(<<>>) /\ DOMAIN <<>> = {}
    BY DEF SnapGood
<1>10. SnapGood(f2.snap)
    BY <1>1, <1>2, <1>8, <1>9
<1>11. m2.store = r.store \/ m2.store = {}
    BY <1>5, <1>7
<1>12. StoreGood(m2.store)
    BY <1>3, <1>11, EmptyHolds
<1>13. m2 = [open |-> m2.open, store |-> m2.store]
    BY <1>7
<1>14. ViewOf(db, <<>>) = db
    BY DEF ViewOf
<1>15. GoneKept(gone, db, db, m2.store, f2.snap)
  <2> SUFFICES ASSUME NEW x \in gone
               PROVE  IF x[1] = "sqlite" THEN \A e \in db \union db : Blanked(e, x[2], x[3])
                      ELSE (\A e \in m2.store : Blanked(e, x[2], x[3])) /\ \A i \in DOMAIN f2.snap : Blanked(f2.snap[i], x[2], x[3])
      BY DEF GoneKept
  <2>1. CASE x[1] = "sqlite"
      BY <1>1, <2>1 DEF GoneKept
  <2>2. CASE x[1] # "sqlite"
    <3>1. \A i \in DOMAIN p : Blanked(p[i], x[2], x[3])
        BY <1>1, <1>2, <2>2 DEF GoneKept
    <3>2. ASSUME NEW e \in r.store PROVE Blanked(e, x[2], x[3])
      <4>1. PICK i \in DOMAIN p : SameText(e, p[i])
          BY <1>3
      <4>2. Blanked(p[i], x[2], x[3])
          BY <3>1
      <4> QED
          BY <4>1, <4>2 DEF Blanked, SameText
    <3>3. \A e \in m2.store : Blanked(e, x[2], x[3])
        BY <1>11, <3>2
    <3>4. \A i \in DOMAIN f2.snap : Blanked(f2.snap[i], x[2], x[3])
        BY <1>8, <1>9, <3>1
    <3> QED
        BY <2>2, <3>3, <3>4
  <2> QED
      BY <2>1, <2>2
<1>16. ASSUME c2
       PROVE  /\ m2.open /\ f2.has = "snapshot"
              /\ Texts(db) = Texts(m2.store) /\ Texts(db) = {f2.snap[i] : i \in DOMAIN f2.snap}
  <2>1. calm /\ m2.open
      BY <1>7, <1>16
  <2>2. mdFile.has = "snapshot" /\ Texts(db) = {p[i] : i \in DOMAIN p}
      BY <1>1, <1>2, <2>1
  <2>3. f2 = mdFile /\ m2.store = r.store /\ r.ok
      BY <1>5, <1>7, <2>1, <2>2
  <2>4. ASSUME NEW i \in DOMAIN p PROVE \E e \in db : NotReplaced(e) /\ p[i] = TextOf(e) /\ SameText(p[i], e)
    <3>1. p[i] \in Texts(db)
        BY <2>2
    <3>2. PICK e \in db : NotReplaced(e) /\ p[i] = TextOf(e)
        BY <3>1 DEF Texts
    <3>3. SameText(p[i], e)
        BY <3>2, TextHas
    <3> QED
        BY <3>2, <3>3
  <2>5. ASSUME NEW i \in DOMAIN p, NEW e, SameText(e, p[i]) PROVE NotReplaced(e) /\ TextOf(e) = p[i]
    <3>1. PICK x \in db : NotReplaced(x) /\ p[i] = TextOf(x) /\ SameText(p[i], x)
        BY <2>4
    <3>2. SameText(e, x)
        BY <2>5, <3>1 DEF SameText
    <3>3. TextOf(e) = TextOf(x)
        BY <3>2, TextHas
    <3>4. e.super = x.super
        BY <3>2 DEF SameText
    <3>5. NotReplaced(e)
        BY <3>1, <3>4, Zenon DEF NotReplaced
    <3> QED
        BY <3>1, <3>3, <3>5
  <2>6. Texts(r.store) \subseteq {p[i] : i \in DOMAIN p}
      BY <1>3, <2>5 DEF Texts
  <2>7. ASSUME NEW i \in DOMAIN p PROVE p[i] \in Texts(r.store)
    <3>1. PICK e \in r.store : SameText(e, p[i])
        BY <1>3, <2>3
    <3>2. NotReplaced(e) /\ TextOf(e) = p[i]
        BY <2>5, <3>1
    <3> QED
        BY <3>1, <3>2 DEF Texts
  <2>8. Texts(r.store) = {p[i] : i \in DOMAIN p}
      BY <2>6, <2>7
  <2> QED
      BY <1>2, <2>1, <2>2, <2>3, <2>8
<1>17. MemGood(db, <<>>, m2, f2, clock, gone, c2)
    BY <1>1, <1>10, <1>12, <1>13, <1>14, <1>15, <1>16 DEF MemGood
<1>18. MemGood(db', tx', md', mdFile', clock', gone', calm')
    BY <1>6, <1>7, <1>17
<1> QED
    BY <1>18 DEF MemInv

(* Every step keeps the invariant.                                         *)
LEMMA MemStep ==
    ASSUME MemoryAssumption, MemInv, [MemoryNext]_memoryVars
    PROVE  MemInv'
<1>1. ASSUME NEW ns, NEW key \in Keys, NEW content,
             InvokeStore(ns, key, content) \/ InvokePin(ns, key, content) \/ Supersede(ns, key, content)
      PROVE  MemInv'
  <2>1. KeyOrder[key] \in Int
      BY DEF MemoryAssumption
  <2>2. PICK r : RecordGood(r) /\ Put(r)
      BY <1>1, <2>1, ToolRecordHas DEF InvokeStore, InvokePin, Supersede
  <2> QED
      BY <2>2, PutStep
<1>2. ASSUME NEW ns, NEW key, InvokeForget(ns, key) \/ Redact(ns, key)
      PROVE  MemInv'
  <2>1. PICK state : /\ state # "none"
                     /\ Call(StoreMark(View, ns, key, state), StoreMark(md.store, ns, key, state), {<<ns, key>>}, {})
      BY <1>2 DEF InvokeForget, Redact, SqliteForget, SqliteRedact, StoreForget, StoreRedact
  <2> QED
      BY <2>1, MarkStep
<1>3. ASSUME NEW ns, NEW s, NEW content, PersistTurn(ns, s, content)
      PROVE  MemInv'
  <2>1. PICK key : key = TurnKey(turnCounter + 1)
      OBVIOUS
  <2>2. KeyOrder[key] \in Int
      BY <2>1 DEF MemoryAssumption, TurnKey
  <2>3. PICK r : r = [ToolRecord(ns, key, content) EXCEPT !.session = s, !.category = "turn", !.score = 1, !.imp = 1]
      OBVIOUS
  <2>4. RecordGood(r)
      BY <2>2, <2>3, ToolRecordHas
  <2>5. Put(r)
      BY <1>3, <2>1, <2>3 DEF PersistTurn
  <2> QED
      BY <2>4, <2>5, PutStep
<1>4. CASE UNCHANGED memoryVars
    BY <1>4 DEF memoryVars, MemInv
<1> QED
    BY <1>1, <1>2, <1>3, <1>4, PurgeStep, RestartStep DEF MemoryNext

(* It holds at the start.                                                  *)
LEMMA MemStart ==
    ASSUME MemoryInit
    PROVE  MemInv
<1>1. /\ db = {} /\ tx = <<>> /\ md = [open |-> TRUE, store |-> {}] /\ md.open = TRUE /\ md.store = {}
      /\ mdFile.has = "snapshot" /\ mdFile.snap = MarkdownSnapshot({}) /\ clock = 1 /\ gone = {}
    BY DEF MemoryInit, FileHolding
<1>2. PICK p : p = mdFile.snap
    OBVIOUS
<1>3. StoreGood({}) /\ SnapGood(p) /\ {p[i] : i \in DOMAIN p} = Texts({})
    BY <1>1, <1>2, EmptyHolds, SnapshotHolds
<1>4. ViewOf({}, <<>>) = {}
    BY DEF ViewOf
<1>5. GoneKept({}, {}, {}, {}, p)
    BY DEF GoneKept
<1>6. PICK d, t, m : d = {} /\ t = <<>> /\ m = md
    OBVIOUS
<1>7. /\ StoreGood(d) /\ StoreGood(ViewOf(d, t)) /\ StoreGood(m.store) /\ SnapGood(mdFile.snap)
      /\ GoneKept({}, d, ViewOf(d, t), m.store, mdFile.snap)
    BY <1>1, <1>2, <1>3, <1>4, <1>5, <1>6
<1>8. /\ m = [open |-> m.open, store |-> m.store] /\ m.open /\ t = <<>>
    BY <1>1, <1>6
<1>9. Texts(d) = Texts(m.store) /\ Texts(d) = {mdFile.snap[i] : i \in DOMAIN mdFile.snap}
    BY <1>1, <1>2, <1>3, <1>6
<1>10. MemGood(d, t, m, mdFile, 1, {}, calm)
    BY <1>1, <1>7, <1>8, <1>9 DEF MemGood
<1> QED
    BY <1>1, <1>6, <1>10 DEF MemInv

----------------------------------------------------------------------------
(* What the memories answer.                                               *)
(* A record that was not replaced is in both of two stores that say the    *)
(* same.                                                                   *)
LEMMA TwinThere ==
    ASSUME NEW S, NEW R, Texts(S) = Texts(R), NEW e \in S, NotReplaced(e)
    PROVE  \E f \in R : NotReplaced(f) /\ SameText(e, f)
<1>1. TextOf(e) \in Texts(R)
    BY DEF Texts
<1>2. PICK f \in R : NotReplaced(f) /\ TextOf(e) = TextOf(f)
    BY <1>1 DEF Texts
<1> QED
    BY <1>2, TextHas

(* Such stores answer a get alike.                                         *)
LEMMA GetAlike ==
    ASSUME NEW S, NEW R, StoreGood(S), StoreGood(R), Texts(S) = Texts(R), NEW ns, NEW key
    PROVE  StoreGet(S, ns, key) = StoreGet(R, ns, key)
<1> DEFINE found(T) == {e \in T : e.ns = ns /\ e.key = key /\ NotReplaced(e) /\ e.red = "none"}
<1>1. ASSUME NEW T
      PROVE  StoreGet(T, ns, key) = IF found(T) = {} THEN "not_found" ELSE (CHOOSE e \in found(T) : TRUE).content
  <2>1. found(T) = ServedAs(T, ns, key)
      BY Zenon DEF ServedAs, NotReplaced, NamespaceKeyEqual
  <2> HIDE DEF found
  <2> QED
      BY <2>1 DEF StoreGet
<1>2. ASSUME NEW e \in found(S) PROVE \E f \in found(R) : e.content = f.content
  <2>1. PICK f \in R : NotReplaced(f) /\ SameText(e, f)
      BY TwinThere
  <2> QED
      BY <2>1 DEF SameText
<1>3. ASSUME NEW e \in found(R) PROVE \E f \in found(S) : e.content = f.content
  <2>1. PICK f \in S : NotReplaced(f) /\ SameText(e, f)
      BY TwinThere
  <2> QED
      BY <2>1 DEF SameText
<1>4. (\A e, f \in found(S) : e = f) /\ \A e, f \in found(R) : e = f
    BY DEF StoreGood
<1>5. PICK s, r : s = found(S) /\ r = found(R)
    OBVIOUS
<1>6. s = {} <=> r = {}
    BY <1>2, <1>3, <1>5
<1>7. ASSUME s # {}, r # {} PROVE (CHOOSE e \in s : TRUE).content = (CHOOSE e \in r : TRUE).content
  <2>1. PICK x \in s : x = CHOOSE e \in s : TRUE
      BY <1>7
  <2>2. PICK y \in r : y = CHOOSE e \in r : TRUE
      BY <1>7
  <2>3. x.content = y.content
      BY <1>2, <1>4, <1>5
  <2> QED
      BY <2>1, <2>2, <2>3
<1> HIDE DEF found
<1> QED
    BY <1>1, <1>5, <1>6, <1>7

(* What a query for a namespace looks for.                                 *)
Live(ns, e) == NotReplaced(e) /\ e.red # "redacted" /\ e.red # "deleted" /\ (ns = "" \/ ns = e.ns)
LiveIn(S, ns) == {e \in S : Live(ns, e)}
KeysOf(S) == {e.key : e \in S}

(* The queries of the export and of the search tool.                       *)
NoText == ""

QueryFacts(ns, text, q, l) ==
    /\ q.given = TRUE /\ q.text = NoText /\ q.maxResults = 0 /\ q.limit = 0 /\ q.maxBytes = 0
    /\ l.given = TRUE /\ l.text = text /\ l.maxResults = 0 /\ l.limit = ToolLimit /\ l.maxBytes = 0
    /\ \A e : FiltersPass(q, e) <=> Live(ns, e)
    /\ \A e : FiltersPass(l, e) <=> Live(ns, e)

LEMMA QueriesHave ==
    ASSUME NEW ns, NEW text
    PROVE  QueryFacts(ns, text, Query(ns), SearchQuery(ns, text))
<1>1. PICK q, l : q = Query(ns) /\ l = SearchQuery(ns, text)
    OBVIOUS
<1>2. q = [[given |-> FALSE, ns |-> NoText, session |-> NoText, category |-> NoText, text |-> NoText, limit |-> 0, maxResults |-> 0,
            maxBytes |-> 0, super |-> FALSE, red |-> FALSE, del |-> FALSE] EXCEPT !.given = TRUE, !.ns = ns]
    BY <1>1, Zenon DEF Query, NoQuery, NoText
<1>3. l = [q EXCEPT !.text = text, !.limit = ToolLimit]
    BY <1>1 DEF SearchQuery
<1>4. /\ q.given = TRUE /\ q.text = NoText /\ q.maxResults = 0 /\ q.limit = 0 /\ q.maxBytes = 0
      /\ q.ns = ns /\ q.session = NoText /\ q.category = NoText /\ q.super = FALSE /\ q.red = FALSE /\ q.del = FALSE
    BY <1>2
<1>5. /\ l.given = TRUE /\ l.text = text /\ l.maxResults = 0 /\ l.limit = ToolLimit /\ l.maxBytes = 0
      /\ l.ns = ns /\ l.session = NoText /\ l.category = NoText /\ l.super = FALSE /\ l.red = FALSE /\ l.del = FALSE
    BY <1>2, <1>3
<1>6. ASSUME NEW x, NEW e, x.ns = ns, x.session = NoText, x.category = NoText, x.super = FALSE, x.red = FALSE, x.del = FALSE
      PROVE  FiltersPass(x, e) <=> Live(ns, e)
    BY <1>6, Zenon DEF FiltersPass, Live, NotReplaced, NoText
<1>7. QueryFacts(ns, text, q, l)
    BY <1>4, <1>5, <1>6 DEF QueryFacts
<1> QED
    BY <1>1, <1>7

(* A live record is in both of two stores that say the same.               *)
LEMMA LiveTwin ==
    ASSUME NEW S, NEW R, Texts(S) = Texts(R), NEW ns, NEW e \in LiveIn(S, ns)
    PROVE  \E f \in LiveIn(R, ns) : SameText(e, f)
<1>1. e \in S /\ NotReplaced(e) /\ Live(ns, e)
    BY DEF LiveIn, Live
<1>2. PICK f \in R : NotReplaced(f) /\ SameText(e, f)
    BY <1>1, TwinThere
<1>3. f.ns = e.ns /\ f.red = e.red
    BY <1>2 DEF SameText
<1>4. Live(ns, f)
    BY <1>1, <1>2, <1>3, Zenon DEF Live
<1> QED
    BY <1>2, <1>4 DEF LiveIn

LEMMA LiveKeysAlike ==
    ASSUME NEW S, NEW R, Texts(S) = Texts(R), NEW ns
    PROVE  KeysOf(LiveIn(S, ns)) = KeysOf(LiveIn(R, ns))
<1>1. \A e \in LiveIn(S, ns) : \E f \in LiveIn(R, ns) : e.key = f.key
    BY LiveTwin DEF SameText
<1>2. \A e \in LiveIn(R, ns) : \E f \in LiveIn(S, ns) : e.key = f.key
    BY LiveTwin DEF SameText
<1> QED
    BY <1>1, <1>2 DEF KeysOf

(* The keys of a snapshot are those of the records it was made of.         *)
LEMMA SnapshotKeys ==
    ASSUME NEW s, NEW raw, NEW x, x = SnapshotOf(s, raw)
    PROVE  DOMAIN x = DOMAIN s /\ KeysIn(x) = {s[i].key : i \in DOMAIN s}
<1>1. \A e : EntryJson(e, raw).key = e.key
    BY DEF EntryJson
<1>2. x = [i \in DOMAIN s |-> EntryJson(s[i], raw)]
    BY DEF SnapshotOf
<1>3. DOMAIN x = DOMAIN s /\ \A i \in DOMAIN s : x[i].key = s[i].key
    BY <1>1, <1>2
<1>4. PICK d : d = DOMAIN s
    OBVIOUS
<1>5. PICK E : E = {x[i] : i \in d}
    OBVIOUS
<1>6. KeysIn(x) = {e.key : e \in E}
    BY <1>3, <1>4, <1>5 DEF KeysIn, ToSet
<1>7. {e.key : e \in E} \subseteq {s[i].key : i \in d}
    BY <1>3, <1>4, <1>5
<1>8. {s[i].key : i \in d} \subseteq {e.key : e \in E}
    BY <1>3, <1>4, <1>5
<1> QED
    BY <1>3, <1>4, <1>6, <1>7, <1>8

(* The records a snapshot lists, with and without a limit.                 *)
LEMMA CutKeys ==
    ASSUME NEW M, IsFiniteSet(M), NEW s \in SetToSeqs(M), NEW raw, NEW n \in Nat,
           NEW t, t = First(s, n), NEW x, x = SnapshotOf(t, raw), NEW y, y = SnapshotOf(s, raw)
    PROVE  /\ KeysIn(y) = KeysOf(M)
           /\ KeysIn(x) \subseteq KeysOf(M)
           /\ Len(x) < n => KeysIn(x) = KeysOf(M)
<1>1. PICK m \in Nat : m = Len(s)
    BY SeqsHold
<1>2. s \in Seq(M) /\ DOMAIN s = 1..m /\ (\A i \in 1..m : s[i] \in M) /\ \A e \in M : \E i \in 1..m : s[i] = e
    BY <1>1, SeqsHold
<1>3. KeysIn(y) = KeysOf(M)
  <2>1. KeysIn(y) = {s[i].key : i \in 1..m}
      BY <1>2, SnapshotKeys
  <2> QED
      BY <1>2, <2>1 DEF KeysOf
<1>4. CASE n < m
  <2>1. t = SubSeq(s, 1, n)
      BY <1>1, <1>4 DEF First
  <2>2. Len(t) = n /\ DOMAIN t = 1..n /\ \A i \in 1..n : t[i] = s[i]
      BY <1>1, <1>2, <1>4, <2>1
  <2>3. KeysIn(x) = {t[i].key : i \in 1..n}
      BY <2>2, SnapshotKeys
  <2>4. Len(x) = n
    <3>1. x = [i \in 1..n |-> EntryJson(t[i], raw)]
        BY <2>2 DEF SnapshotOf
    <3> QED
        BY <3>1
  <2>5. ASSUME NEW i \in 1..n PROVE t[i] \in M
    <3>1. i \in 1..m
        BY <1>4
    <3> QED
        BY <1>2, <2>2, <3>1
  <2>6. KeysIn(x) \subseteq KeysOf(M)
      BY <2>3, <2>5 DEF KeysOf
  <2> QED
      BY <1>3, <2>4, <2>6
<1>5. CASE ~(n < m)
  <2>1. t = SubSeq(s, 1, m)
      BY <1>1, <1>5 DEF First
  <2>2. t = s
      BY <1>1, <1>2, <2>1
  <2>3. x = y
      BY <2>2
  <2> QED
      BY <1>3, <2>3
<1> QED
    BY <1>4, <1>5

(* What the export and the search find in the table and in the store.      *)
TableHits(ns, text) == {e \in LiveIn(View, ns) : text = "" \/ FtsMatch(e, text)}
StoreHits(ns, text) ==
    {e \in LiveIn(md.store, ns) : text = "" \/ StrContainsCasefold(e.key, text) \/ StrContainsCasefold(e.content, text)}

LEMMA ToolsFind ==
    ASSUME StoreGood(View), StoreGood(md.store), NEW ns, NEW text
    PROVE  /\ KeysIn(InvokeExport(ns)[1]) = KeysOf(LiveIn(View, ns))
           /\ KeysIn(InvokeExport(ns)[2]) = KeysOf(LiveIn(md.store, ns))
           /\ KeysIn(InvokeSearch(ns, text)[1]) \subseteq KeysOf(TableHits(ns, text))
           /\ KeysIn(InvokeSearch(ns, text)[2]) \subseteq KeysOf(StoreHits(ns, text))
           /\ Len(InvokeSearch(ns, text)[1]) < ToolLimit
                 => KeysIn(InvokeSearch(ns, text)[1]) = KeysOf(TableHits(ns, text))
           /\ Len(InvokeSearch(ns, text)[2]) < ToolLimit
                 => KeysIn(InvokeSearch(ns, text)[2]) = KeysOf(StoreHits(ns, text))
<1>0. PICK raw : raw = FALSE
    OBVIOUS
<1>1. PICK q, l : q = Query(ns) /\ l = SearchQuery(ns, text)
    OBVIOUS
<1>2. /\ q.given = TRUE /\ q.text = NoText /\ q.maxResults = 0 /\ q.limit = 0 /\ q.maxBytes = 0
      /\ l.given = TRUE /\ l.text = text /\ l.maxResults = 0 /\ l.limit = ToolLimit /\ l.maxBytes = 0
      /\ \A e : FiltersPass(q, e) <=> Live(ns, e)
      /\ \A e : FiltersPass(l, e) <=> Live(ns, e)
  <2>1. QueryFacts(ns, text, q, l)
      BY <1>1, QueriesHave
  <2> QED
      BY <2>1 DEF QueryFacts
<1>3. PICK V1, V2, M1, M2 : /\ V1 = {e \in View : SqliteMatches(q, e)} /\ V2 = {e \in View : SqliteMatches(l, e)}
                            /\ M1 = {e \in md.store : QueryMatchesEntry(q, e)} /\ M2 = {e \in md.store : QueryMatchesEntry(l, e)}
    OBVIOUS
<1>4. /\ V1 = LiveIn(View, ns) /\ V2 = TableHits(ns, text)
      /\ M1 = LiveIn(md.store, ns) /\ M2 = StoreHits(ns, text)
  <2>1. V1 = LiveIn(View, ns) /\ M1 = LiveIn(md.store, ns)
      BY <1>2, <1>3, Zenon DEF NoText, SqliteMatches, QueryMatchesEntry, LiveIn
  <2>2. V2 = TableHits(ns, text)
      BY <1>2, <1>3, Zenon DEF NoText, SqliteMatches, LiveIn, TableHits
  <2>3. M2 = StoreHits(ns, text)
      BY <1>2, <1>3, Zenon DEF NoText, QueryMatchesEntry, LiveIn, StoreHits
  <2> QED
      BY <2>1, <2>2, <2>3
<1>5. /\ IsFiniteSet(V1) /\ IsFiniteSet(V2) /\ IsFiniteSet(M1) /\ IsFiniteSet(M2)
      /\ (\A e \in V1 : Entry(e)) /\ (\A e \in V2 : Entry(e)) /\ (\A e \in M1 : Entry(e)) /\ \A e \in M2 : Entry(e)
  <2>1. V1 \subseteq View /\ V2 \subseteq View /\ M1 \subseteq md.store /\ M2 \subseteq md.store
      BY <1>3
  <2> QED
      BY <2>1, FS_Subset DEF StoreGood
<1>6. PICK s1, s2, t1, t2 : /\ s1 = Sorted(V1) /\ s2 = (IF text = NoText THEN Sorted(V2) ELSE Ranked(V2))
                            /\ t1 = Sorted(M1) /\ t2 = Sorted(M2)
    OBVIOUS
<1>7. s1 \in SetToSeqs(V1) /\ s2 \in SetToSeqs(V2) /\ t1 \in SetToSeqs(M1) /\ t2 \in SetToSeqs(M2)
    BY <1>5, <1>6, SortedHolds
<1>8. MaxResultsOf(q) = 0 /\ MaxResultsOf(l) = ToolLimit /\ ToolLimit = 10
    BY <1>2 DEF MaxResultsOf, ToolLimit
<1>9. ASSUME NEW x, NEW R
      PROVE  SqliteSearch(R, x) =
                 LET hits == {e \in R : SqliteMatches(x, e)}
                     rows == IF x.text = NoText THEN Sorted(hits) ELSE Ranked(hits)
                     cut == IF MaxResultsOf(x) = 0 THEN rows ELSE First(rows, MaxResultsOf(x))
                 IN  IF x.maxBytes = 0 THEN cut ELSE ByteLimited(cut, x.maxBytes)
    BY Zenon DEF NoText, SqliteSearch, SqliteSearchLimit, ApplyTotalResultByteLimit
<1>10. SqliteSearch(View, q) = s1 /\ SqliteSearch(View, l) = First(s2, ToolLimit)
    BY <1>2, <1>3, <1>6, <1>8, <1>9
<1>11. StoreSearch(md.store, q) = t1
    BY <1>2, <1>3, <1>6, <1>8 DEF StoreSearch
<1>12. StoreSearch(md.store, l) = First(t2, ToolLimit)
    BY <1>2, <1>3, <1>6, <1>8 DEF StoreSearch
<1>13. PICK v1, v2, w1, w2 : /\ v1 = SnapshotOf(s1, raw) /\ v2 = SnapshotOf(First(s2, ToolLimit), raw)
                             /\ w1 = SnapshotOf(t1, raw) /\ w2 = SnapshotOf(First(t2, ToolLimit), raw)
    OBVIOUS
<1>14. InvokeExport(ns)[1] = v1 /\ InvokeExport(ns)[2] = w1
    BY <1>0, <1>1, <1>10, <1>11, <1>13 DEF InvokeExport, SqliteExportSnapshot, ExportSnapshot
<1>15. InvokeSearch(ns, text)[1] = v2 /\ InvokeSearch(ns, text)[2] = w2
    BY <1>0, <1>1, <1>10, <1>12, <1>13 DEF InvokeSearch, SqliteExportSnapshot, ExportSnapshot
<1>16. ToolLimit \in Nat
    BY <1>8
<1>17. KeysIn(v1) = KeysOf(V1) /\ KeysIn(w1) = KeysOf(M1)
    BY <1>5, <1>7, <1>13, <1>16, CutKeys
<1>18. KeysIn(v2) \subseteq KeysOf(V2) /\ (Len(v2) < ToolLimit => KeysIn(v2) = KeysOf(V2))
    BY <1>5, <1>7, <1>13, <1>16, CutKeys
<1>19. KeysIn(w2) \subseteq KeysOf(M2) /\ (Len(w2) < ToolLimit => KeysIn(w2) = KeysOf(M2))
    BY <1>5, <1>7, <1>13, <1>16, CutKeys
<1> QED
    BY <1>4, <1>14, <1>15, <1>17, <1>18, <1>19

(* A text both backends read alike finds the same in both.                 *)
LEMMA HitsAlike ==
    ASSUME Texts(View) = Texts(md.store), NEW ns, NEW text, ReadAlike(text)
    PROVE  KeysOf(TableHits(ns, text)) = KeysOf(StoreHits(ns, text))
<1>1. ASSUME NEW e, NEW f, SameText(e, f), text = "" \/ FtsMatch(e, text)
      PROVE  text = "" \/ StrContainsCasefold(f.key, text) \/ StrContainsCasefold(f.content, text)
    BY <1>1, Zenon DEF ReadAlike, FtsMatch, StrContainsCasefold, SameText
<1>2. ASSUME NEW e, NEW f, SameText(e, f),
             text = "" \/ StrContainsCasefold(e.key, text) \/ StrContainsCasefold(e.content, text)
      PROVE  text = "" \/ FtsMatch(f, text)
    BY <1>2, Zenon DEF ReadAlike, FtsMatch, StrContainsCasefold, SameText
<1>3. ASSUME NEW e \in TableHits(ns, text) PROVE \E f \in StoreHits(ns, text) : e.key = f.key
  <2>1. PICK f \in LiveIn(md.store, ns) : SameText(e, f)
      BY LiveTwin DEF TableHits
  <2>2. f \in StoreHits(ns, text)
      BY <1>1, <2>1 DEF TableHits, StoreHits
  <2> QED
      BY <2>1, <2>2 DEF SameText
<1>4. ASSUME NEW e \in StoreHits(ns, text) PROVE \E f \in TableHits(ns, text) : e.key = f.key
  <2>1. PICK f \in LiveIn(View, ns) : SameText(e, f)
      BY LiveTwin DEF StoreHits
  <2>2. f \in TableHits(ns, text)
      BY <1>2, <2>1 DEF TableHits, StoreHits
  <2> QED
      BY <2>1, <2>2 DEF SameText
<1> QED
    BY <1>3, <1>4 DEF KeysOf

(* The invariant gives what the memories promise.                          *)
LEMMA MemAnswers ==
    ASSUME MemInv
    PROVE  MemorySound
<1>1. /\ StoreGood(db) /\ StoreGood(View) /\ StoreGood(md.store)
      /\ GoneKept(gone, db, View, md.store, mdFile.snap)
      /\ calm => tx = <<>> /\ Texts(db) = Texts(md.store)
    BY DEF MemInv, MemGood, View, ViewOf
<1>2. ForgottenStaysForgotten
    BY <1>1 DEF ForgottenStaysForgotten, GoneKept, Blanked
<1>3. BackendsAgree
  <2> SUFFICES ASSUME calm, NEW ns \in Namespaces
               PROVE  /\ \A key : InvokeRecall(ns, key)[1] = InvokeRecall(ns, key)[2]
                      /\ KeysIn(InvokeExport(ns)[1]) = KeysIn(InvokeExport(ns)[2])
                      /\ \A text \in SearchTexts :
                            /\ KeysIn(InvokeSearch(ns, text)[1]) \subseteq KeysIn(InvokeExport(ns)[2])
                            /\ KeysIn(InvokeSearch(ns, text)[2]) \subseteq KeysIn(InvokeExport(ns)[1])
                            /\ ReadAlike(text) /\ Len(InvokeSearch(ns, text)[1]) < ToolLimit
                                  /\ Len(InvokeSearch(ns, text)[2]) < ToolLimit
                                 => KeysIn(InvokeSearch(ns, text)[1]) = KeysIn(InvokeSearch(ns, text)[2])
      BY DEF BackendsAgree
  <2>1. Texts(View) = Texts(md.store)
      BY <1>1 DEF View
  <2>2. ASSUME NEW key PROVE InvokeRecall(ns, key)[1] = InvokeRecall(ns, key)[2]
    <3>1. StoreGet(View, ns, key) = StoreGet(md.store, ns, key)
        BY <1>1, <2>1, GetAlike
    <3> QED
        BY <3>1 DEF InvokeRecall, SqliteGet
  <2>3. KeysOf(LiveIn(View, ns)) = KeysOf(LiveIn(md.store, ns))
      BY <2>1, LiveKeysAlike
  <2>4. KeysIn(InvokeExport(ns)[1]) = KeysIn(InvokeExport(ns)[2])
      BY <1>1, <2>3, ToolsFind
  <2>5. ASSUME NEW text \in SearchTexts
        PROVE  /\ KeysIn(InvokeSearch(ns, text)[1]) \subseteq KeysIn(InvokeExport(ns)[2])
               /\ KeysIn(InvokeSearch(ns, text)[2]) \subseteq KeysIn(InvokeExport(ns)[1])
    <3>1. KeysOf(TableHits(ns, text)) \subseteq KeysOf(LiveIn(View, ns))
        BY DEF KeysOf, TableHits
    <3>2. KeysOf(StoreHits(ns, text)) \subseteq KeysOf(LiveIn(md.store, ns))
        BY DEF KeysOf, StoreHits
    <3> QED
        BY <1>1, <2>3, <3>1, <3>2, ToolsFind
  <2>6. ASSUME NEW text \in SearchTexts, ReadAlike(text),
               Len(InvokeSearch(ns, text)[1]) < ToolLimit, Len(InvokeSearch(ns, text)[2]) < ToolLimit
        PROVE  KeysIn(InvokeSearch(ns, text)[1]) = KeysIn(InvokeSearch(ns, text)[2])
      BY <1>1, <2>1, <2>6, HitsAlike, ToolsFind
  <2> QED
      BY <2>2, <2>4, <2>5, <2>6
<1> QED
    BY <1>2, <1>3 DEF MemorySound

(* The memory forgets what it was told to forget, for every set of         *)
(* namespaces, keys and texts, whatever write fails, however a file is     *)
(* torn and whenever the process restarts; and as long as nothing failed   *)
(* both backends hold the same records, find by any text only what the     *)
(* other holds too, and find the same by a text both read alike            *)
(* (sc_memory_store_forget, markdown_rewrite, markdown_load,               *)
(* sqlite_forget, sqlite_search).                                          *)
THEOREM MemorySoundHolds == MemorySpec => []MemorySound
<1>1. MemoryInit => MemInv
    BY MemStart
<1>2. MemInv /\ [MemoryNext]_memoryVars => MemInv'
    BY MemStep, MemoryAssumption
<1>3. MemInv => MemorySound
    BY MemAnswers
<1> QED
    BY <1>1, <1>2, <1>3, PTL DEF MemorySpec
=============================================================================
