------------------------------ MODULE MCParts ------------------------------
(***************************************************************************)
(* The parts of the kernel that are checked by themselves: the scheduler,  *)
(* the console, an ATA channel, the memory allocators and the block        *)
(* arithmetic of files.  They share no state, so each behaviour is one of  *)
(* one part, chosen in the initial state, while the others stay as they    *)
(* are.                                                                    *)
(***************************************************************************)
EXTENDS Threads, Console, IdeChannel, Malloc, Inode

VARIABLE part   \* the part that moves

partsVars == <<schedVars, consoleVars, ideVars, mallocVars, inodeVars, part>>

PartsInit ==
  /\ part \in {"threads", "console", "ide", "malloc", "inode"}
  /\ SchedInit /\ ConsoleInit /\ IdeInit /\ MallocInit /\ InodeInit
  /\ part # "ide" => ~irq /\ platter = [s \in IdeSector |-> AnyValue]

InThreads(A) == part = "threads" /\ A
                /\ UNCHANGED <<consoleVars, ideVars, mallocVars, inodeVars, part>>
InConsole(A) == part = "console" /\ A
                /\ UNCHANGED <<schedVars, ideVars, mallocVars, inodeVars, part>>
InIde(A)     == part = "ide" /\ A
                /\ UNCHANGED <<schedVars, consoleVars, mallocVars, inodeVars, part>>
InMalloc(A)  == part = "malloc" /\ A
                /\ UNCHANGED <<schedVars, consoleVars, ideVars, inodeVars, part>>
InInode(A)   == part = "inode" /\ A
                /\ UNCHANGED <<schedVars, consoleVars, ideVars, mallocVars, part>>

PartsNext ==
  \/ InThreads(SchedNext) \/ InConsole(ConsoleNext) \/ InIde(IdeNext)
  \/ InMalloc(MallocNext) \/ InInode(InodeNext)

(* The fairness of the parts: SchedFairness, ConsoleFairness, IdeFairness. *)
PartsFairness ==
  /\ WF_partsVars(InThreads(ThreadStart)) /\ WF_partsVars(InThreads(ThreadTick))
  /\ WF_partsVars(InConsole(TransmitterReady)) /\ WF_partsVars(InConsole(SerialInterrupt))
  /\ \A t \in IdeCaller :
       WF_partsVars(InIde(InsideDriver(t) \/ Drive(t) \/ IdeInterrupt))

PartsSpec == PartsInit /\ [][PartsNext]_partsVars /\ PartsFairness
=============================================================================
