---------------------------- MODULE AbstractDisk ----------------------------
(***************************************************************************)
(* What the callers of a block device rely on: a read or a write of a      *)
(* sector happens at one moment between the call and the return, a read    *)
(* returns the sector as it is then, and a write returns only when the     *)
(* disk has the data ("Returns after the disk has acknowledged receiving   *)
(* the data", block.c and ide.c).                                          *)
(***************************************************************************)
CONSTANTS Caller, Sector, Value, None

VARIABLES
  store,     \* the contents of the disk
  pending,   \* the call each caller is in, or None
  answer,    \* the value read or written, once it has happened
  returned   \* what each caller's last read returned

vars == <<store, pending, answer, returned>>

Request == [op : {"read", "write"}, sector : Sector, value : Value]

Init ==
  /\ store \in [Sector -> Value]
  /\ pending = [c \in Caller |-> None]
  /\ answer = [c \in Caller |-> None]
  /\ returned = [c \in Caller |-> None]

Call(c, r) ==
  /\ pending[c] = None
  /\ pending' = [pending EXCEPT ![c] = r]
  /\ UNCHANGED <<store, answer, returned>>

Read(c) ==
  /\ pending[c] # None /\ pending[c].op = "read" /\ answer[c] = None
  /\ answer' = [answer EXCEPT ![c] = store[pending[c].sector]]
  /\ UNCHANGED <<store, pending, returned>>

Write(c) ==
  /\ pending[c] # None /\ pending[c].op = "write" /\ answer[c] = None
  /\ store' = [store EXCEPT ![pending[c].sector] = pending[c].value]
  /\ answer' = [answer EXCEPT ![c] = pending[c].value]
  /\ UNCHANGED <<pending, returned>>

Return(c) ==
  /\ answer[c] # None
  /\ returned' = [returned EXCEPT ![c] = IF pending[c].op = "read" THEN answer[c] ELSE @]
  /\ pending' = [pending EXCEPT ![c] = None]
  /\ answer' = [answer EXCEPT ![c] = None]
  /\ UNCHANGED store

Next == \E c \in Caller :
  Read(c) \/ Write(c) \/ Return(c) \/ \E r \in Request : Call(c, r)

Spec == Init /\ [][Next]_vars
=============================================================================
