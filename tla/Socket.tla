-------------------------------- MODULE Socket --------------------------------
(***************************************************************************)
(* The life cycle of BaseSocket objects of src/tcp_socket/socket.cpp on    *)
(* one thread: construction (socket(), then the connect/bind/listen of     *)
(* ConnectSocket and ServerSocket), Accept (accept() into a new            *)
(* DataSocket), the move                                                   *)
(* constructor and move assignment (swap), Close() and the destructor.     *)
(*                                                                         *)
(* The kernel's descriptor table is the set of open descriptors; socket()  *)
(* and accept() return the lowest free one, as POSIX requires.  errno is   *)
(* one global value that a failing call sets and a successful one leaves   *)
(* alone.  close() releases the descriptor even when it fails with EINTR   *)
(* or EIO (Linux).  Messages, addresses and payloads are left out; a       *)
(* failing read or write is the errno it leaves behind.                    *)
(***************************************************************************)
EXTENDS Naturals, FiniteSets

CONSTANTS
  Objects,         \* BaseSocket objects of the program
  Fds,             \* descriptor numbers the process may get
  UserClose,       \* whether the program calls Close() itself
  INVALID          \* invalid_socket_id_ (-1)

Errnos == {"none", "EINTR", "EAGAIN", "EBADF", "EIO", "EMFILE", "ECONNREFUSED"}

VARIABLES
  life,     \* "unborn", "live" or "dead" for each object
  id,       \* socket_id_ of each object
  open,     \* descriptors open in the kernel
  errno,    \* errno
  thrown    \* the last operation and the exception it let escape, or "none"

vars == <<life, id, open, errno, thrown>>

Init ==
  /\ life = [o \in Objects |-> "unborn"]
  /\ id = [o \in Objects |-> INVALID]
  /\ open = {}
  /\ errno = "none"
  /\ thrown = [op |-> "none", err |-> "none"]

LowestFree == CHOOSE f \in Fds \ open : \A g \in Fds \ open : f <= g

(* One run of Close()'s loop (lines 56-92) on descriptor f: the outcome  *)
(* as a record of the descriptors left open, errno, whether socket_id_   *)
(* becomes invalid, and the exception thrown.  close() that returns -1   *)
(* leaves the loop at line 59 and the id is invalidated (line 92); one   *)
(* that succeeds reaches switch(errno) with errno still what an earlier  *)
(* call left: EINTR loops, and the next close() fails with EBADF;        *)
(* anything else throws, the id untouched.                               *)
CloseOutcomes(f, fdsOpen, err) ==
  IF f \notin fdsOpen
    THEN {[open |-> fdsOpen, errno |-> "EBADF", invalid |-> TRUE, thrown |-> "none"]}
    ELSE {[open |-> fdsOpen \ {f}, errno |-> e, invalid |-> TRUE, thrown |-> "none"]
            : e \in {"EINTR", "EIO"}}
         \cup
         {CASE err = "EINTR" ->
                 [open |-> fdsOpen \ {f}, errno |-> "EBADF", invalid |-> TRUE,
                  thrown |-> "none"]
            [] err = "EBADF" ->
                 [open |-> fdsOpen \ {f}, errno |-> err, invalid |-> FALSE,
                  thrown |-> "close EBADF"]
            [] err = "EIO" ->
                 [open |-> fdsOpen \ {f}, errno |-> err, invalid |-> FALSE,
                  thrown |-> "close EIO"]
            [] OTHER ->
                 [open |-> fdsOpen \ {f}, errno |-> err, invalid |-> FALSE,
                  thrown |-> "close ???"]}

(* The object o after a Close outcome r. *)
AfterClose(o, r) == IF r.invalid THEN INVALID ELSE id[o]

(* A constructor: socket() (or accept()) and, for ConnectSocket and      *)
(* ServerSocket, the connect/bind/listen that may fail (lines 109-153).  *)
(* On socket() failure the BaseSocket constructor throws (lines 17-25).  *)
(* On a setup failure the constructor calls Close() and then throws the  *)
(* setup error; whatever escapes, the complete BaseSocket subobject's    *)
(* destructor then runs and closes again if the id is still valid.       *)
Construct(o) ==
  /\ life[o] = "unborn"
  /\ \/ /\ open = Fds
        /\ errno' = "EMFILE"
        /\ thrown' = [op |-> "construct", err |-> "bad socket"]
        /\ UNCHANGED <<life, id, open>>
     \/ /\ open # Fds
        /\ LET f == LowestFree IN
           \/ /\ life' = [life EXCEPT ![o] = "live"]
              /\ id' = [id EXCEPT ![o] = f]
              /\ open' = open \cup {f}
              /\ UNCHANGED errno
              /\ thrown' = [op |-> "construct", err |-> "none"]
           \/ \E r1 \in CloseOutcomes(f, open \cup {f}, "ECONNREFUSED") :
                /\ thrown' = [op |-> "construct",
                              err |-> IF r1.thrown = "none" THEN "connect"
                                                           ELSE r1.thrown]
                /\ IF r1.invalid
                     THEN open' = r1.open /\ errno' = r1.errno
                     ELSE \E r2 \in CloseOutcomes(f, r1.open, r1.errno) :
                            open' = r2.open /\ errno' = r2.errno
                /\ UNCHANGED <<life, id>>

(* BaseSocket(BaseSocket&&), lines 99-102: start invalid, swap. *)
MoveConstruct(o, p) ==
  /\ life[o] = "live" /\ life[p] = "unborn"
  /\ life' = [life EXCEPT ![p] = "live"]
  /\ id' = [id EXCEPT ![p] = id[o], ![o] = INVALID]
  /\ thrown' = [op |-> "move", err |-> "none"]
  /\ UNCHANGED <<open, errno>>

(* operator=(BaseSocket&&), lines 104-107: swap. *)
MoveAssign(p, o) ==
  /\ life[o] = "live" /\ life[p] = "live" /\ o # p
  /\ id' = [id EXCEPT ![p] = id[o], ![o] = id[p]]
  /\ thrown' = [op |-> "move", err |-> "none"]
  /\ UNCHANGED <<life, open, errno>>

(* Close(), lines 48-93: a logic_error on a closed or moved object, else *)
(* the loop.                                                              *)
Close(o) ==
  /\ UserClose /\ life[o] = "live"
  /\ IF id[o] = INVALID
       THEN thrown' = [op |-> "close", err |-> "logic"] /\ UNCHANGED <<id, open, errno>>
       ELSE \E r \in CloseOutcomes(id[o], open, errno) :
              /\ open' = r.open /\ errno' = r.errno
              /\ thrown' = [op |-> "close", err |-> r.thrown]
              /\ id' = [id EXCEPT ![o] = AfterClose(o, r)]
  /\ UNCHANGED life

DestroyNoClose(o) ==
  /\ life[o] = "live"
  /\ life' = [life EXCEPT ![o] = "dead"]
  /\ thrown' = [op |-> "destroy", err |-> "none"]
  /\ UNCHANGED <<id, open, errno>>

(* ~BaseSocket, lines 27-46: nothing for a closed or moved object, else *)
(* Close() with every exception swallowed.                              *)
Destroy(o) ==
  /\ life[o] = "live"
  /\ life' = [life EXCEPT ![o] = "dead"]
  /\ thrown' = [op |-> "destroy", err |-> "none"]
  /\ IF id[o] = INVALID
       THEN UNCHANGED <<id, open, errno>>
       ELSE \E r \in CloseOutcomes(id[o], open, errno) :
              /\ open' = r.open /\ errno' = r.errno
              /\ id' = [id EXCEPT ![o] = INVALID]

(* ServerSocket::Accept, lines 155-176, into the DataSocket p it returns: *)
(* a logic_error on a closed or moved object; else accept() gives p the   *)
(* lowest free descriptor, or fails (EMFILE when the table is full, or    *)
(* interrupted) and a runtime_error escapes with no descriptor taken.     *)
Accept(o, p) ==
  /\ life[o] = "live" /\ life[p] = "unborn"
  /\ IF id[o] = INVALID
       THEN /\ thrown' = [op |-> "accept", err |-> "logic"]
            /\ UNCHANGED <<life, id, open, errno>>
       ELSE \/ /\ open # Fds
               /\ life' = [life EXCEPT ![p] = "live"]
               /\ id' = [id EXCEPT ![p] = LowestFree]
               /\ open' = open \cup {LowestFree}
               /\ thrown' = [op |-> "accept", err |-> "none"]
               /\ UNCHANGED errno
            \/ /\ errno' = IF open = Fds THEN "EMFILE" ELSE "EINTR"
               /\ thrown' = [op |-> "accept", err |-> "accept"]
               /\ UNCHANGED <<life, id, open>>

(* DataSocket's PutMessageData (lines 184-231), or GetMessageData, on a  *)
(* failing write() or read(): the switch on errno retries on EINTR and   *)
(* EAGAIN, throws domain_error on EBADF (and the other programming       *)
(* errors) and runtime_error on EIO (and the other device errors).  The  *)
(* object is untouched and errno is left behind.                          *)
WriteErrorThrows ==
  [e \in {"EINTR", "EAGAIN", "EBADF", "EIO"} |->
     CASE e \in {"EINTR", "EAGAIN"} -> "none"
       [] e = "EBADF"              -> "domain_error"
       [] OTHER                    -> "runtime_error"]

IoError(o) ==
  /\ life[o] = "live" /\ id[o] # INVALID
  /\ \E e \in DOMAIN WriteErrorThrows :
       /\ errno' = e
       /\ thrown' = [op |-> "io", err |-> WriteErrorThrows[e]]
  /\ UNCHANGED <<life, id, open>>

Next ==
  \E o \in Objects :
    \/ Construct(o) \/ Close(o) \/ Destroy(o) \/ IoError(o)
    \/ \E p \in Objects : MoveConstruct(o, p) \/ MoveAssign(p, o) \/ Accept(o, p)

Spec == Init /\ [][Next]_vars

-----------------------------------------------------------------------------
Held == {id[o] : o \in {x \in Objects : life[x] = "live" /\ id[x] # INVALID}}

(* No descriptor leaks: every open descriptor is the socket_id_ of a live *)
(* object, through failed constructors, moves, move assignments, Close()  *)
(* and destructors alike.                                                  *)
NoDescriptorLeak == open \subseteq Held

(* The RAII contract of socket.h (lines 11-12) and of the destructor's    *)
(* comment (lines 29-30): a live object with a valid socket_id_ owns an   *)
(* open descriptor that no other live object holds, so that closing it   *)
(* closes only its own socket.                                            *)
FdOwnedExclusively ==
  \A o \in Objects : life[o] = "live" /\ id[o] # INVALID =>
    /\ id[o] \in open
    /\ \A p \in Objects \ {o} : life[p] = "live" => id[p] # id[o]

=============================================================================
