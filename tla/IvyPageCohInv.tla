--------------------------- MODULE IvyPageCohInv ----------------------------
(***************************************************************************)
(* The inductive invariant behind coherence: why, on a network that loses  *)
(* nothing and with a manager whose program leaves the page alone, readers *)
(* and a writer exclude each other and every copy is current.  It adds to  *)
(* IInv what a failing call would break.                                   *)
(***************************************************************************)
EXTENDS IvyPageInv

\* The condition of the theorems.
Reliable == ~CallsMayFail /\ Manager \notin Loader \cup Storer

(***************************************************************************)
(* Calls.                                                                  *)
(***************************************************************************)

\* Nothing is killed, and somebody waits for every call: the thread that
\* serves a request, for FETCH_PG as the request demands or for INVALIDATE_PG.
Answered ==
    /\ \A a \in Thread : pc[a] # "killed"
    /\ \A c \in Call : from[c] = NoOne <=> pc[c] = "free"
    /\ \A c \in Call : pc[c] \in ServePc => op[c] \in Serve
    /\ \A c \in Call, a \in Server : from[c] = a =>
         /\ pc[a] = "srvAck" => op[c] = "inval"
         /\ pc[a] = "srvFetch" =>
              op[c] = IF op[a] = "wr" THEN "fetch_none" ELSE "fetch_rd"
    /\ \A a \in Server : pc[a] = "srvFetch" /\ op[a] = "wr" => requester(a) # owner

(***************************************************************************)
(* Copies.                                                                 *)
(***************************************************************************)

\* Node n has access to the page, or an answer that will give it access.
Holder(n) ==
    \/ perm[n] # "none"
    \/ pc[n] \in {"protect", "copy", "settle"}
    \/ \E c \in Call : from[c] = n /\ pc[c] = "done"

\* Thread a serves a write request and has taken the copyset as its ivld_set.
Revoking(a) ==
    /\ op[a] = "wr"
    /\ pc[a] \in {"srvFetch", "srvInval", "srvAck"} \cup FetchPc

\* The owner has given its page up to the request that a serves.
GivenUp(a) ==
    \/ pc[a] \in {"srvInval", "srvAck"}
    \/ pc[a] = "srvFetch" /\ \E c \in Call : from[c] = a /\ pc[c] = "done"

\* The table knows all copies, and those a read request being served is about
\* to make; a write request being served has in todo the copies of all nodes
\* but its own, and but the owner's until that is fetched.
Covered ==
    /\ \A a \in Server :
         op[a] = "rd" /\ pc[a] \in {"srvFetch"} \cup FetchPc => requester(a) \in copyset
    /\ (\A a \in Server : ~Revoking(a)) =>
         \A n \in Node : Holder(n) => n \in copyset \cup {owner}
    /\ \A a \in Server : Revoking(a) =>
         /\ todo[a] \subseteq copyset
         /\ \A n \in Node \ {requester(a)} : Holder(n) =>
              n \in todo[a] \/ (~GivenUp(a) /\ n = owner)
         /\ \A c \in Call :
              from[c] = a /\ pc[a] = "srvAck" /\ pc[c] = "done" => ~Holder(dst[c])

\* Who can store, or will, holds the only copy.
Alone ==
    \A m \in Worker : Entitled(m) => \A n \in Node \ {m} : ~Holder(n)

\* Node n has an answer that will let it store.
Promised(n) ==
    \/ pc[n] \in {"protect", "copy"} /\ op[n] = "wr"
    \/ \E c \in Call : from[c] = n /\ op[c] = "wr" /\ pc[c] = "done"

\* A worker that owns the page has it, until it has given it up.
OwnerHas ==
    owner \in Worker =>
        \/ perm[owner] # "none"
        \/ Promised(owner)
        \/ \E a \in Server : Revoking(a) /\ GivenUp(a) /\ requester(a) # owner

\* A worker that waits for access does not have it already.
Faulted ==
    \A n \in Worker : pc[n] \in {"lock", "wait"} =>
        IF op[n] = "rd" THEN perm[n] = "none" ELSE perm[n] # "rw"

(***************************************************************************)
(* Contents.                                                               *)
(***************************************************************************)

\* Thread a stands where it may have contents to hand over.
Carries(a) ==
    IF a \in Node THEN pc[a] \in {"protect", "copy"}
    ELSE pc[a] \in {"fpSet", "srvInval", "srvAck"} \/ (pc[a] = "done" /\ op[a] # "inval")

\* What is readable, or owned by the manager, or under way, is current.
Current ==
    /\ \A n \in Node : perm[n] # "none" /\ pc[n] # "copy" => mem[n] = latest
    /\ \A n \in Node : pc[n] = "settle" => mem[n] = latest
    /\ owner = Manager => mem[Manager] = latest
    /\ \A a \in Thread : buf[a] # Empty => buf[a] = latest /\ Carries(a)

\* A write request that is answered without contents comes from a node that
\* has read access, and keeps it.
EmptyMeansCopy ==
    \A n \in Worker :
        /\ pc[n] = "protect" /\ op[n] = "wr" /\ buf[n] = Empty => perm[n] = "rd"
        /\ pc[n] = "copy" /\ op[n] = "wr" /\ buf[n] = Empty => mem[n] = latest
        /\ \A c \in Call :
             /\ from[c] = n /\ op[c] = "wr" /\ buf[c] = Empty
             /\ pc[c] \in {"srvInval", "srvAck", "done"}
             => perm[n] = "rd"

\* The inductive invariant of coherence on a reliable network: what programs can
\* read is current, who can store is alone, and the manager's table, its pending
\* invalidations and the answers under way account for every copy.
CohInv ==
    /\ IInv
    /\ Answered /\ Fetchable /\ Covered /\ Alone /\ OwnerHas /\ Faulted
    /\ Current /\ EmptyMeansCopy
=============================================================================
