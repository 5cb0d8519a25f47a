---------------------------- MODULE CoherentPage ----------------------------
(***************************************************************************)
(* What libivy promises the programs that share a page: a page of one      *)
(* memory, of which programs hold copies.  A program uses its copy freely  *)
(* while it has access to it; it may lose the access at any time, and gets *)
(* it back with the current contents, when no other program's access is in *)
(* the way.  Nothing is said of managers, owners, locks or messages.       *)
(***************************************************************************)
CONSTANTS
    Node,       \* the nodes that share the page
    Data,       \* contents a page can have
    ZeroPage,   \* the contents it has at first
    Nothing     \* the copy of a node without access

VARIABLES
    access,     \* access[n]: what node n may do with its copy
    copy,       \* copy[n]: the copy that node n can load from
    current     \* what was stored last

cpVars == <<access, copy, current>>

CPInit ==
    /\ access = [n \in Node |-> "none"]
    /\ copy = [n \in Node |-> Nothing]
    /\ current = ZeroPage

\* Node n gets a copy to read: nobody else can write.
Share(n) ==
    /\ access[n] = "none"
    /\ \A m \in Node \ {n} : access[m] # "rw"
    /\ access' = [access EXCEPT ![n] = "rd"]
    /\ copy' = [copy EXCEPT ![n] = current]
    /\ UNCHANGED current

\* Node n gets the page to write: nobody else has access.
Own(n) ==
    /\ access[n] # "rw"
    /\ \A m \in Node \ {n} : access[m] = "none"
    /\ access' = [access EXCEPT ![n] = "rw"]
    /\ copy' = [copy EXCEPT ![n] = current]
    /\ UNCHANGED current

\* A writer keeps its copy for reading.
Downgrade(n) ==
    /\ access[n] = "rw"
    /\ access' = [access EXCEPT ![n] = "rd"]
    /\ UNCHANGED <<copy, current>>

Lose(n) ==
    /\ access[n] # "none"
    /\ access' = [access EXCEPT ![n] = "none"]
    /\ copy' = [copy EXCEPT ![n] = Nothing]
    /\ UNCHANGED current

Write(n) ==
    /\ access[n] = "rw"
    /\ \E v \in Data :
         /\ current' = v
         /\ copy' = [copy EXCEPT ![n] = v]
    /\ UNCHANGED access

CPNext ==
    \E n \in Node : Share(n) \/ Own(n) \/ Downgrade(n) \/ Lose(n) \/ Write(n)

CPSpec == CPInit /\ [][CPNext]_cpVars
=============================================================================
