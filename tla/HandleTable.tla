----------------------------- MODULE HandleTable -----------------------------
(***************************************************************************)
(* What a session's open-file table promises its client (spec sections 3  *)
(* and 8): a Create hands out an identifier the session never handed out  *)
(* before, and the identifier names the same file until it is closed;      *)
(* Close forgets it; a new session starts with an empty table.  An         *)
(* identifier may also be spent without a handle, by a Create that fails   *)
(* after taking its number.                                                *)
(***************************************************************************)
EXTENDS Functions, TLC

CONSTANTS
    Handles,   \* identifiers a session can hand out
    Targets    \* what a handle can be opened on

VARIABLES
    table,     \* open identifier -> what it was opened on
    spent      \* identifiers handed out in this session

htVars == <<table, spent>>

HTTypeOK ==
    /\ DOMAIN table \subseteq spent /\ spent \subseteq Handles
    /\ \A h \in DOMAIN table : table[h] \in Targets

HTInit ==
    /\ table = [h \in {} |-> h]
    /\ spent = {}

\* A Create that opens t under a fresh identifier.
Open(h, t) ==
    /\ h \notin spent
    /\ spent' = spent \cup {h}
    /\ table' = table @@ (h :> t)

\* A Create that takes a fresh identifier and then fails.
Spend(h) ==
    /\ h \notin spent
    /\ spent' = spent \cup {h}
    /\ UNCHANGED table

CloseHandle(h) ==
    /\ h \in DOMAIN table
    /\ table' = Restrict(table, DOMAIN table \ {h})
    /\ UNCHANGED spent

\* The connection ends and a new session begins.
NewSession ==
    /\ table' = [h \in {} |-> h]
    /\ spent' = {}

HTNext ==
    \/ \E h \in Handles, t \in Targets : Open(h, t)
    \/ \E h \in Handles : Spend(h) \/ CloseHandle(h)
    \/ NewSession

HTSpec == HTInit /\ [][HTNext]_htVars

=============================================================================
