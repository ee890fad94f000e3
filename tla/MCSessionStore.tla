----------------------------- MODULE MCSessionStore -----------------------------
(* The sessions in the store, and the sessions as the pages of the web UI see them.  The *)
(* two share no state, so a behaviour is about one of them.  Sessions, turns and pages   *)
(* are model values no definition tells apart, and the run checks invariants only, so    *)
(* they may be permuted.                                                                 *)
EXTENDS SessionStore, TLC

CONSTANTS Page, MaxSession, MaxTurn, MaxAct, MaxDrop
VARIABLES store, turns, conn, page, answer, acts, drops, about

P == INSTANCE WebPages

web == <<store, turns, conn, page, answer, acts, drops>>

ASSUME {MaxSession, MaxTurn, MaxAct, MaxDrop} \subseteq Nat

Symmetry == Permutations(Session) \cup Permutations(Turn) \cup Permutations(Page)

MCInit ==
    /\ Init /\ P!PagesInit
    /\ about \in {"store", "pages"}
    /\ about = "store" => store.made = 0

MCStore == about = "store" /\ Next /\ UNCHANGED <<web, about>>
MCPages == about = "pages" /\ P!PagesNext /\ UNCHANGED <<vars, about>>

MCSpec == MCInit /\ [][MCStore \/ MCPages]_<<vars, web, about>>

\* A page shows the session the daemon keeps it informed about, and takes for running only
\* what runs.
PagesAreSound == P!PagesAreSound

================================================================================
