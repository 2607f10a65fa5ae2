--------------------------- MODULE MCHitlApproval ---------------------------
(* Small instances of HitlApproval for TLC.                                *)
EXTENDS HitlApproval, TLC

CONSTANTS a1, a2,   \* approvals
          r1, r2    \* approve requests

MCApprovals == {a1, a2}
MCRequests == {r1, r2}

=============================================================================
