--------------------------- MODULE MCSourceGateway ---------------------------
(* Small instances of SourceGateway.                                       *)
EXTENDS SourceGateway

Both(d, w) == [s \in Sources |-> IF s = "DUFFEL" THEN d ELSE w]

\* Everything configured and approved.
AllOn == [token |-> TRUE, enabled |-> Both(TRUE, TRUE), approved |-> Both(TRUE, TRUE),
          reference |-> TRUE, profile |-> TRUE]

\* Duffel only; the portal's profile is there, its permission is not.
DuffelOnly == [token |-> TRUE, enabled |-> Both(TRUE, FALSE), approved |-> Both(TRUE, FALSE),
               reference |-> FALSE, profile |-> TRUE]

\* The portal only, without a Duffel token.
WebOnly == [token |-> FALSE, enabled |-> Both(FALSE, TRUE), approved |-> Both(FALSE, TRUE),
            reference |-> TRUE, profile |-> TRUE]

\* The portal is disabled, though it stays approved and has all it needs.
PortalOff == [AllOn EXCEPT !.enabled = Both(TRUE, FALSE)]

\* Duffel is neither enabled nor approved, though a token is there.
DuffelOff == [AllOn EXCEPT !.enabled = Both(FALSE, TRUE), !.approved = Both(FALSE, TRUE)]

MCSettings == {DuffelOnly, WebOnly, PortalOff, DuffelOff}

\* An operator who switches the portal off between two sessions.
OperatorSettings == {AllOn, PortalOff}
=============================================================================
