--------------------------- MODULE MCDurableStore ---------------------------
EXTENDS DurableStore

\* A short record and one whose declared length can swallow a short one.
MCKinds == {"brief", "bulky"}
MCBodyCells == [kind \in MCKinds |-> IF kind = "brief" THEN 1 ELSE 5]
=============================================================================
