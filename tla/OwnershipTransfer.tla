------------------------- MODULE OwnershipTransfer --------------------------
(***************************************************************************)
(* What a document migration promises, without its stages and its          *)
(* evidence: the right to write a scope, and its ownership, pass once from *)
(* a source to a destination, and never are both open.                     *)
(***************************************************************************)
EXTENDS Naturals

CONSTANT FirstEpoch   \* authority epoch of the source

VARIABLES
  stage,        \* "planned", "held", "moved" or "abandoned"
  sourceOpen,   \* the source may write the scope
  destOpen,     \* the destination may
  epoch         \* authority epoch of the owner

vars == <<stage, sourceOpen, destOpen, epoch>>

TransferTypeOK ==
  /\ stage \in {"planned", "held", "moved", "abandoned"}
  /\ sourceOpen \in BOOLEAN /\ destOpen \in BOOLEAN
  /\ epoch \in Nat

Init ==
  /\ stage = "planned"
  /\ sourceOpen \in BOOLEAN
  /\ destOpen = FALSE
  /\ epoch = FirstEpoch

\* Before the first stage is verified the source may stop and go on.
Plan ==
  /\ stage = "planned"
  /\ sourceOpen' \in BOOLEAN
  /\ UNCHANGED <<stage, destOpen, epoch>>

Hold ==
  /\ stage = "planned"
  /\ stage' = "held"
  /\ sourceOpen' = FALSE
  /\ UNCHANGED <<destOpen, epoch>>

Abandon ==
  /\ stage \in {"planned", "held"}
  /\ stage' = "abandoned"
  /\ sourceOpen' = FALSE
  /\ UNCHANGED <<destOpen, epoch>>

\* The destination becomes the owner, perhaps with leave to write at once.
Move ==
  /\ stage = "held"
  /\ stage' = "moved"
  /\ epoch' \in Nat /\ epoch' > epoch
  /\ destOpen' \in BOOLEAN
  /\ UNCHANGED sourceOpen

Activate ==
  /\ stage = "moved" /\ ~destOpen
  /\ destOpen' = TRUE
  /\ UNCHANGED <<stage, sourceOpen, epoch>>

Next == Plan \/ Hold \/ Abandon \/ Move \/ Activate

Spec == Init /\ [][Next]_vars

\* The source is closed from the first verified stage on; the destination is
\* open only as the owner, under a newer epoch.
TransferInv ==
  /\ stage # "planned" => ~sourceOpen
  /\ destOpen => stage = "moved"
  /\ stage = "moved" <=> epoch # FirstEpoch
  /\ epoch >= FirstEpoch

=============================================================================
