-------------------------- MODULE CheckoutProperties --------------------------
(***************************************************************************)
(* What Checkout should guarantee.                                         *)
(***************************************************************************)
EXTENDS Checkout

\* What hk prints is what the coil does, from the first accepted torque on, or
\* from the start if the coil was off: also when a number typed did not fit
\* into a byte, and whatever commands failed in between.
HkIsTrue == phase = "loop" /\ known => drive = DriveOf(trqHk)

\* The program goes on at the end of its input, over and over on its last
\* line; the coil is not commanded again.
Silent ==
  eof' /\ ~fresh => /\ drive' = drive
                    /\ phase' # "off" => trqHk' = trqHk

SilentAtEnd == [][Silent]_vars

\* The checkout is a bank of one torquer that comes up on, over whatever the
\* coil is doing.
Bank == INSTANCE TorquerBank WITH
  Coils     <- {0},
  AutoStart <- TRUE,
  HasPort   <- FALSE,
  on        <- phase = "loop",
  reported  <- [c \in {0} |-> IF phase = "loop" THEN trqHk ELSE IdleLevel],
  drive     <- [c \in {0} |-> drive]

ActsAsBank == Bank!Spec

=============================================================================
