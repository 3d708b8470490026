------------------------------ MODULE MCCheckout ------------------------------
(***************************************************************************)
(* Checkout on a small instance.                                           *)
(***************************************************************************)
EXTENDS CheckoutProperties

Errors == {-1}

Typed(cmd, args) == [cmd |-> cmd, args |-> args]

\* Levels in and out of a byte's range, too few arguments, and the rest.
Session ==
  {Typed("torque", <<100, 1>>), Typed("torque", <<296, -256>>), Typed("torque", <<7>>),
   Typed("hk", <<>>), Typed("exit", <<>>), Typed("unknown", <<1, 2>>), Blank}

=============================================================================
