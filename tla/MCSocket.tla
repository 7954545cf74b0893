------------------------------ MODULE MCSocket ------------------------------
(* Instances of Socket for TLC: the values of its constants that are not   *)
(* plain numbers.                                                          *)
EXTENDS Socket

AnyTimeout == {-1, 0, 1}
NoTimeout == {-1}
SomeTimeout == {-1, 1}

AllMethods == Methods
Asynchronous == {"send", "receive", "bind", "close"}
OneWay == {"receive", "close"}
TwoWays == {"send", "receive"}
ReceiveAndBind == {"receive", "bind"}
=============================================================================
