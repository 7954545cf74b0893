------------------------------ MODULE MCCompat ------------------------------
(* Instances of CompatSocket for TLC.                                      *)
EXTENDS CompatSocket

App(uses, kind, timeo, listener, n) ==
  [uses |-> uses, kind |-> kind, timeo |-> timeo, listener |-> listener,
   moves |-> n]

(* Applications that bring out one interaction each: pausing a reader, and *)
(* a writer; closing and throwing while sends wait; a job while the loops  *)
(* run; time limits; monitors.                                             *)
SomeApps ==
  {App({"pause", "resume", "close"}, "reader", "none", TRUE, 6),
   App({"pause", "resume"}, "reader", "some", FALSE, 6),
   App({"send", "pause"}, "reader", "zero", FALSE, 3),
   App({"send", "sndmore", "pause", "resume"}, "writer", "none", TRUE, 5),
   App({"send", "throw", "close"}, "writer", "some", FALSE, 4),
   App({"send", "throw", "bind", "close"}, "writer", "none", TRUE, 4),
   App({"send", "bind", "resume"}, "writer", "zero", FALSE, 4),
   App({"bind", "pause", "resume", "close"}, "reader", "none", TRUE, 6),
   App({"send", "bind", "pause"}, "duplex", "none", TRUE, 3),
   App({"bind", "pause"}, "duplex", "some", TRUE, 4),
   App({"monitor", "unmonitor", "close"}, "reader", "none", TRUE, 5),
   App({"monitor", "unmonitor", "close"}, "reader", "none", FALSE, 5)}
=============================================================================
