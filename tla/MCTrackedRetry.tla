---------------------------- MODULE MCTrackedRetry ----------------------------
(* Small instances of TrackedRetry for TLC. *)
EXTENDS TrackedRetry

Default ==
    [extract |-> "ok", transform |-> "none", maxRequestSize |-> "none",
     maxResponseSize |-> "none", trackDataSize |-> FALSE,
     includeFullResponse |-> TRUE, request |-> Plain, result |-> Plain,
     transformed |-> Plain, failed |-> Plain]

\* Every reason to throw by itself, and the options that avoid it.
EachReason ==
    {Default,
     [Default EXCEPT !.extract = "throws"],
     [Default EXCEPT !.request = {"cyclic"}],
     [Default EXCEPT !.request = {"cyclic"}, !.maxRequestSize = "kept"],
     [Default EXCEPT !.request = {"cyclic"}, !.trackDataSize = TRUE],
     [Default EXCEPT !.request = {"odd"}],
     [Default EXCEPT !.request = {"odd"}, !.maxRequestSize = "cut"],
     [Default EXCEPT !.result = {"cyclic"}, !.maxResponseSize = "kept"],
     [Default EXCEPT !.result = {"cyclic"}, !.trackDataSize = TRUE],
     [Default EXCEPT !.result = {"cyclic"}, !.trackDataSize = TRUE,
                     !.includeFullResponse = FALSE],
     [Default EXCEPT !.result = {"odd"}],
     [Default EXCEPT !.result = {"odd"}, !.maxResponseSize = "cut"],
     [Default EXCEPT !.transform = "throws"],
     [Default EXCEPT !.transform = "throws", !.failed = {"odd"}],
     [Default EXCEPT !.transform = "ok", !.transformed = {"odd"}],
     [Default EXCEPT !.transform = "ok", !.result = {"cyclic", "odd"},
                     !.trackDataSize = TRUE, !.failed = {"cyclic"}]}
=============================================================================
