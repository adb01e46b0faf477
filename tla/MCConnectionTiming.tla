------------------------ MODULE MCConnectionTiming ------------------------
(***************************************************************************)
(* Small values for the sets of ConnectionTiming.  Every set has a member  *)
(* the parser refuses.                                                     *)
(***************************************************************************)
EXTENDS ConnectionTiming

TimingOf(size, start, interval) ==
  [window_size |-> size, window_offset |-> start, interval |-> interval,
   latency |-> 0, timeout |-> 10]

RequestOf(timing, hop) ==
  [timing |-> timing, map |-> 0 .. Channels - 1, hop |-> hop, sca |-> 3,
   access_address_valid |-> TRUE]

MCRequests ==
  {RequestOf(TimingOf(1, 2, 32), 7), RequestOf(TimingOf(1, 0, 32), 4),
   RequestOf(TimingOf(9, 0, 32), 7)}

MCUpdates == {TimingOf(1, 3, 36), TimingOf(2, 0, 32), TimingOf(0, 0, 32)}

MCMaps == {{0, 3, 4}, {2}}
=============================================================================
