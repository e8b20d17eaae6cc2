--------------------------- MODULE MCMatrixRuntime ---------------------------
(***************************************************************************)
(* Two capture channels, a master and a follower of one channel each, and   *)
(* one channel of the DAWs: with all devices WASAPI, with the capture and    *)
(* the master one ASIO driver, and in configurations that are not valid. In *)
(* one preset the ports are in order, in two they are not: a gap in the      *)
(* capture's ports, a port that is missing.                                 *)
(***************************************************************************)
EXTENDS MatrixRuntime

Mic == [id |-> "mic", direction |-> "capture", backend |-> "wasapi", group |-> "",
        device |-> "d1", master |-> FALSE, channels |-> 2]
Near == [id |-> "near", direction |-> "render", backend |-> "wasapi", group |-> "",
         device |-> "d2", master |-> TRUE, channels |-> 1]
Far == [Near EXCEPT !.id = "far", !.device = "d3", !.master = FALSE]

\* An endpoint of the one ASIO driver.
OfDriver(e) == [e EXCEPT !.backend = "asio", !.group = "g", !.device = "d4"]

MCConfigurations ==
  {<<Mic, Near, Far>>,
   <<OfDriver(Mic), OfDriver(Near), Far>>,
   <<Mic, OfDriver(Near), Far>>,                      \* a driver without capture
   <<OfDriver(Mic), OfDriver(Far), Near>>,            \* that does not drive the clock
   <<OfDriver(Mic), Near, Far>>,
   <<Mic, Near, [Far EXCEPT !.master = TRUE]>>,
   <<[Mic EXCEPT !.master = TRUE], Far>>,
   <<Mic, Near, [Far EXCEPT !.device = "d2"]>>}

MCOutputs == <<Port("far", 1), Port("near", 1)>>
MCInOrder == <<Port("daw", 1), Port("mic", 1), Port("mic", 2)>>
MCMatrices ==
  {[inputs |-> MCInOrder, outputs |-> MCOutputs],
   [inputs |-> <<Port("mic", 1), Port("daw", 1), Port("mic", 2)>>, outputs |-> MCOutputs],
   [inputs |-> MCInOrder, outputs |-> <<Port("near", 1)>>]}

MCRouteSets ==
  {{<<Port("mic", 1), Port("near", 1)>>, <<Port("daw", 1), Port("near", 1)>>,
    <<Port("mic", 2), Port("far", 1)>>},
   {<<Port("mic", 1), Port("near", 1)>>, <<Port("mic", 2), Port("near", 1)>>,
    <<Port("mic", 2), Port("far", 1)>>}}
=============================================================================
