--------------------------- MODULE MCControlWire ---------------------------
(* Documents of every kind and release: empty, ordinary and at each limit,  *)
(* with all of the optional groups or none.                                 *)
EXTENDS ControlWire

RECURSIVE Sample(_, _, _, _)

\* A document with n elements in each list and n characters in each text, numbers that
\* tell neighbours apart, and a group that is left out.
SampleField(doc, fields, i, n, flag, out) ==
  LET f == fields[i]
      Inner == Sample(f.fields, n, flag, out)
      value == CASE f.kind = "number" -> i * n
                 [] f.kind = "real" -> i
                 [] f.kind = "code" -> IF n = MaxText THEN f.limit ELSE n
                 [] f.kind = "text" -> [j \in 1..n |-> i]
                 [] f.kind = "many" -> [j \in 1..n |-> Inner]
                 [] f.kind = "each" -> [j \in DOMAIN doc[f.name] |-> doc[f.name][j] @@ Inner]
                 [] f.kind = "if" -> IF f.name = out THEN 0 ELSE flag
                 [] OTHER -> flag
  IN  (f.name :> value) @@ (IF f.kind = "if" THEN Inner ELSE <<>>) @@ doc

Sample(fields, n, flag, out) ==
  FoldLeft(LAMBDA doc, i : SampleField(doc, fields, i, n, flag, out), <<>>,
           [i \in DOMAIN fields |-> i])

SampleOf(kind, version, n, flag, out) ==
  Sample(FieldsOf(kind, version, FieldsWritten(kind)), n, flag, out)

Letter(kind, version, wire, doc) ==
  [kind |-> kind, version |-> version, wire |-> wire, doc |-> doc]

\* A response without a runtime has no endpoints.
Wire(kind, version, n, flag, out) ==
  LET doc == SampleOf(kind, version, n, flag, out)
  IN  Letter(kind, version, version,
             IF kind = "response" /\ doc.has_runtime = 0 /\ version >= 9
               THEN [doc EXCEPT !.endpoints = <<>>] ELSE doc)

Groups == {f.name : f \in {f \in ToSet(ResponseWritten) : f.kind = "if"}}

Broker(kind, n, flag) ==
  Letter(kind, 2, 0, ("request_id" :> 7) @@ SampleOf(kind, 2, n, flag, ""))

\* A runtime has endpoints, or the channels of an ASIO device, or neither; the preset
\* has lists of m.
Session(version, wire, mode, m, n, flag) ==
  LET sample == SampleOf("session", version, n, flag, "")
      asio == {"asio_inputs", "asio_outputs", "asio_clsid"}
      unused == CASE mode = 3 -> asio [] mode = 4 -> {"endpoints"}
                  [] OTHER -> asio \cup {"endpoints"}
      own == [preset |-> Sample(PresetWritten, m, flag, ""), mode |-> mode,
              schema_version |-> IF version = 1 THEN 1 ELSE 2]
      devices == [virtual_asio_devices |->
                    IF n = 0 THEN <<DefaultDevice>> ELSE sample.virtual_asio_devices]
  IN  Letter("session", version, wire,
             own @@ (IF version >= 3 THEN devices ELSE <<>>) @@
             [f \in DOMAIN sample |-> IF f \in unused THEN <<>> ELSE sample[f]])

Modes(version) == IF version = 1 THEN {2} ELSE IF version < 4 THEN {2, 3} ELSE {2, 3, 4}

\* The control wire's versions while a version of the session file was the current one.
Wires(version) == <<{8}, {9, 10}, {11}, {12, 13}, {14}>>[version]

Sizes == 0..MaxText

\* None is longer than its kind allows.
MCLetters ==
  {l \in
     {Wire(kind, v, n, flag, "") : kind \in WireKinds, v \in 8..14, n \in Sizes, flag \in {0, 1}}
     \cup {Wire("response", v, MaxText, 1, out) : v \in 8..14, out \in Groups}
     \cup {Broker(kind, n, flag) : kind \in BrokerKinds, n \in Sizes, flag \in {0, 1}}
     \cup UNION {{Session(v, wire, mode, m, n, flag) : wire \in Wires(v), mode \in Modes(v),
                     m \in Sizes, n \in Sizes, flag \in {0, 1}} : v \in 1..5} :
   Len(Sent(l.kind, l.version, l.wire, l.doc)) <= MaxCells(l.kind)}

MCFragile ==
  {Wire("command", v, 1, 1, "") : v \in {8, 13, 14}}
  \cup {Wire("response", v, 1, 1, "") : v \in {9, 14}}
  \cup {Broker(kind, 1, 1) : kind \in BrokerKinds}
  \cup {Session(2, 9, 3, 1, 1, 1), Session(4, 12, 4, 1, 1, 1), Session(5, 14, 3, 1, 1, 1)}
=============================================================================
