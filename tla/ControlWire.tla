---------------------------- MODULE ControlWire ----------------------------
(***************************************************************************)
(* The messages the programs exchange and the files they keep: commands    *)
(* and responses of the control pipe, requests and responses of the ASIO   *)
(* broker's pipe, and the session file, which holds a preset file, which   *)
(* is a response.  Writer and reader of each are two lists of statements   *)
(* that must name the same fields in the same order, and the reader knows  *)
(* from which version on a field is there.                                 *)
(*                                                                         *)
(* A message is a sequence of cells: an integer of any width, a length or  *)
(* a character is one cell.  A document is a function from the names of    *)
(* fields to values; a list is a sequence of documents.  Of the preset     *)
(* file in a session file a reader keeps the preset, and the writer makes  *)
(* a preset file of its own release of it.  What a document's values mean, *)
(* which the validators check, is left out; all text is ASCII and the      *)
(* broker's limits are those of the control pipe.                          *)
(***************************************************************************)
EXTENDS Integers, SequencesExt

CONSTANTS Bad,          \* no flag, code or finite number, and above each limit
          MaxText,      \* kControlWireMaxStringBytes, in characters
          MaxArray,     \* kControlWireMaxArrayElements
          MaxEndpoints, \* kMaximumAudioRuntimeEndpoints
          MaxChannels,  \* kMaximumPhysicalAsioChannels
          MaxDevices,   \* kMaximumVirtualAsioDevices
          MaxMessage,   \* kControlWireMaxMessageBytes, in cells
          MaxFile,      \* kSessionFileMaxBytes, in cells
          Letters,      \* what is sent: [kind, version, wire, doc], wire the version of
                        \* the preset file in a session
          Fragile,      \* the letters that may be damaged on the way
          Values        \* values a damaged cell takes

ASSUME ControlWireAssumption ==
  /\ {MaxText, MaxArray, MaxEndpoints, MaxChannels, MaxDevices} \subseteq Nat \ {0}
  /\ {MaxMessage, MaxFile} \subseteq Nat \ {0}
  /\ Fragile \subseteq Letters
  /\ Bad \in Nat /\ Bad > MaxMessage /\ Bad > MaxFile /\ Bad \in Values

VARIABLES letter,    \* the document and the program's version that wrote it
          cells,     \* the message
          damaged    \* whether it was changed since

vars == <<letter, cells, damaged>>

-----------------------------------------------------------------------------
(* Fields.  The limit of a code is the last value of its enumeration, which *)
(* only readers check.                                                      *)

Field(kind, name) ==
  [name |-> name, kind |-> kind, since |-> 0, limit |-> 0, fields |-> <<>>, least |-> 0]

Number(name) == Field("number", name)
Numbers(names) == [i \in DOMAIN names |-> Number(names[i])]
Real(name) == Field("real", name)
Reals(names) == [i \in DOMAIN names |-> Real(names[i])]
Flag(name) == Field("flag", name)
Flags(names) == [i \in DOMAIN names |-> Flag(names[i])]
Text(name) == Field("text", name)
Texts(names) == [i \in DOMAIN names |-> Text(names[i])]
Code(name, limit) == [Field("code", name) EXCEPT !.limit = limit]
UpTo(limit, name, fields) == [Field("many", name) EXCEPT !.limit = limit, !.fields = fields]
Many(name, fields) == UpTo(MaxArray, name, fields)

\* A preset file inside a session file.
Enclosed(name) == Field("file", name)

\* Fields that are there if the flag of this name is set.
If(name, fields) == [Field("if", name) EXCEPT !.fields = fields]

\* One more group of fields for each element of the list of this name.
ForEach(name, fields) == [Field("each", name) EXCEPT !.fields = fields]

Since(version, fields) == [i \in DOMAIN fields |-> [fields[i] EXCEPT !.since = version]]

-----------------------------------------------------------------------------
(* control_wire_protocol.cpp: what encode_... writes, what decode_... reads *)

PresetWritten ==
  Numbers(<<"preset_schema", "sample_rate", "frames_per_block">>) \o
  <<Many("nodes", Texts(<<"id", "label", "type">>)),
    Many("inputs", Texts(<<"id", "label">>)), Many("outputs", Texts(<<"id", "label">>)),
    Many("routes", <<Text("input_id"), Text("output_id"), Real("gain"), Flag("muted")>>)>>

PresetRead ==
  Numbers(<<"preset_schema", "sample_rate", "frames_per_block">>) \o
  <<Many("nodes", Texts(<<"id", "label", "type">>)),
    Many("inputs", Texts(<<"id", "label">>)), Many("outputs", Texts(<<"id", "label">>)),
    Many("routes", <<Text("input_id"), Text("output_id"), Real("gain"), Flag("muted")>>)>>

DiagnosticsWritten ==
  Numbers(<<"graph_version", "processed_blocks", "xrun_count", "capture_fifo_fill",
            "render_fifo_fill", "capture_overflow_cycles", "capture_overflow_frames",
            "render_overflow_cycles", "render_overflow_frames", "render_underflow_cycles",
            "render_underflow_frames", "asio_pushed", "asio_dropped", "asio_underflows",
            "asio_overflows", "asio_consumed", "asio_mixed", "asio_silent_reads",
            "asio_clipped", "asio_non_finite", "asio_queue_depth", "asio_producers",
            "import_failures", "export_failures">>) \o
  Reals(<<"last_callback_seconds", "peak_callback_seconds", "asio_peak">>)

DiagnosticsRead ==
  Numbers(<<"graph_version", "processed_blocks", "xrun_count", "capture_fifo_fill",
            "render_fifo_fill", "capture_overflow_cycles", "capture_overflow_frames",
            "render_overflow_cycles", "render_overflow_frames", "render_underflow_cycles",
            "render_underflow_frames", "asio_pushed", "asio_dropped", "asio_underflows",
            "asio_overflows", "asio_consumed", "asio_mixed", "asio_silent_reads",
            "asio_clipped", "asio_non_finite", "asio_queue_depth", "asio_producers",
            "import_failures", "export_failures">>) \o
  Reals(<<"last_callback_seconds", "peak_callback_seconds", "asio_peak">>)

RecoveryWritten ==
  <<Code("state", 5), Code("runtime_health", 3), Text("reason_code")>> \o
  Numbers(<<"episodes", "successes", "failures", "last_duration", "longest_duration",
            "reopens", "reset_failures">>) \o
  <<Flag("reopen_pending")>> \o
  Numbers(<<"wait_timeouts", "discontinuities", "underflow_frames", "longest_silence",
            "longest_clamp">>)

RecoveryRead ==
  <<Code("state", 5), Code("runtime_health", 3), Text("reason_code")>> \o
  Numbers(<<"episodes", "successes", "failures", "last_duration", "longest_duration",
            "reopens", "reset_failures">>) \o
  <<Flag("reopen_pending")>> \o
  Numbers(<<"wait_timeouts", "discontinuities", "underflow_frames", "longest_silence",
            "longest_clamp">>)

FormatWritten ==
  Numbers(<<"rate", "channels", "frames", "bits", "valid_bits">>) \o <<Code("sample_format", 2)>>
FormatRead ==
  Numbers(<<"rate", "channels", "frames", "bits", "valid_bits">>) \o <<Code("sample_format", 2)>>

DeviceWritten ==
  Texts(<<"id", "label">>) \o
  <<Code("backend", 5), Code("direction", 2), Many("formats", FormatWritten)>> \o
  Flags(<<"is_default", "is_virtual">>) \o Numbers(<<"device_inputs", "device_outputs">>)

\* A reader that expects what version 13 added from every release.
FaultDeviceRead ==
  Texts(<<"id", "label">>) \o
  <<Code("backend", 5), Code("direction", 2), Many("formats", FormatRead)>> \o
  Flags(<<"is_default", "is_virtual">>) \o Numbers(<<"device_inputs", "device_outputs">>)

DeviceRead ==
  Texts(<<"id", "label">>) \o
  <<Code("backend", 5), Code("direction", 2), Many("formats", FormatRead)>> \o
  Flags(<<"is_default", "is_virtual">>) \o
  Since(13, Numbers(<<"device_inputs", "device_outputs">>))

AsioDeviceWritten ==
  Texts(<<"device_id", "clsid", "registry_name", "broker_token">>) \o
  Numbers(<<"input_channels", "output_channels">>) \o <<Flag("enabled")>>

AsioDeviceRead ==
  Texts(<<"device_id", "clsid", "registry_name", "broker_token">>) \o
  Numbers(<<"input_channels", "output_channels">>) \o <<Flag("enabled")>>

ExtensionWritten == <<Code("backend", 1), Text("group"), Number("rate"), Number("block")>>
ExtensionRead == <<Code("backend", 1), Text("group"), Number("rate"), Number("block")>>

\* The configuration of the runtime, but the extensions of its endpoints.
EndpointWritten ==
  Texts(<<"endpoint_id", "device_id">>) \o <<Code("direction", 1), Flag("clock_master")>> \o
  Numbers(<<"first_channel", "channel_count">>)

RuntimeWritten ==
  <<Code("mode", 4), Text("capture_device_id"), Text("render_device_id"),
    Many("endpoints", EndpointWritten),
    Text("asio_clsid"), Number("asio_rate"), Number("asio_block"),
    Many("asio_inputs", Numbers(<<"channel">>)), Many("asio_outputs", Numbers(<<"channel">>))>>

RuntimeRead(version) ==
  <<Code("mode", IF version >= 12 THEN 4 ELSE IF version >= 9 THEN 3 ELSE 2),
    Text("capture_device_id"), Text("render_device_id")>> \o
  Since(9, <<Many("endpoints",
    Texts(<<"endpoint_id", "device_id">>) \o <<Code("direction", 1), Flag("clock_master")>> \o
    Numbers(<<"first_channel", "channel_count">>))>>) \o
  Since(12, <<Text("asio_clsid"), Number("asio_rate"), Number("asio_block"),
    Many("asio_inputs", Numbers(<<"channel">>)), Many("asio_outputs", Numbers(<<"channel">>))>>)

CommandWritten ==
  <<Number("schema_version"), Text("command_id"), Code("type", 17)>> \o
  Texts(<<"command_endpoint", "command_label", "command_input", "command_output">>) \o
  <<Real("command_gain"), Flag("mute")>> \o
  PresetWritten \o RuntimeWritten \o
  <<Many("virtual_asio_devices", AsioDeviceWritten), ForEach("endpoints", ExtensionWritten)>>

CommandRead(version) ==
  <<Number("schema_version"), Text("command_id"),
    Code("type", IF version >= 11 THEN 17 ELSE 15)>> \o
  Texts(<<"command_endpoint", "command_label", "command_input", "command_output">>) \o
  <<Real("command_gain"), Flag("mute")>> \o
  PresetRead \o RuntimeRead(version) \o
  Since(11, <<Many("virtual_asio_devices", AsioDeviceRead)>>) \o
  Since(14, <<ForEach("endpoints", ExtensionRead)>>)

EndpointDiagnosticsWritten ==
  <<Text("endpoint"), Code("role", 1)>> \o DiagnosticsWritten \o
  <<If("has_recovery", RecoveryWritten), If("has_queue_fill", Numbers(<<"queue_fill">>)),
    If("has_correction", Reals(<<"correction_ppm">>))>>

EndpointDiagnosticsRead ==
  <<Text("endpoint"), Code("role", 1)>> \o DiagnosticsRead \o
  <<If("has_recovery", RecoveryRead), If("has_queue_fill", Numbers(<<"queue_fill">>)),
    If("has_correction", Reals(<<"correction_ppm">>))>>

ResponseWritten ==
  <<Text("command_id"), Code("status", 1), Many("errors", Texts(<<"code", "message">>)),
    If("has_preset", PresetWritten),
    If("has_diagnostics", DiagnosticsWritten \o
       <<If("has_wasapi_recovery", RecoveryWritten),
         Many("endpoint_diagnostics", EndpointDiagnosticsWritten)>>),
    If("has_devices", <<Many("devices", DeviceWritten)>>),
    Number("next_graph_version"), Flag("has_session_state"),
    If("has_active_graph",
       Numbers(<<"active_version", "active_rate", "active_channels", "active_frames">>) \o
       <<Many("active_nodes", Texts(<<"id", "label">>))>>),
    If("has_runtime", Flags(<<"installed", "running">>) \o
       <<Number("runtime_version"), Flag("configured")>> \o RuntimeWritten),
    If("has_virtual_asio_devices", <<Many("virtual_asio_devices", AsioDeviceWritten)>>),
    ForEach("endpoints", ExtensionWritten)>>

ResponseRead(version) ==
  <<Text("command_id"), Code("status", 1), Many("errors", Texts(<<"code", "message">>)),
    If("has_preset", PresetRead),
    If("has_diagnostics", DiagnosticsRead \o
       <<If("has_wasapi_recovery", RecoveryRead)>> \o
       Since(10, <<Many("endpoint_diagnostics", EndpointDiagnosticsRead)>>)),
    If("has_devices", <<Many("devices", DeviceRead)>>),
    Number("next_graph_version"), Flag("has_session_state"),
    If("has_active_graph",
       Numbers(<<"active_version", "active_rate", "active_channels", "active_frames">>) \o
       <<Many("active_nodes", Texts(<<"id", "label">>))>>),
    If("has_runtime", Flags(<<"installed", "running">>) \o
       <<Number("runtime_version"), Flag("configured")>> \o RuntimeRead(version))>> \o
  Since(11, <<If("has_virtual_asio_devices",
                 <<Many("virtual_asio_devices", AsioDeviceRead)>>)>>) \o
  Since(14, <<ForEach("endpoints", ExtensionRead)>>)

-----------------------------------------------------------------------------
(* virtual_asio_broker_protocol.cpp                                         *)

BrokerFormat == Numbers(<<"sample_rate", "frames", "inputs", "outputs">>)
BrokerError == <<Flag("accepted"), Text("error_code"), Text("error_message")>>
ObjectNames ==
  <<"mapping", "input_event", "output_event", "shutdown_event", "client_disconnect_event">>

BrokerWritten ==
  [connect |-> <<Text("client_id")>> \o BrokerFormat \o
               Numbers(<<"queue_capacity", "client_nonce_low", "client_nonce_high">>),
   disconnect |-> <<Text("client_id"), Number("generation")>>,
   format |-> <<>>,
   connect_reply |-> BrokerError \o <<Number("generation")>> \o Texts(ObjectNames) \o
                     Numbers(<<"server_nonce_low", "server_nonce_high">>),
   disconnect_reply |-> BrokerError,
   format_reply |-> BrokerError \o BrokerFormat]

BrokerRead ==
  [connect |-> <<Text("client_id")>> \o BrokerFormat \o
               Numbers(<<"queue_capacity", "client_nonce_low", "client_nonce_high">>),
   disconnect |-> <<Text("client_id"), Number("generation")>>,
   format |-> <<>>,
   connect_reply |-> BrokerError \o <<Number("generation")>> \o Texts(ObjectNames) \o
                     Numbers(<<"server_nonce_low", "server_nonce_high">>),
   disconnect_reply |-> BrokerError,
   format_reply |-> BrokerError \o BrokerFormat]

-----------------------------------------------------------------------------
(* session_file_codec.cpp                                                   *)

SessionWritten ==
  <<Number("schema_version"), Enclosed("preset"),
    Code("mode", 4), Text("capture_device_id"), Text("render_device_id"),
    UpTo(MaxEndpoints, "endpoints", EndpointWritten),
    Text("asio_clsid"), Number("asio_rate"), Number("asio_block"),
    UpTo(MaxChannels, "asio_inputs", Numbers(<<"channel">>)),
    UpTo(MaxChannels, "asio_outputs", Numbers(<<"channel">>)),
    Flag("auto_start"),
    UpTo(MaxDevices, "virtual_asio_devices", AsioDeviceWritten),
    ForEach("endpoints", ExtensionWritten)>>

SessionRead(version) ==
  <<[Code("schema_version", 2) EXCEPT !.least = 1], Enclosed("preset"),
    Code("mode", IF version >= 4 THEN 4 ELSE IF version = 1 THEN 2 ELSE 3),
    Text("capture_device_id"), Text("render_device_id")>> \o
  Since(2, <<UpTo(MaxEndpoints, "endpoints",
    Texts(<<"endpoint_id", "device_id">>) \o <<Code("direction", 1), Flag("clock_master")>> \o
    Numbers(<<"first_channel", "channel_count">>))>>) \o
  Since(4, <<Text("asio_clsid"), Number("asio_rate"), Number("asio_block"),
    UpTo(MaxChannels, "asio_inputs", Numbers(<<"channel">>)),
    UpTo(MaxChannels, "asio_outputs", Numbers(<<"channel">>))>>) \o
  <<Flag("auto_start")>> \o
  Since(3, <<[UpTo(MaxDevices, "virtual_asio_devices", AsioDeviceRead) EXCEPT !.least = 1]>>) \o
  Since(5, <<ForEach("endpoints", ExtensionRead)>>)

\* default_virtual_asio_device_definition()
DefaultDevice ==
  [device_id |-> <<1>>, clsid |-> <<1>>, registry_name |-> <<1>>, broker_token |-> <<1>>,
   input_channels |-> 2, output_channels |-> 2, enabled |-> 1]

-----------------------------------------------------------------------------
(* Kinds of messages.                                                      *)

WireKinds == {"command", "response"}
BrokerKinds == DOMAIN BrokerWritten
Kinds == WireKinds \cup BrokerKinds \cup {"session"}

Current(kind) == CASE kind \in WireKinds -> 14 [] kind = "session" -> 5 [] OTHER -> 2
Oldest(kind) == CASE kind \in WireKinds -> 8 [] kind = "session" -> 1 [] OTHER -> 2

Magic(kind) == CASE kind \in WireKinds -> 1 [] kind = "session" -> 2 [] OTHER -> 3

\* kCommandKind, kResponseKind; kConnectRequest and the others; reserved
Tag(kind) ==
  [command |-> 1, response |-> 2, connect |-> 1, disconnect |-> 2, connect_reply |-> 3,
   disconnect_reply |-> 4, format |-> 5, format_reply |-> 6, session |-> 0][kind]

MaxCells(kind) == IF kind = "session" THEN MaxFile ELSE MaxMessage

HeaderCells(kind) == IF kind \in BrokerKinds THEN 5 ELSE 4

Header(kind, version, length, doc) ==
  <<Magic(kind), version, Tag(kind), length>> \o
  (IF kind \in BrokerKinds THEN <<doc.request_id>> ELSE <<>>)

FieldsWritten(kind) ==
  CASE kind = "command" -> CommandWritten
    [] kind = "response" -> ResponseWritten
    [] kind = "session" -> SessionWritten
    [] OTHER -> BrokerWritten[kind]

FieldsRead(kind, version) ==
  CASE kind = "command" -> CommandRead(version)
    [] kind = "response" -> ResponseRead(version)
    [] kind = "session" -> SessionRead(version)
    [] OTHER -> BrokerRead[kind]

RECURSIVE Blank(_)

\* A reader that leaves the devices of an old session's file out.
FaultDefault(kind, field) == IF field.kind \in {"text", "many", "each"} THEN <<>> ELSE 0

\* What a field is that a document or a message does not have.
Default(kind, field) ==
  CASE kind = "session" /\ field.name = "virtual_asio_devices" -> <<DefaultDevice>>
    [] field.kind \in {"text", "many", "each"} -> <<>>
    [] OTHER -> 0
Defaults(field) == IF field.kind \in {"if", "each"} THEN Blank(field.fields) ELSE <<>>
Blank(fields) ==
  FoldLeft(LAMBDA doc, f : (f.name :> Default("", f)) @@ Defaults(f) @@ doc, <<>>, fields)

-----------------------------------------------------------------------------
(* Writers.                                                                *)

RECURSIVE Written(_, _)

\* One field of a document, as Writer::scalar, boolean, floating, string and
\* count, or append_integer and append_string, leave it in the message.
WrittenField(field, doc) ==
  LET value == doc[field.name]
      Each(docs) == FlattenSeq([i \in DOMAIN docs |-> Written(field.fields, docs[i])])
  IN  CASE field.kind \in {"number", "real", "flag", "code"} -> <<value>>
        [] field.kind \in {"text", "file"} -> <<Len(value)>> \o value
        [] field.kind = "if" ->
             <<value>> \o (IF value = 1 THEN Written(field.fields, doc) ELSE <<>>)
        [] field.kind \in {"many", "each"} -> <<Len(value)>> \o Each(value)

Written(fields, doc) == FlattenSeq([i \in DOMAIN fields |-> WrittenField(fields[i], doc)])

\* No text and no list is longer than what the writer may write.
RECURSIVE WithinLimits(_, _)

WithinLimits(fields, doc) ==
  \A i \in DOMAIN fields :
    LET field == fields[i]
        value == doc[field.name]
    IN  CASE field.kind = "text" -> Len(value) <= MaxText
          [] field.kind \in {"many", "each"} ->
               /\ field.kind = "many" => Len(value) <= field.limit
               /\ \A j \in DOMAIN value : WithinLimits(field.fields, value[j])
          [] field.kind = "if" -> value = 1 => WithinLimits(field.fields, doc)
          [] OTHER -> TRUE

Message(kind, version, fields, doc) ==
  LET payload == Written(fields, doc) IN Header(kind, version, Len(payload), doc) \o payload

\* preset_response(): of a response what it must have and the preset.
PresetResponse(preset) ==
  preset @@ ("has_preset" :> 1) @@ ("command_id" :> <<1>>) @@ Blank(ResponseWritten)

\* encode_control_command, encode_control_response ...: the message, or none
EncodeFields(kind, doc) ==
  LET message == Message(kind, Current(kind), FieldsWritten(kind), doc)
  IN  IF WithinLimits(FieldsWritten(kind), doc) /\ Len(message) <= MaxCells(kind)
        THEN message ELSE <<>>

EncodePreset(preset) == EncodeFields("response", PresetResponse(preset))

\* encode_session_file: first the preset file, then the rest about it.
EncodeSession(doc) ==
  LET file == EncodePreset(doc.preset)
  IN  IF doc.virtual_asio_devices = <<>> \/ file = <<>>
        THEN <<>> ELSE EncodeFields("session", [doc EXCEPT !.preset = file])

Encode(kind, doc) == IF kind = "session" THEN EncodeSession(doc) ELSE EncodeFields(kind, doc)

-----------------------------------------------------------------------------
(* Readers.  A reader stands at a cell of its message and has read a part  *)
(* of a document; once something is wrong it reads no more.                *)

Start(message, at) == [ok |-> TRUE, message |-> message, at |-> at, doc |-> <<>>]
Left(r) == Len(r.message) - r.at + 1
Fail(r) == [r EXCEPT !.ok = FALSE]
Cell(r) == r.message[r.at]

Got(r, name, value, size) ==
  [r EXCEPT !.doc = (name :> value) @@ @, !.at = @ + size]

Absent(r, kind, field) ==
  IF field.kind = "each"
    THEN [r EXCEPT !.doc[field.name] = [i \in DOMAIN @ |-> @[i] @@ Defaults(field)]]
    ELSE [r EXCEPT !.doc = (field.name :> Default(kind, field)) @@ Defaults(field) @@ @]

RECURSIVE ReadFields(_, _, _, _)
RECURSIVE DecodePreset(_)

\* A list of count elements, each read after the one before it.
ReadElements(r, kind, version, field, docs) ==
  FoldLeft(LAMBDA s, base :
             LET element == ReadFields([s EXCEPT !.doc = base], kind, version, field.fields)
             IN  [element EXCEPT !.doc = Append(s.doc, element.doc)],
           [r EXCEPT !.doc = <<>>], docs)

\* A reader that takes the number of extensions for granted.
FaultReadList(r, kind, version, field) ==
  LET count == Cell(r)
      bases == IF field.kind = "each" THEN r.doc[field.name] ELSE [i \in 1..count |-> <<>>]
      list == ReadElements([r EXCEPT !.at = @ + 1], kind, version, field, bases)
  IN  IF field.kind = "many" /\ (count > field.limit \/ count < field.least \/ count > Left(r) - 1)
        THEN Fail(r)
        ELSE [list EXCEPT !.doc = (field.name :> list.doc) @@ r.doc]

ReadList(r, kind, version, field) ==
  LET count == Cell(r)
      known == IF field.kind = "each" THEN r.doc[field.name] ELSE <<>>
      bases == IF field.kind = "each" THEN known ELSE [i \in 1..count |-> <<>>]
      list == ReadElements([r EXCEPT !.at = @ + 1], kind, version, field, bases)
  IN  IF \/ field.kind = "many" /\ (count > field.limit \/ count < field.least)
         \/ field.kind = "many" /\ count > Left(r) - 1
         \/ field.kind = "each" /\ count # Len(known)
        THEN Fail(r)
        ELSE [list EXCEPT !.doc = (field.name :> list.doc) @@ r.doc]

ReadText(r, field) ==
  LET length == Cell(r) IN
  IF length > MaxText \/ length > Left(r) - 1
    THEN Fail(r)
    ELSE Got(r, field.name, SubSeq(r.message, r.at + 1, r.at + length), length + 1)

\* A preset file: nothing of it is kept but the preset.
ReadFile(r, field) ==
  LET length == Cell(r)
      preset == DecodePreset(SubSeq(r.message, r.at + 1, r.at + length))
  IN  IF length <= Left(r) - 1 /\ preset.ok
        THEN Got(r, field.name, preset.doc, length + 1) ELSE Fail(r)

ReadGroup(r, kind, version, field) ==
  LET flagged == Got(r, field.name, Cell(r), 1) IN
  CASE Cell(r) > 1 -> Fail(r)
    [] Cell(r) = 1 -> ReadFields(flagged, kind, version, field.fields)
    [] OTHER -> [flagged EXCEPT !.doc = @ @@ Defaults(field)]

ReadField(r, kind, version, field) ==
  CASE ~r.ok -> r
    [] r.ok /\ field.since > version -> Absent(r, kind, field)
    [] r.ok /\ field.since <= version /\ Left(r) < 1 -> Fail(r)
    [] OTHER ->
         CASE field.kind = "number" -> Got(r, field.name, Cell(r), 1)
           [] field.kind = "real" ->
                IF Cell(r) = Bad THEN Fail(r) ELSE Got(r, field.name, Cell(r), 1)
           [] field.kind = "flag" ->
                IF Cell(r) > 1 THEN Fail(r) ELSE Got(r, field.name, Cell(r), 1)
           [] field.kind = "code" ->
                IF Cell(r) > field.limit \/ Cell(r) < field.least
                  THEN Fail(r) ELSE Got(r, field.name, Cell(r), 1)
           [] field.kind = "text" -> ReadText(r, field)
           [] field.kind = "file" -> ReadFile(r, field)
           [] field.kind = "if" -> ReadGroup(r, kind, version, field)
           [] field.kind \in {"many", "each"} -> ReadList(r, kind, version, field)

ReadFields(r, kind, version, fields) ==
  FoldLeft(LAMBDA s, field : ReadField(s, kind, version, field), r, fields)

HeaderIsRight(kind, message) ==
  /\ Len(message) <= MaxCells(kind)
  /\ Len(message) >= HeaderCells(kind)
  /\ message[1] = Magic(kind)
  /\ message[2] \in Oldest(kind)..Current(kind)
  /\ message[3] = Tag(kind)
  /\ message[4] = Len(message) - HeaderCells(kind)

\* A reader that has not read all of its message, or stopped too late, fails.
Whole(r) == IF Left(r) = 0 THEN r ELSE Fail(r)

\* decode_session_file: an older file's schema number is not kept.
SchemaCorrected(kind, r) ==
  IF kind = "session" /\ r.ok THEN [r EXCEPT !.doc.schema_version = 2] ELSE r

ReaderAt(kind, message) ==
  LET start == Start(message, HeaderCells(kind) + 1)
  IN  IF kind \in BrokerKinds THEN Got(start, "request_id", message[5], 0) ELSE start

\* decode_control_command, decode_session_file ...: what the message says
Decode(kind, message) ==
  IF HeaderIsRight(kind, message)
    THEN SchemaCorrected(kind, Whole(
           ReadFields(ReaderAt(kind, message), kind, message[2], FieldsRead(kind, message[2]))))
    ELSE Fail(Start(message, 1))

\* decode_preset_file: of an accepted response with a preset, whatever else it has,
\* the preset
HasPreset(r) == r.ok /\ r.doc.status = 0 /\ r.doc.has_preset = 1
PresetOf(response) == Restrict(response, {PresetRead[i].name : i \in DOMAIN PresetRead})

DecodePreset(message) ==
  LET r == Decode("response", message)
  IN  IF HasPreset(r) THEN [r EXCEPT !.doc = PresetOf(@)] ELSE Fail(r)

-----------------------------------------------------------------------------
(* Programs of other releases.                                             *)

\* The version that added a field: every release wrote the fields of its time.
AddedIn(kind, field) ==
  LET Of(history) == IF field \in DOMAIN history THEN history[field] ELSE 0
      asio(v) == [f \in {"asio_clsid", "asio_rate", "asio_block",
                         "asio_inputs", "asio_outputs"} |-> v]
  IN  CASE kind = "session" ->
             Of([endpoints |-> 2, virtual_asio_devices |-> 3, extensions |-> 5] @@ asio(4))
        [] kind \in WireKinds ->
             Of([endpoints |-> 9, endpoint_diagnostics |-> 10, virtual_asio_devices |-> 11,
                 has_virtual_asio_devices |-> 11, device_inputs |-> 13,
                 device_outputs |-> 13, extensions |-> 14] @@ asio(12))
        [] OTHER -> 0

\* The last value of a code in that version.
LastCode(kind, version, field) ==
  CASE field.kind = "code" /\ field.name = "mode" /\ kind = "session" ->
         IF version >= 4 THEN 4 ELSE IF version >= 2 THEN 3 ELSE 2
    [] field.kind = "code" /\ field.name = "mode" /\ kind # "session" ->
         IF version >= 12 THEN 4 ELSE IF version >= 9 THEN 3 ELSE 2
    [] field.kind = "code" /\ field.name = "type" -> IF version >= 11 THEN 17 ELSE 15
    [] OTHER -> field.limit

RECURSIVE FieldsOf(_, _, _)

FieldsOf(kind, version, fields) ==
  LET known == SelectSeq(fields, LAMBDA f :
                 AddedIn(kind, IF f.kind = "each" THEN "extensions" ELSE f.name) <= version)
  IN  [i \in DOMAIN known |->
         [known[i] EXCEPT !.fields = FieldsOf(kind, version, known[i].fields),
                          !.limit = LastCode(kind, version, known[i])]]

\* The message a program of that version wrote, the preset file in it made before.
WrittenIn(kind, version, doc) ==
  Message(kind, version, FieldsOf(kind, version, FieldsWritten(kind)), doc)

\* A session held a preset file of the control wire's version then.
Sent(kind, version, wire, doc) ==
  WrittenIn(kind, version,
            IF kind = "session"
              THEN [doc EXCEPT !.preset = WrittenIn("response", wire, PresetResponse(@))]
              ELSE doc)

-----------------------------------------------------------------------------
(* A letter is sent, and may lose, gain or change a cell on its way.       *)

Init ==
  /\ letter \in Letters
  /\ cells = Sent(letter.kind, letter.version, letter.wire, letter.doc)
  /\ damaged = FALSE

Change(at, value) == cells' = [cells EXCEPT ![at] = value]
Lose(at) == cells' = RemoveAt(cells, at)
Gain(at, value) == cells' = InsertAt(cells, at, value)

\* The length in the header may have been written with the damage done.
Lengthen(at, value) ==
  cells' = [InsertAt(cells, at, value) EXCEPT ![4] = @ + 1]
Shorten(at) ==
  cells' = [RemoveAt(cells, at) EXCEPT ![4] = @ - 1]

Damage ==
  /\ letter \in Fragile /\ ~damaged
  /\ damaged' = TRUE
  /\ \E at \in DOMAIN cells :
       \/ Lose(at)
       \/ at > 4 /\ Shorten(at)
       \/ \E value \in Values : Change(at, value) \/ Gain(at, value)
       \/ \E value \in Values : at > 4 /\ Lengthen(at, value)
  /\ UNCHANGED letter

Spec == Init /\ [][Damage]_vars

Received == Decode(letter.kind, cells)

-----------------------------------------------------------------------------
(* Properties.                                                             *)

\* A message or file of any release that has not been changed is read, up to the last
\* element of the longest text and list, the last value of every code and the longest
\* message there may be (control_wire_protocol_smoke.cpp, session_file_codec_smoke.cpp).
EveryReleaseIsRead == ~damaged => Received.ok

\* What is read from a message, damaged or not, is what a program of its version would
\* have written as this message: no two messages of a version mean the same. A session
\* file is read as its preset file is, of which the preset alone is kept; its
\* schema number is corrected. Files that differ in these only are read as one session.
MessageSaysWhatIsRead ==
  LET doc == Received.doc
      file == SubSeq(cells, 7, 6 + cells[6])
      response == Decode("response", file).doc
      session == [doc EXCEPT !.schema_version = cells[5], !.preset = file]
  IN  Received.ok =>
        IF letter.kind = "session"
          THEN /\ WrittenIn("session", cells[2], session) = cells
               /\ WrittenIn("response", file[2], response) = file
               /\ doc.preset = PresetOf(response)
          ELSE WrittenIn(letter.kind, cells[2], doc) = cells

\* The message has another length than what this release writes for it: it is of an
\* older version, or its preset file is not one of this release.
FromElsewhere(doc) ==
  \/ cells[2] < Current(letter.kind)
  \/ letter.kind = "session" /\ SubSeq(cells, 7, 6 + cells[6]) # EncodePreset(doc.preset)

\* What was read can be written again by this release, the preset file in it converted
\* with it, and is then read as the same document. Only a message from elsewhere can be
\* too long for that, since later versions add fields.
RewritingKeepsDocument ==
  LET doc == Received.doc
      again == Encode(letter.kind, doc)
      TooLong == Len(Sent(letter.kind, Current(letter.kind), Current("response"), doc)) >
                 MaxCells(letter.kind)
  IN  Received.ok =>
        IF again # <<>>
          THEN Decode(letter.kind, again).ok /\ Decode(letter.kind, again).doc = doc
          ELSE FromElsewhere(doc) /\ TooLong
=============================================================================
