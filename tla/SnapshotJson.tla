---------------------------- MODULE SnapshotJson ----------------------------
(***************************************************************************)
(* snapshot_to_json and the lines of a session.  A text is the sequence of *)
(* calls that writes it; a snapshot is a record: cores, clusters and       *)
(* gpuPids count list entries, processes have a command, a sequence of     *)
(* characters.                                                             *)
(***************************************************************************)
EXTENDS JsonWriter

Begins(kind) == <<[call |-> "begin", kind |-> kind]>>

Ends(kind) == <<[call |-> "end", kind |-> kind]>>

Value == <<[call |-> "scalar"]>>

Text(chars) == <<[call |-> "string", text |-> chars]>>

Member(name, calls) == <<[call |-> "key", name |-> name]>> \o calls

Object(calls) == Begins("object") \o calls \o Ends("object")

Array(items) == Begins("array") \o FlattenSeq(items) \o Ends("array")

\* A member of each name with a value of the program's own.
Values(names) == FlattenSeq([i \in DOMAIN names |-> Member(names[i], Value)])

Repeat(n, calls) == [i \in 1..n |-> calls]

Status == Object(Values(<<"availability", "reason", "age_ms">>))

WriteCpu(s) ==
  LET core == Object(Values(<<"cpu_id", "cluster_type", "label", "utilization_percent">>))
      cluster == Object(Values(
        <<"name", "label", "core_count", "utilization_percent", "frequency_mhz",
          "frequency_available", "power_watts", "power_available">>))
  IN Member("cpu", Object(
       Member("per_core_utilization", Array(Repeat(s.cores, core)))
         \o Member("cluster_summary", Array(Repeat(s.clusters, cluster)))))

WriteMemory ==
  Member("memory", Object(
    Values(<<"total_bytes", "used_bytes", "wired_bytes", "active_bytes", "inactive_bytes",
             "compressed_bytes", "purgeable_bytes", "speculative_bytes", "swap_total_bytes",
             "swap_used_bytes", "swapins_bytes_per_sec", "swapouts_bytes_per_sec",
             "pressure_level">>)
      \o Member("pressure_status", Status)))

WriteGpu(s) ==
  Member("gpu", Object(
    Values(<<"utilization_percent", "memory_used_bytes", "memory_total_bytes",
             "power_watts", "frequency_mhz">>)
      \o Member("active_pids", Array(Repeat(s.gpuPids, Value)))
      \o Member("status", Status)))

WriteIo ==
  LET Rates(name, fields) == Member(name, Object(Values(fields) \o Member("status", Status)))
  IN Member("io", Object(
       Rates("disk", <<"read_bytes_per_sec", "write_bytes_per_sec">>)
         \o Rates("paging", <<"pageins_bytes_per_sec", "pageouts_bytes_per_sec",
                              "swapins_bytes_per_sec", "swapouts_bytes_per_sec">>)
         \o Rates("network", <<"rx_bytes_per_sec", "tx_bytes_per_sec">>)))

WriteRisk ==
  Member("memory_risk", Object(Values(
    <<"level", "reason", "estimated_headroom_bytes", "reclaimable_bytes", "compressed_bytes",
      "swap_used_bytes", "swap_rate_bytes_per_sec">>)))

\* A workload is the sequence of its processes' commands.
WriteWorkloads(list) ==
  LET Process(command) ==
        Object(Values(<<"pid", "ppid", "role", "detection_confidence">>)
                 \o Member("command", Text(command)))
      Workload(commands) ==
        Object(Values(<<"id", "name", "kind", "kind_label", "model_hint", "cpu_percent",
                        "memory_percent", "resident_bytes", "virtual_bytes", "gpu_active",
                        "core_mix", "io", "power">>)
                 \o Member("detection_status", Status)
                 \o Member("processes",
                           Array([i \in DOMAIN commands |-> Process(commands[i])])))
  IN Member("workloads", Array([i \in DOMAIN list |-> Workload(list[i])]))

WriteProcesses(s) ==
  LET Process(p) ==
        Object(Values(<<"pid", "ppid", "name">>)
                 \o Member("command", Text(p.command))
                 \o Values(<<"user", "state", "cpu_percent", "memory_percent",
                             "resident_bytes", "virtual_bytes", "gpu_active", "core_mix",
                             "io", "power">>))
  IN Member("processes", Array([i \in DOMAIN s.processes |-> Process(s.processes[i])]))

WriteHost ==
  Member("host", Object(Values(
    <<"macos_version", "soc_name", "cpu_core_count", "gpu_core_count", "memory_total_bytes">>)))

WriteCapabilities ==
  LET statuses == <<"gpu_total_status", "gpu_process_status", "thermal_status", "ane_status",
                    "root_process_status">>
  IN Member("capabilities", Object(
       Values(<<"root_mode">>)
         \o FlattenSeq([i \in DOMAIN statuses |-> Member(statuses[i], Status)])))

\* snapshot_to_json with the models of version 2.
SnapshotCalls(s, list) ==
  Object(Values(<<"schema_version", "view_profile", "timestamp_unix_ms", "sample_interval_ms">>)
           \o WriteHost \o WriteCapabilities \o WriteCpu(s) \o WriteMemory \o WriteGpu(s)
           \o Member("ane", Object(Values(<<"summary">>) \o Member("status", Status)))
           \o WriteIo \o WriteProcesses(s) \o WriteWorkloads(list) \o WriteRisk)

Perform(w, c) ==
  CASE c.call = "begin" -> Begin(w, c.kind)
    [] c.call = "end" -> End(w, c.kind)
    [] c.call = "key" -> Key(w, c.name)
    [] c.call = "scalar" -> Scalar(w)
    [] c.call = "string" -> String(w, c.text)

\* The calls one after the other.
Performed(w, calls) ==
  LET Run[n \in 0..Len(calls)] ==
        IF n = 0 THEN w
        ELSE CHOOSE x \in {Perform(v, calls[n]) : v \in {Run[n - 1]}} : TRUE
  IN Run[Len(calls)]

\* The same, sixteen at a time: TLC cannot follow as many calls as there are.
Written(w, calls) ==
  LET whole == Len(calls) \div 16
      Piece(n) == SubSeq(calls, 16 * n + 1, IF n < whole THEN 16 * n + 16 ELSE Len(calls))
      Run[n \in 0..whole] ==
        CHOOSE x \in {Performed(v, Piece(n)) : v \in {IF n = 0 THEN w ELSE Run[n - 1]}} : TRUE
  IN Run[whole]

SnapshotText(before, s, list) ==
  Written(NewWriter(before), SnapshotCalls(s, list)).reader

-----------------------------------------------------------------------------
(***************************************************************************)
(* The lines of a session are put together as strings.                     *)
(***************************************************************************)

\* "name":value, after a comma unless it is the first.
Pair(r, name) == ReadScalar(ReadKey(IF Top(r).phase = "fresh" THEN r ELSE ReadComma(r), name))

\* {"event":...,"schema_version":2
EventStart == Pair(Pair(ReadOpen(NewReader, "object"), "event"), "schema_version")

SessionStartLine(label) ==
  LET r == ReadKey(ReadComma(Pair(EventStart, "session_id")), "label")
  IN ReadClose(Pair(ReadString(r, JsonEscape(label)), "started_unix_ms"), "object")

SessionSnapshotLine(s, list) ==
  ReadClose(SnapshotText(ReadKey(ReadComma(EventStart), "snapshot"), s, list), "object")

SessionEndLine ==
  ReadClose(Pair(Pair(Pair(EventStart, "session_id"), "ended_unix_ms"), "duration_ms"), "object")
=============================================================================
