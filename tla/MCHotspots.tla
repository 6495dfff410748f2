------------------------------ MODULE MCHotspots ------------------------------
(***************************************************************************)
(* The way of the SPE samples: how process_samples_locked gets at the      *)
(* packets (PerfRing), what it makes of them (SpeSamples), and what        *)
(* becomes of the samples (Hotspots).  The three share no variable, so a   *)
(* behaviour takes one of them: all that their product would add is states *)
(* that no property tells apart.                                           *)
(*                                                                         *)
(* PerfRing: a data ring with room for an AUX record and another one, an   *)
(* AUX ring of three bytes, and enough records and packets to go around    *)
(* both of them more than once.                                            *)
(* SpeSamples: records with and without each kind of packet, with          *)
(* latencies for which the execution latency is and is not defined.        *)
(* Hotspots: two threads, a main binary with two executable mappings and a *)
(* library between them, which is replaced by another one later, when a    *)
(* change of its protection has also split the second mapping of the       *)
(* binary; the second run maps the binary elsewhere and the library first. *)
(* Addresses are small numbers.                                            *)
(***************************************************************************)
EXTENDS Hotspots, SpeSamples, PerfRing

VARIABLE part  \* the module that this behaviour is about

TidSymmetry == Permutations(Tids)

Map(path, start, end, offset) ==
    [path |-> path, vm_start |-> start, vm_end |-> end, file_offset |-> offset]

MCLayouts ==
    <<<<Map("main", 10, 12, 0), Map("lib", 12, 14, 2), Map("main", 14, 16, 4)>>,
      <<Map("main", 10, 12, 0), Map("plugin", 12, 13, 0), Map("main", 14, 15, 4),
        Map("main", 15, 16, 5), Map("plugin", 30, 32, 4)>>>>
MCReloc == <<Map("lib", 40, 42, 2), Map("main", 50, 52, 0), Map("main", 54, 56, 4)>>
MCPcs == {0, 11, 14, 15, 30}
MCSamples == {[total |-> -1, exec |-> -1], [total |-> 3, exec |-> -1], [total |-> 3, exec |-> 1]}

MCRecords ==
    {[pc |-> 1, data_va |-> va, lat_total |-> total, lat_issue |-> issue,
      lat_xlat |-> issue, event_bits |-> None] :
        va \in {None, 1, 2}, total \in {None, 1, 3}, issue \in {None, 1}}
    \cup {[Empty EXCEPT !.pc = 2, !.lat_total = 1, !.lat_xlat = 1],
          [Empty EXCEPT !.pc = 2, !.event_bits = 1],
          [Empty EXCEPT !.data_va = 1, !.event_bits = 2]}

MCInit ==
    /\ Init /\ SpeInit /\ RingInit
    /\ part \in {"ring", "decoder", "hotspots"}

MCNext ==
    /\ UNCHANGED part
    /\ \/ part = "ring" /\ RingNext /\ UNCHANGED <<vars, speVars>>
       \/ part = "decoder" /\ SpeNext /\ UNCHANGED <<vars, ringVars>>
       \/ part = "hotspots" /\ Next /\ UNCHANGED <<speVars, ringVars>>

MCSpec == MCInit /\ [][MCNext]_<<vars, speVars, ringVars, part>>

===============================================================================
