---------------------------- MODULE MCVirtioPci ----------------------------
(* Constants for model-checking VirtioPci.                                 *)
EXTENDS VirtioPci

MCSlots == {64, 80, 96, 112}
MCBars == {0, 1}

Structure(t, b, o, l) == [type |-> t, bar |-> b, offset |-> o, length |-> l]
Common == Structure(COMMON, 0, 0, 56)
Interrupt == [kind |-> "interrupt", bar |-> NoBar, len |-> 0]
Memory(l) == [kind |-> "memory", bar |-> 0, len |-> l]
Unknown == [kind |-> "memory", bar |-> NoBar, len |-> 4096]
Port(k) == [kind |-> k, bar |-> 1, len |-> 64]

(* Any list of three capabilities, vendor specific ones among them that are   *)
(* usable, that name a BAR without resource, and a type beyond the table, and *)
(* of a fourth behind them; the list may end, go on unaligned or in circles.  *)
Entries ==
    {<<VENDOR, Common>>, <<VENDOR, Structure(COMMON, 1, 0, 56)>>,
     <<VENDOR, Structure(PCI, 0, 0, 56)>>, <<5, Common>>, <<NoCapability, Common>>}
Nexts(s) == {60, 64} \cup IF s = 96 THEN {96, 112} ELSE {81, 96}
Lists ==
    {[first |-> 83,
      caps |-> [s \in MCSlots |->
                  IF s = 112 THEN [id |-> VENDOR, next |-> 0, what |-> Common]
                  ELSE [id |-> k[s][1], what |-> k[s][2], next |-> n[s]]],
      resources |-> <<Memory(8192), Interrupt>>, multiplier |-> 4, notifyOff |-> <<0, 1>>] :
        k \in [{64, 80, 96} -> Entries],
        n \in {f \in [{64, 80, 96} -> {60, 64, 81, 96, 112}] : \A s \in {64, 80, 96} : f[s] \in Nexts(s)}}

(* A list with each structure once, at different places of different BARs.    *)
Geometries ==
    {[first |-> 64,
      caps |-> [s \in MCSlots |->
                  CASE s = 64 -> [id |-> VENDOR, next |-> 80, what |-> c]
                    [] s = 80 -> [id |-> VENDOR, next |-> 96, what |-> i]
                    [] s = 96 -> [id |-> VENDOR, next |-> 112, what |-> n]
                    [] s = 112 -> [id |-> VENDOR, next |-> 0, what |-> d]],
      resources |-> r, multiplier |-> m[1], notifyOff |-> m[2]] :
        c \in {Common, Structure(COMMON, 0, 2, 56), Structure(COMMON, 0, 8160, 56)},
        i \in {Structure(ISR, 0, 60, 1), Structure(ISR, 1, 63, 1)},
        n \in {Structure(NOTIFY, 0, 1024, 4096), Structure(NOTIFY, 0, 4096, 4096),
               Structure(NOTIFY, 0, 4096, 5), Structure(NOTIFY, 0, 8188, 4)},
        d \in {Structure(DEVICE, 0, 2048, 16), Structure(DEVICE, 0, 8184, 16),
               Structure(DEVICE, 0, 8192, 16), Structure(PCI, 0, 0, 0)},
        m \in {<<4, <<0, 1>>>>, <<0, <<0, 1>>>>, <<32768, <<0, 2>>>>},
        r \in {<<Memory(8192), Port("port"), Interrupt>>,
               <<Port("mappedport"), Interrupt, Memory(8192)>>,
               <<Memory(8192), Unknown, Interrupt>>, <<Memory(8192)>>}}

MCDevices == Lists \cup Geometries
MCGarbage == {Structure(COMMON, 0, 8190, 64), Structure(ISR, 2, 0, 65535)}
=============================================================================
