----------------------------- MODULE ConfigDrive -----------------------------
(***************************************************************************)
(* What becomes of the port of a controller: the files of the              *)
(* configuration drive (src/msc_disk.c), the command "forget" of the       *)
(* serial console (src/picoboot.c) and the controllers that connect on     *)
(* core 1 (src/my_platform.c) around one table of profiles.                *)
(*                                                                         *)
(* A call of controller_config.c is one step here, as ProfileMap describes *)
(* it and ProfileStore implements it; what its callers do with the result  *)
(* is another step, and between the two the others run.  The drive stands  *)
(* for whichever core runs the USB stack: one that prints to the console   *)
(* runs it too (src/usb_cdc_stdio.c), but the host waits for the end of    *)
(* one write before it sends the next.                                     *)
(***************************************************************************)
EXTENDS Integers, FiniteSets

CONSTANTS
  Macs,             \* Bluetooth addresses
  NumPorts,         \* 4
  MAX_SLOTS,        \* CONTROLLER_CONFIG_MAX_SLOTS: 32
  NumFiles,         \* files of the drive, MAX_FILES: 16
  Named, Unnamed,   \* model names, see ProfileStore
  NoProfile, NoMac

ASSUME DriveAssumption ==
  /\ NumPorts \in Nat \ {0} /\ MAX_SLOTS \in Nat /\ NumFiles \in Nat
  /\ NoMac \notin Macs /\ Named # Unnamed
  /\ NoProfile \notin [mac : Macs, model_name : {Named, Unnamed}, gc_port : Nat]

Ports == 0 .. NumPorts - 1
NoPort == -1
Profile == [mac : Macs, model_name : {Named, Unnamed}, gc_port : Ports]

VARIABLES
  profiles,  \* the profiles in the flash
  shown,     \* s_files: the profile each file shows, for those listed at boot
  drive,     \* tud_msc_write10_cb: where it is, and its copy of the profile
  ready,     \* my_platform_on_device_ready, likewise
  player,    \* _players: whether a controller is connected, and its port
  decided,   \* history: the port of a controller that was stored last
  since,     \* history: the controllers that connected after that
  behind,    \* history: the files whose profile was replaced behind their back
  outdated   \* history: the copy in ready is older than what was stored since

vars == <<profiles, shown, drive, ready, player, decided, since, behind, outdated>>

Store == INSTANCE ProfileMap WITH
  Names <- {Named, Unnamed}, Capacity <- MAX_SLOTS

Idle == [pc |-> "idle", rec |-> NoProfile]
Gone == [state |-> "gone", gc_port |-> NoPort]

Init ==
  /\ profiles = [m \in Macs |-> NoProfile]
  /\ shown = [m \in Macs |-> NoProfile]
  /\ drive = Idle
  /\ ready = Idle
  /\ player = [m \in Macs |-> Gone]
  /\ decided = [m \in Macs |-> NoPort]
  /\ since = {}
  /\ behind = {}
  /\ outdated = FALSE

-----------------------------------------------------------------------------
(* The calls of the store, each with what it returned.                      *)

FreePort_Past ==
  CHOOSE p \in 0 .. NumPorts : p \notin Store!PortsInUse /\ \A q \in 0 .. p - 1 : q \in Store!PortsInUse
FreePort ==
  IF Ports \subseteq Store!PortsInUse THEN 0
  ELSE CHOOSE p \in Ports \ Store!PortsInUse : \A q \in Ports \ Store!PortsInUse : p <= q

\* The profile there is, or a new one on the next free port; without room for it,
\* or when the other core cannot be paused for the write, one that is not stored.
Found(m, n) ==
  IF m \in Store!Stored THEN profiles[m]
  ELSE [mac |-> m, model_name |-> n, gc_port |-> FreePort]

Get(m, n, ok) ==
  \/ m \in Store!Stored /\ ok /\ UNCHANGED profiles
  \/ Store!Create(m) /\ ok /\ profiles'[m] = Found(m, n)
  \/ m \notin Store!Stored /\ ~ok /\ UNCHANGED profiles

\* What is saved replaces what is stored for its address.
Save(p, ok) ==
  \/ /\ p.mac \in Store!Stored /\ ok
     /\ profiles' = [profiles EXCEPT ![p.mac] = p]
  \/ ~ok /\ UNCHANGED profiles

Decide(m, port) ==
  /\ decided' = [decided EXCEPT ![m] = port]
  /\ since' = since \ {m}

Outdates(m) == outdated' = (outdated \/ (ready.pc = "save" /\ ready.rec.mac = m))

-----------------------------------------------------------------------------
(* The configuration drive.                                                 *)

\* A file that was listed at boot is written, whole, with any port in it or with
\* none that counts.  Other writes, to the FAT, the directory or without a port,
\* are accepted and forgotten.
tud_msc_write10_cb(m) ==
  /\ drive = Idle
  /\ shown[m] # NoProfile
  /\ \E port \in Ports, ok \in BOOLEAN :
       /\ Get(m, Unnamed, ok)
       /\ drive' = IF ok THEN [pc |-> "save", rec |-> [Found(m, Unnamed) EXCEPT !.gc_port = port]]
                         ELSE Idle
  /\ UNCHANGED <<shown, ready, player, decided, since, behind, outdated>>

\* What was saved is printed before it is shown.
AfterSave_ShowsAnyway(ok) == [drive EXCEPT !.pc = "refresh"]
AfterSave(ok) == IF ok THEN [drive EXCEPT !.pc = "refresh"] ELSE Idle

SaveEdit ==
  /\ drive.pc = "save"
  /\ \E ok \in BOOLEAN :
       /\ Save(drive.rec, ok)
       /\ drive' = AfterSave(ok)
       /\ IF ok THEN /\ Decide(drive.rec.mac, drive.rec.gc_port)
                     /\ behind' = behind \ {drive.rec.mac}
                     /\ Outdates(drive.rec.mac)
                ELSE UNCHANGED <<decided, since, behind, outdated>>
  /\ UNCHANGED <<shown, ready, player>>

refresh_file_content ==
  /\ drive.pc = "refresh"
  /\ shown' = [shown EXCEPT ![drive.rec.mac] = drive.rec]
  /\ drive' = Idle
  /\ UNCHANGED <<profiles, ready, player, decided, since, behind, outdated>>

-----------------------------------------------------------------------------
(* The serial console.                                                      *)

\* "forget" goes by the end of the address; any profile may be the one it finds.
Forget(m) ==
  /\ Store!Remove(m)
  /\ Decide(m, NoPort)
  /\ behind' = behind \cup {m}
  /\ Outdates(m)
  /\ UNCHANGED <<shown, drive, ready, player>>

-----------------------------------------------------------------------------
(* Core 1, one callback at a time.                                          *)

my_platform_on_device_connected(m) ==
  /\ ready = Idle
  /\ player[m] = Gone
  /\ \E n \in {Named, Unnamed}, ok \in BOOLEAN :
       LET port == Found(m, n).gc_port
       IN /\ Get(m, n, ok)
          /\ player' = [player EXCEPT ![m] = [state |-> "connected", gc_port |-> port]]
          /\ decided' = [decided EXCEPT ![m] = IF ok THEN port ELSE NoPort]
          /\ since' = IF ok THEN since \cup {m} ELSE since \ {m}
  /\ UNCHANGED <<shown, drive, ready, behind, outdated>>

\* The name is known now.  A profile without one gets it.
Renamed_FromDefaults(p) == [p EXCEPT !.model_name = Named, !.gc_port = 0]
Renamed(p) == [p EXCEPT !.model_name = Named]

my_platform_on_device_ready(m) ==
  /\ ready = Idle
  /\ player[m].state = "connected"
  /\ player' = [player EXCEPT ![m].state = "ready"]
  /\ \E ok \in BOOLEAN :
       LET p == Found(m, Named)
       IN /\ Get(m, Named, ok)
          /\ ready' = IF ok /\ p.model_name = Unnamed THEN [pc |-> "save", rec |-> Renamed(p)] ELSE Idle
  /\ UNCHANGED <<shown, drive, decided, since, behind, outdated>>

\* The copy may be older than what another core stored in the meantime, which
\* is then lost, its port included.
SaveName ==
  /\ ready.pc = "save"
  /\ ready' = Idle
  /\ outdated' = FALSE
  /\ \E ok \in BOOLEAN :
       /\ Save(ready.rec, ok)
       /\ IF ok /\ outdated THEN /\ Decide(ready.rec.mac, NoPort)
                                /\ behind' = behind \cup {ready.rec.mac}
                           ELSE UNCHANGED <<decided, since, behind>>
  /\ UNCHANGED <<shown, drive, player>>

my_platform_on_device_disconnected(m) ==
  /\ ready = Idle
  /\ player[m] # Gone
  /\ player' = [player EXCEPT ![m] = Gone]
  /\ UNCHANGED <<profiles, shown, drive, ready, decided, since, behind, outdated>>

-----------------------------------------------------------------------------
\* The power is cut and comes back: a profile that is being written may be lost.
\* msc_disk_init then lists what is stored, up to the number of files.
Writing == {a.rec.mac : a \in {b \in {drive, ready} : b.pc = "save"}}

PowerCut ==
  /\ \E lost \in {NoMac} \cup (Writing \cap Store!Stored) :
       /\ profiles' = [m \in Macs |-> IF m = lost THEN NoProfile ELSE profiles[m]]
       /\ decided' = [m \in Macs |-> IF m = lost THEN NoPort ELSE decided[m]]
  /\ \E listed \in SUBSET Store!Stored' :
       /\ Cardinality(listed) = NumFiles \/ listed = Store!Stored'
       /\ Cardinality(listed) <= NumFiles
       /\ shown' = [m \in Macs |-> IF m \in listed THEN profiles'[m] ELSE NoProfile]
  /\ drive' = Idle
  /\ ready' = Idle
  /\ player' = [m \in Macs |-> Gone]
  /\ since' = {}
  /\ behind' = {}
  /\ outdated' = FALSE

Next ==
  \/ SaveEdit \/ refresh_file_content \/ SaveName \/ PowerCut
  \/ \E m \in Macs :
       \/ tud_msc_write10_cb(m)
       \/ Forget(m)
       \/ my_platform_on_device_connected(m)
       \/ my_platform_on_device_ready(m)
       \/ my_platform_on_device_disconnected(m)

Spec == Init /\ [][Next]_vars

-----------------------------------------------------------------------------
TypeOK ==
  /\ profiles \in [Macs -> Profile \cup {NoProfile}]
  /\ shown \in [Macs -> Profile \cup {NoProfile}]
  /\ drive \in [pc : {"idle", "save", "refresh"}, rec : Profile \cup {NoProfile}]
  /\ ready \in [pc : {"idle", "save"}, rec : Profile \cup {NoProfile}]
  /\ player \in [Macs -> [state : {"gone", "connected", "ready"}, gc_port : Ports \cup {NoPort}]]
  /\ decided \in [Macs -> Ports \cup {NoPort}]
  /\ since \subseteq Macs /\ behind \subseteq Macs /\ outdated \in BOOLEAN

\* A port that was stored, with an edit that was reported as saved or with the
\* connection of a controller, is what the flash holds and what the controller
\* drives from its next connection on, through power cuts, refused writes, other
\* edits and the correction of its name (msc_disk.c:4-7, controller_config.h:52-64).
\* It ends when the profile is forgotten, cut off while it is written again, or
\* overwritten by a correction of the name that had read it before.
PortsAsDecided ==
  \A m \in Macs : decided[m] # NoPort =>
    /\ profiles[m] # NoProfile /\ profiles[m].gc_port = decided[m]
    /\ m \in since /\ player[m] # Gone => player[m].gc_port = decided[m]

\* A file shows the port its controller has: what the drive keeps in RAM follows
\* the flash through edits, also those that could not be saved, although nobody
\* reads the flash again (msc_disk.c:336-350).  It falls behind when the profile is
\* forgotten, or overwritten as above, until it is edited or listed again.
FileShowsPort ==
  \A m \in Macs :
    shown[m] # NoProfile /\ m \notin behind /\ (drive.pc = "refresh" => drive.rec.mac # m)
      => profiles[m] # NoProfile /\ shown[m].gc_port = profiles[m].gc_port
=============================================================================
