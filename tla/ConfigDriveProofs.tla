-------------------------- MODULE ConfigDriveProofs --------------------------
(***************************************************************************)
(* What MCConfigDrive checks for three controllers, two ports, two slots   *)
(* and one file, proved for every number of each.  The port of a           *)
(* controller is in up to five places: the flash, the file, the two copies *)
(* a write of a file and the correction of a name work on, and the player. *)
(* CopiesAgree says what the copies are worth while another core may       *)
(* change the flash, and carries both properties.                          *)
(***************************************************************************)
EXTENDS ConfigDrive, Fat12, TLAPS, WellFoundedInduction

\* There is a lowest port among those not in use.
LEMMA FreePortIsAPort == FreePort \in Ports
<1>1. CASE Ports \subseteq Store!PortsInUse
  BY <1>1, DriveAssumption DEF FreePort, Ports
<1>2. CASE ~(Ports \subseteq Store!PortsInUse)
  <2> DEFINE Free == Ports \ Store!PortsInUse
  <2>1. PICK p \in Free : \A q \in Free : p <= q
    <3>1. Free \subseteq Nat /\ Free # {}
      BY <1>2, DriveAssumption DEF Ports
    <3> HIDE DEF Free
    <3>2. \E p \in Free : \A q \in Free : <<q, p>> \notin OpToRel(<, Nat)
      BY <3>1, WFMin, NatLessThanWellFounded, Zenon
    <3>3. PICK p \in Free : \A q \in Free : ~(q < p)
      BY <3>1, <3>2, Zenon DEF OpToRel
    <3>4. QED
      BY <3>1, <3>3
  <2>2. QED
    BY <1>2, <2>1 DEF FreePort
<1>3. QED
  BY <1>1, <1>2

\* What a profile is, and that it is not the absence of one.
LEMMA ProfilesAreStored ==
  ASSUME NEW p \in Profile
  PROVE  p # NoProfile /\ p.mac \in Macs /\ p.gc_port \in Ports /\ p.gc_port # NoPort
BY DriveAssumption DEF Profile, Ports, NoPort

EachAtItsAddress == \A m \in Macs : profiles[m] # NoProfile => profiles[m].mac = m

\* Getting a profile yields one, and changes nothing but that a profile may be
\* created where there was none; if it reports a success it is the one stored.
LEMMA GetKeeps ==
  ASSUME TypeOK, EachAtItsAddress, NEW m \in Macs, NEW n \in {Named, Unnamed}, NEW ok \in BOOLEAN,
         Get(m, n, ok)
  PROVE  /\ Found(m, n) \in Profile /\ Found(m, n).mac = m
         /\ profiles' \in [Macs -> Profile \cup {NoProfile}]
         /\ \A k \in Macs : profiles[k] # NoProfile => profiles'[k] = profiles[k]
         /\ ok => profiles'[m] = Found(m, n)
         /\ EachAtItsAddress'
<1>1. Found(m, n) \in Profile /\ Found(m, n).mac = m
  <2>1. CASE m \in Store!Stored
    BY <2>1 DEF Found, Store!Stored, TypeOK, EachAtItsAddress
  <2>2. CASE m \notin Store!Stored
    BY <2>2, FreePortIsAPort DEF Found, Profile
  <2>3. QED
    BY <2>1, <2>2
<1>2. CASE m \in Store!Stored /\ ok /\ UNCHANGED profiles
  BY <1>1, <1>2 DEF Found, TypeOK, EachAtItsAddress
<1>3. CASE Store!Create(m) /\ ok /\ profiles'[m] = Found(m, n)
  BY <1>1, <1>3 DEF Store!Create, Store!Stored, TypeOK, EachAtItsAddress
<1>4. CASE m \notin Store!Stored /\ ~ok /\ UNCHANGED profiles
  BY <1>1, <1>4 DEF TypeOK, EachAtItsAddress
<1>5. QED
  BY <1>1, <1>2, <1>3, <1>4 DEF Get

LEMMA SaveKeeps ==
  ASSUME TypeOK, EachAtItsAddress, NEW p \in Profile, NEW ok \in BOOLEAN, Save(p, ok)
  PROVE  /\ profiles' \in [Macs -> Profile \cup {NoProfile}]
         /\ ok => profiles[p.mac] # NoProfile /\ profiles' = [profiles EXCEPT ![p.mac] = p]
         /\ ~ok => profiles' = profiles
         /\ EachAtItsAddress'
  BY ProfilesAreStored DEF Save, Store!Stored, TypeOK, EachAtItsAddress

-----------------------------------------------------------------------------
\* A copy that is about to be written is of a profile, and a profile is stored
\* under its own address.
CopiesAreProfiles ==
  /\ EachAtItsAddress
  /\ drive.pc # "idle" => drive.rec \in Profile
  /\ ready.pc # "idle" => ready.rec \in Profile

\* What was saved and is about to be shown is still what the flash holds, unless
\* the file is known to be behind; the copy a name is corrected in has the port of
\* the flash, unless it is known to be outdated.
CopiesAgree ==
  /\ drive.pc = "refresh" /\ drive.rec.mac \notin behind =>
       /\ profiles[drive.rec.mac] # NoProfile
       /\ profiles[drive.rec.mac].gc_port = drive.rec.gc_port
  /\ ready.pc = "save" /\ ~outdated =>
       /\ profiles[ready.rec.mac] # NoProfile
       /\ profiles[ready.rec.mac].gc_port = ready.rec.gc_port

IInv == TypeOK /\ CopiesAreProfiles /\ CopiesAgree /\ PortsAsDecided /\ FileShowsPort

LEMMA InitIInv == Init => IInv
<1> SUFFICES ASSUME Init PROVE IInv
  OBVIOUS
<1>1. TypeOK
  BY DEF Init, TypeOK, Idle, Gone
<1>2. CopiesAreProfiles /\ CopiesAgree
  BY DEF Init, CopiesAreProfiles, EachAtItsAddress, CopiesAgree, Idle
<1>3. PortsAsDecided /\ FileShowsPort
  BY DEF Init, PortsAsDecided, FileShowsPort
<1>4. QED
  BY <1>1, <1>2, <1>3 DEF IInv

LEMMA StepIInv == IInv /\ [Next]_vars => IInv'
<1> SUFFICES ASSUME IInv, [Next]_vars PROVE IInv'
  OBVIOUS
<1>0. /\ TypeOK /\ CopiesAreProfiles /\ EachAtItsAddress /\ CopiesAgree
      /\ PortsAsDecided /\ FileShowsPort
  BY DEF IInv, CopiesAreProfiles
<1>1. ASSUME NEW m \in Macs, tud_msc_write10_cb(m) PROVE IInv'
  <2>1. PICK port \in Ports, ok \in BOOLEAN :
          /\ Get(m, Unnamed, ok)
          /\ drive' = IF ok THEN [pc |-> "save", rec |-> [Found(m, Unnamed) EXCEPT !.gc_port = port]]
                            ELSE Idle
    BY <1>1 DEF tud_msc_write10_cb
  <2>2. /\ Found(m, Unnamed) \in Profile
        /\ profiles' \in [Macs -> Profile \cup {NoProfile}]
        /\ \A k \in Macs : profiles[k] # NoProfile => profiles'[k] = profiles[k]
        /\ EachAtItsAddress'
    BY <1>0, <2>1, GetKeeps
  <2>3. [Found(m, Unnamed) EXCEPT !.gc_port = port] \in Profile
    BY <2>2 DEF Profile
  <2>4. TypeOK' /\ CopiesAreProfiles'
    BY <1>0, <1>1, <2>1, <2>2, <2>3
       DEF tud_msc_write10_cb, TypeOK, CopiesAreProfiles, Idle
  <2>5. CopiesAgree'
    BY <1>0, <1>1, <2>1, <2>2, ProfilesAreStored
       DEF tud_msc_write10_cb, TypeOK, CopiesAreProfiles, CopiesAgree, Idle
  <2>6. PortsAsDecided'
    BY <1>0, <1>1, <2>2 DEF tud_msc_write10_cb, PortsAsDecided
  <2>7. FileShowsPort'
    BY <1>0, <1>1, <2>1, <2>2 DEF tud_msc_write10_cb, FileShowsPort, Idle
  <2>8. QED
    BY <2>4, <2>5, <2>6, <2>7 DEF IInv
<1>2. CASE SaveEdit
  <2> DEFINE p == drive.rec
  <2>1. PICK ok \in BOOLEAN :
          /\ Save(p, ok)
          /\ drive' = AfterSave(ok)
          /\ IF ok THEN /\ Decide(p.mac, p.gc_port)
                        /\ behind' = behind \ {p.mac}
                        /\ Outdates(p.mac)
                   ELSE UNCHANGED <<decided, since, behind, outdated>>
    BY <1>2 DEF SaveEdit
  <2>2. p \in Profile /\ p.mac \in Macs /\ p.gc_port \in Ports /\ p # NoProfile
    BY <1>0, <1>2, ProfilesAreStored DEF SaveEdit, CopiesAreProfiles
  <2>3. /\ profiles' \in [Macs -> Profile \cup {NoProfile}]
        /\ ok => profiles' = [profiles EXCEPT ![p.mac] = p]
        /\ ~ok => profiles' = profiles
        /\ EachAtItsAddress'
    BY <1>0, <2>1, <2>2, SaveKeeps
  <2>4. /\ drive' = IF ok THEN [pc |-> "refresh", rec |-> p] ELSE Idle
        /\ drive.pc = "save"
        /\ UNCHANGED <<shown, ready, player>>
    BY <1>0, <1>2, <2>1 DEF SaveEdit, AfterSave, TypeOK
  <2>5. TypeOK' /\ CopiesAreProfiles'
    BY <1>0, <2>1, <2>2, <2>3, <2>4 DEF TypeOK, CopiesAreProfiles, Decide, Outdates, Idle
  <2>6. CopiesAgree'
    BY <1>0, <2>1, <2>2, <2>3, <2>4, ProfilesAreStored
       DEF TypeOK, CopiesAreProfiles, CopiesAgree, Outdates, Idle
  <2>7. PortsAsDecided'
    BY <1>0, <2>1, <2>2, <2>3, <2>4 DEF TypeOK, PortsAsDecided, Decide
  <2>8. FileShowsPort'
    BY <1>0, <2>1, <2>2, <2>3, <2>4 DEF TypeOK, FileShowsPort, Idle
  <2>9. QED
    BY <2>5, <2>6, <2>7, <2>8 DEF IInv
<1>3. CASE refresh_file_content
  <2> DEFINE p == drive.rec
  <2>1. p \in Profile /\ p.mac \in Macs
    BY <1>0, <1>3, ProfilesAreStored DEF refresh_file_content, CopiesAreProfiles
  <2>2. TypeOK' /\ CopiesAreProfiles' /\ CopiesAgree'
    BY <1>0, <1>3, <2>1
       DEF refresh_file_content, TypeOK, CopiesAreProfiles, EachAtItsAddress, CopiesAgree, Idle
  <2>3. PortsAsDecided'
    BY <1>0, <1>3 DEF refresh_file_content, PortsAsDecided
  <2>4. FileShowsPort'
    BY <1>0, <1>3, <2>1 DEF refresh_file_content, TypeOK, CopiesAgree, FileShowsPort, Idle
  <2>5. QED
    BY <2>2, <2>3, <2>4 DEF IInv
<1>4. ASSUME NEW m \in Macs, Forget(m) PROVE IInv'
  <2>1. profiles' = [profiles EXCEPT ![m] = NoProfile]
    BY <1>4 DEF Forget, Store!Remove
  <2>2. TypeOK' /\ CopiesAreProfiles'
    BY <1>0, <1>4, <2>1 DEF Forget, Decide, Outdates, TypeOK, CopiesAreProfiles, EachAtItsAddress
  <2>3. CopiesAgree'
    BY <1>0, <1>4, <2>1, ProfilesAreStored
       DEF Forget, Outdates, TypeOK, CopiesAreProfiles, CopiesAgree
  <2>4. PortsAsDecided'
    BY <1>0, <1>4, <2>1 DEF Forget, Decide, TypeOK, PortsAsDecided
  <2>5. FileShowsPort'
    BY <1>0, <1>4, <2>1 DEF Forget, TypeOK, FileShowsPort
  <2>6. QED
    BY <2>2, <2>3, <2>4, <2>5 DEF IInv
<1>5. ASSUME NEW m \in Macs, my_platform_on_device_connected(m) PROVE IInv'
  <2>1. PICK n \in {Named, Unnamed}, ok \in BOOLEAN :
          /\ Get(m, n, ok)
          /\ player' = [player EXCEPT ![m] = [state |-> "connected", gc_port |-> Found(m, n).gc_port]]
          /\ decided' = [decided EXCEPT ![m] = IF ok THEN Found(m, n).gc_port ELSE NoPort]
          /\ since' = IF ok THEN since \cup {m} ELSE since \ {m}
    BY <1>5 DEF my_platform_on_device_connected
  <2>2. /\ Found(m, n) \in Profile /\ Found(m, n).gc_port \in Ports /\ Found(m, n) # NoProfile
        /\ profiles' \in [Macs -> Profile \cup {NoProfile}]
        /\ \A k \in Macs : profiles[k] # NoProfile => profiles'[k] = profiles[k]
        /\ ok => profiles'[m] = Found(m, n)
        /\ EachAtItsAddress'
    BY <1>0, <2>1, GetKeeps, ProfilesAreStored
  <2>3. TypeOK' /\ CopiesAreProfiles'
    BY <1>0, <1>5, <2>1, <2>2
       DEF my_platform_on_device_connected, TypeOK, CopiesAreProfiles
  <2>4. CopiesAgree'
    BY <1>0, <1>5, <2>2, ProfilesAreStored
       DEF my_platform_on_device_connected, TypeOK, CopiesAreProfiles, CopiesAgree, Idle
  <2>5. PortsAsDecided'
    BY <1>0, <2>1, <2>2 DEF TypeOK, PortsAsDecided
  <2>6. FileShowsPort'
    BY <1>0, <1>5, <2>2 DEF my_platform_on_device_connected, FileShowsPort
  <2>7. QED
    BY <2>3, <2>4, <2>5, <2>6 DEF IInv
<1>6. ASSUME NEW m \in Macs, my_platform_on_device_ready(m) PROVE IInv'
  <2>1. PICK ok \in BOOLEAN :
          /\ Get(m, Named, ok)
          /\ ready' = IF ok /\ Found(m, Named).model_name = Unnamed
                      THEN [pc |-> "save", rec |-> Renamed(Found(m, Named))] ELSE Idle
    BY <1>6 DEF my_platform_on_device_ready
  <2>2. /\ Found(m, Named) \in Profile /\ Found(m, Named).mac = m
        /\ Found(m, Named) # NoProfile
        /\ profiles' \in [Macs -> Profile \cup {NoProfile}]
        /\ \A k \in Macs : profiles[k] # NoProfile => profiles'[k] = profiles[k]
        /\ ok => profiles'[m] = Found(m, Named)
        /\ EachAtItsAddress'
    BY <1>0, <2>1, GetKeeps, ProfilesAreStored
  <2>3. LET p == Renamed(Found(m, Named))
        IN p \in Profile /\ p.mac = m /\ p.gc_port = Found(m, Named).gc_port
    BY <2>2 DEF Renamed, Profile
  <2>4. player' = [player EXCEPT ![m].state = "ready"] /\ player[m].state = "connected"
    BY <1>6 DEF my_platform_on_device_ready
  <2>5. TypeOK' /\ CopiesAreProfiles'
    <3>1. player' \in [Macs -> [state : {"gone", "connected", "ready"}, gc_port : Ports \cup {NoPort}]]
      BY <1>0, <2>4 DEF TypeOK
    <3>2. /\ ready' \in [pc : {"idle", "save"}, rec : Profile \cup {NoProfile}]
          /\ ready'.pc # "idle" => ready'.rec \in Profile
      BY <2>1, <2>3 DEF Idle
    <3>3. QED
      BY <1>0, <1>6, <2>2, <3>1, <3>2
         DEF my_platform_on_device_ready, TypeOK, CopiesAreProfiles
  <2>6. CopiesAgree'
    BY <1>0, <1>6, <2>1, <2>2, <2>3, ProfilesAreStored
       DEF my_platform_on_device_ready, TypeOK, CopiesAreProfiles, CopiesAgree, Idle
  <2>7. PortsAsDecided'
    BY <1>0, <1>6, <2>2, <2>4 DEF my_platform_on_device_ready, TypeOK, PortsAsDecided, Gone
  <2>8. FileShowsPort'
    BY <1>0, <1>6, <2>2 DEF my_platform_on_device_ready, FileShowsPort
  <2>9. QED
    BY <2>5, <2>6, <2>7, <2>8 DEF IInv
<1>7. CASE SaveName
  <2> DEFINE p == ready.rec
  <2>1. PICK ok \in BOOLEAN :
          /\ Save(p, ok)
          /\ IF ok /\ outdated THEN /\ Decide(p.mac, NoPort)
                                   /\ behind' = behind \cup {p.mac}
                              ELSE UNCHANGED <<decided, since, behind>>
    BY <1>7 DEF SaveName
  <2>2. p \in Profile /\ p.mac \in Macs /\ p # NoProfile
    BY <1>0, <1>7, ProfilesAreStored DEF SaveName, CopiesAreProfiles
  <2>3. /\ profiles' \in [Macs -> Profile \cup {NoProfile}]
        /\ ok => profiles' = [profiles EXCEPT ![p.mac] = p]
        /\ ~ok => profiles' = profiles
        /\ EachAtItsAddress'
    BY <1>0, <2>1, <2>2, SaveKeeps
  <2>4. /\ ready' = Idle /\ outdated' = FALSE /\ ready.pc = "save"
        /\ UNCHANGED <<shown, drive, player>>
    BY <1>7 DEF SaveName
  <2>5. TypeOK' /\ CopiesAreProfiles'
    <3>1. decided' \in [Macs -> Ports \cup {NoPort}] /\ since' \subseteq Macs /\ behind' \subseteq Macs
      BY <1>0, <2>1, <2>2 DEF TypeOK, Decide
    <3>2. QED
      BY <1>0, <2>3, <2>4, <3>1 DEF TypeOK, CopiesAreProfiles, Idle
  <2>6. ok /\ ~outdated => profiles[p.mac].gc_port = p.gc_port /\ profiles[p.mac] # NoProfile
    BY <1>0, <2>4 DEF CopiesAgree
  <2>7. CopiesAgree'
    BY <1>0, <2>1, <2>2, <2>3, <2>4, <2>6, ProfilesAreStored
       DEF TypeOK, CopiesAreProfiles, CopiesAgree, Idle
  <2>8. PortsAsDecided'
    BY <1>0, <2>1, <2>2, <2>3, <2>4, <2>6 DEF TypeOK, PortsAsDecided, Decide
  <2>9. FileShowsPort'
    BY <1>0, <2>1, <2>2, <2>3, <2>4, <2>6 DEF TypeOK, FileShowsPort
  <2>10. QED
    BY <2>5, <2>7, <2>8, <2>9 DEF IInv
<1>8. ASSUME NEW m \in Macs, my_platform_on_device_disconnected(m) PROVE IInv'
  <2>1. UNCHANGED <<profiles, shown, drive, ready, decided, since, behind, outdated>>
        /\ player' = [player EXCEPT ![m] = Gone]
    BY <1>8 DEF my_platform_on_device_disconnected
  <2>2. TypeOK' /\ CopiesAreProfiles' /\ CopiesAgree'
    BY <1>0, <2>1 DEF TypeOK, CopiesAreProfiles, EachAtItsAddress, CopiesAgree, Gone
  <2>3. PortsAsDecided' /\ FileShowsPort'
    BY <1>0, <2>1 DEF TypeOK, PortsAsDecided, FileShowsPort
  <2>4. QED
    BY <2>2, <2>3 DEF IInv
<1>9. CASE PowerCut
  <2>1. PICK lost \in {NoMac} \cup (Writing \cap Store!Stored) :
          /\ profiles' = [m \in Macs |-> IF m = lost THEN NoProfile ELSE profiles[m]]
          /\ decided' = [m \in Macs |-> IF m = lost THEN NoPort ELSE decided[m]]
    BY <1>9 DEF PowerCut
  <2>2. PICK listed \in SUBSET Store!Stored' :
          shown' = [m \in Macs |-> IF m \in listed THEN profiles'[m] ELSE NoProfile]
    BY <1>9 DEF PowerCut
  <2>3. /\ drive' = Idle /\ ready' = Idle /\ player' = [m \in Macs |-> Gone]
        /\ since' = {} /\ behind' = {} /\ outdated' = FALSE
    BY <1>9 DEF PowerCut
  <2>4. TypeOK' /\ CopiesAreProfiles' /\ CopiesAgree'
    BY <1>0, <2>1, <2>2, <2>3 DEF TypeOK, CopiesAreProfiles, EachAtItsAddress, CopiesAgree, Idle, Gone
  <2>5. PortsAsDecided'
    BY <1>0, <2>1, <2>3 DEF TypeOK, PortsAsDecided
  <2>6. FileShowsPort'
    BY <2>1, <2>2, <2>3 DEF FileShowsPort, Idle
  <2>7. QED
    BY <2>4, <2>5, <2>6 DEF IInv
<1>10. CASE UNCHANGED vars
  BY <1>0, <1>10
     DEF vars, IInv, TypeOK, CopiesAreProfiles, EachAtItsAddress, CopiesAgree, PortsAsDecided, FileShowsPort
<1>11. QED
  BY <1>1, <1>2, <1>3, <1>4, <1>5, <1>6, <1>7, <1>8, <1>9, <1>10 DEF Next

\* Type correctness of the drive, its copies, the players and the histories.
THEOREM TypeCorrect == Spec => []TypeOK
<1>1. IInv => TypeOK
  BY DEF IInv
<1>2. QED
  BY InitIInv, StepIInv, <1>1, PTL DEF Spec

\* The port stored last, by an edit reported as saved or by a connection, is the
\* port in the flash and the one the controller drives from its next connection on
\* (msc_disk.c:4-7, controller_config.h:52-64).
THEOREM PortsStayDecided == Spec => []PortsAsDecided
<1>1. IInv => PortsAsDecided
  BY DEF IInv
<1>2. QED
  BY InitIInv, StepIInv, <1>1, PTL DEF Spec

\* A file that was not overtaken shows the port in the flash (msc_disk.c:336-350).
THEOREM FilesShowPorts == Spec => []FileShowsPort
<1>1. IInv => FileShowsPort
  BY DEF IInv
<1>2. QED
  BY InitIInv, StepIInv, <1>1, PTL DEF Spec
-----------------------------------------------------------------------------
\* Where the two bytes of an entry are, and that no other entry has both.
LEMMA Offsets ==
  ASSUME NEW c \in Clusters
  PROVE  \E h \in Nat :
           \/ c = 2 * h /\ c % 2 = 0 /\ c + c \div 2 = 3 * h /\ (3 * c) \div 2 = 3 * h
           \/ c = 2 * h + 1 /\ c % 2 = 1 /\ c + c \div 2 = 3 * h + 1 /\ (3 * c) \div 2 = 3 * h + 1
<1>1. c \in Nat
  BY DEF Clusters
<1>2. c \div 2 \in Nat /\ (c = 2 * (c \div 2) \/ c = 2 * (c \div 2) + 1)
  BY <1>1, SMT
<1>3. CASE c = 2 * (c \div 2)
  BY <1>1, <1>2, <1>3, SMT
<1>4. CASE c = 2 * (c \div 2) + 1
  BY <1>1, <1>2, <1>4, SMT
<1>5. QED
  BY <1>2, <1>3, <1>4

\* The arithmetic of the shared byte: x and b are bytes, v is put
\* into an entry.
LEMMA Halves ==
  ASSUME NEW x \in Byte, NEW b \in Byte, NEW v \in Value
  PROVE  /\ EvenValue(EvenFirst(v), EvenSecond(x, v)) = v
         /\ OddValue(EvenSecond(x, v), b) = OddValue(x, b)
         /\ EvenValue(b, OddSecond(x, v)) = EvenValue(b, x)
         /\ OddValue(OddSecond(x, v), OddThird(v)) = v
<1> USE DEF Byte, Value
<1>1. PICK p \in 0 .. 15, q \in 0 .. 15 : x = 16 * p + q
  <2>1. x \div 16 \in 0 .. 15 /\ x % 16 \in 0 .. 15 /\ x = 16 * (x \div 16) + (x % 16)
    BY SMT
  <2>2. QED
    BY <2>1
<1>2. PICK w \in 0 .. 255, g \in 0 .. 15 : v = 16 * w + g
  <2>1. v \div 16 \in 0 .. 255 /\ v % 16 \in 0 .. 15 /\ v = 16 * (v \div 16) + (v % 16)
    BY SMT
  <2>2. QED
    BY <2>1
<1>3. PICK e \in 0 .. 15, f \in 0 .. 15 : w = 16 * e + f
  <2>1. w \div 16 \in 0 .. 15 /\ w % 16 \in 0 .. 15 /\ w = 16 * (w \div 16) + (w % 16)
    BY <1>2, SMT
  <2>2. QED
    BY <2>1
<1>4. v = 256 * e + 16 * f + g
  BY <1>2, <1>3, SMT
<1>5. x \div 16 = p /\ x % 16 = q
  BY <1>1, SMT
<1>6. /\ v % 256 = 16 * f + g /\ (v \div 256) % 16 = e
      /\ v % 16 = g /\ (v \div 16) % 256 = 16 * e + f
  BY <1>2, <1>3, <1>4, SMT
<1>7. (16 * f + g + 256 * (16 * p + e)) % 4096 = 256 * e + 16 * f + g
  BY SMT
<1>8. (16 * p + e + 256 * b) \div 16 = (16 * p + q + 256 * b) \div 16
  <2>1. (16 * p + e + 256 * b) \div 16 = p + 16 * b
    BY SMT
  <2>2. (16 * p + q + 256 * b) \div 16 = p + 16 * b
    BY SMT
  <2>3. QED
    BY <2>1, <2>2
<1>9. (b + 256 * (q + 16 * g)) % 4096 = (b + 256 * (16 * p + q)) % 4096
  BY SMT
<1>10. (q + 16 * g + 256 * (16 * e + f)) \div 16 = 256 * e + 16 * f + g
  BY SMT
<1>11. QED
  <2>1. /\ EvenFirst(v) = 16 * f + g /\ EvenSecond(x, v) = 16 * p + e
        /\ OddSecond(x, v) = q + 16 * g /\ OddThird(v) = 16 * e + f
    BY <1>5, <1>6 DEF EvenFirst, EvenSecond, OddSecond, OddThird
  <2>2. /\ EvenValue(16 * f + g, 16 * p + e) = v
        /\ OddValue(16 * p + e, b) = OddValue(x, b)
        /\ EvenValue(b, q + 16 * g) = EvenValue(b, x)
        /\ OddValue(q + 16 * g, 16 * e + f) = v
    BY <1>1, <1>4, <1>7, <1>8, <1>9, <1>10 DEF EvenValue, OddValue
  <2>3. QED
    BY <2>1, <2>2

\* Entries 2 * h and 2 * h + 1 are in bytes lo = 3 * h, mid and hi.
LEMMA GetEven ==
  ASSUME NEW t, NEW d, NEW lo, NEW mid, d % 2 = 0, (3 * d) \div 2 = lo, lo + 1 = mid
  PROVE  Entry(t, d) = EvenValue(t[lo], t[mid])
BY Zenon DEF Entry

LEMMA GetOdd ==
  ASSUME NEW t, NEW d, NEW mid, NEW hi, d % 2 # 0, (3 * d) \div 2 = mid, mid + 1 = hi
  PROVE  Entry(t, d) = OddValue(t[mid], t[hi])
BY Zenon DEF Entry

LEMMA SetEven ==
  ASSUME NEW t \in Table, NEW c, NEW value, NEW lo \in Place, NEW mid \in Place,
         lo # mid, c % 2 = 0, c + c \div 2 = lo, lo + 1 = mid,
         NEW F, F = fat12_set_entry(t, c, value)
  PROVE  /\ F[lo] = EvenFirst(value)
         /\ F[mid] = EvenSecond(t[mid], value)
         /\ \A k \in Place \ {lo, mid} : F[k] = t[k]
<1>1. F = [t EXCEPT ![lo] = EvenFirst(value),
                    ![mid] = EvenSecond(t[mid], value)]
  BY Zenon DEF fat12_set_entry
<1>2. QED
  BY <1>1 DEF Table

LEMMA SetOdd ==
  ASSUME NEW t \in Table, NEW c, NEW value, NEW mid \in Place, NEW hi \in Place,
         mid # hi, c % 2 # 0, c + c \div 2 = mid, mid + 1 = hi,
         NEW F, F = fat12_set_entry(t, c, value)
  PROVE  /\ F[mid] = OddSecond(t[mid], value)
         /\ F[hi] = OddThird(value)
         /\ \A k \in Place \ {mid, hi} : F[k] = t[k]
<1>1. F = [t EXCEPT ![mid] = OddSecond(t[mid], value),
                    ![hi] = OddThird(value)]
  BY Zenon DEF fat12_set_entry
<1>2. QED
  BY <1>1 DEF Table

\* What is put into an entry of the table is what a host reads from it, and every
\* other entry reads as before, the one it shares a byte with included
\* (msc_disk.c:108-119).
THEOREM EntriesAreApart ==
  ASSUME NEW fat \in Table, NEW c \in Clusters, NEW d \in Clusters,
         NEW value \in Value
  PROVE  Entry(fat12_set_entry(fat, c, value), d) = IF d = c THEN value ELSE Entry(fat, d)
<1> SUFFICES ASSUME NEW F, F = fat12_set_entry(fat, c, value)
             PROVE  Entry(F, d) = IF d = c THEN value ELSE Entry(fat, d)
  OBVIOUS
<1>1. PICK h \in Nat :
        \/ c = 2 * h /\ c % 2 = 0 /\ c + c \div 2 = 3 * h
        \/ c = 2 * h + 1 /\ c % 2 = 1 /\ c + c \div 2 = 3 * h + 1
  BY Offsets
<1>2. PICK g \in Nat :
        \/ d = 2 * g /\ d % 2 = 0 /\ (3 * d) \div 2 = 3 * g
        \/ d = 2 * g + 1 /\ d % 2 = 1 /\ (3 * d) \div 2 = 3 * g + 1
  BY Offsets
<1>3. PICK lo \in Place, mid \in Place, hi \in Place :
        lo = 3 * h /\ mid = 3 * h + 1 /\ hi = 3 * h + 2
  <2>1. h <= 8
    BY <1>1, SMT DEF Clusters, MAX_FILES
  <2>2. 3 * h \in Place /\ 3 * h + 1 \in Place /\ 3 * h + 2 \in Place
    BY <2>1, SMT DEF Place
  <2>3. QED
    BY <2>2, Zenon
<1>4. PICK lo2 \in Place, mid2 \in Place, hi2 \in Place :
        lo2 = 3 * g /\ mid2 = 3 * g + 1 /\ hi2 = 3 * g + 2
  <2>1. g <= 8
    BY <1>2, SMT DEF Clusters, MAX_FILES
  <2>2. 3 * g \in Place /\ 3 * g + 1 \in Place /\ 3 * g + 2 \in Place
    BY <2>1, SMT DEF Place
  <2>3. QED
    BY <2>2, Zenon
<1>5. /\ lo + 1 = mid /\ mid + 1 = hi /\ lo # mid /\ mid # hi /\ lo # hi
      /\ lo2 + 1 = mid2 /\ mid2 + 1 = hi2
      /\ g = h => lo2 = lo /\ mid2 = mid /\ hi2 = hi
      /\ g # h => {lo2, mid2, hi2} \cap {lo, mid, hi} = {}
  <2>1. g # h => /\ lo2 # lo /\ lo2 # mid /\ lo2 # hi
                 /\ mid2 # lo /\ mid2 # mid /\ mid2 # hi
                 /\ hi2 # lo /\ hi2 # mid /\ hi2 # hi
    BY <1>3, <1>4, SMT
  <2>2. QED
    BY <1>3, <1>4, <2>1
<1>6. fat[lo] \in Byte /\ fat[mid] \in Byte /\ fat[hi] \in Byte
  BY <1>3 DEF Table
<1>7. ASSUME g # h, \A k \in Place \ {lo, mid, hi} : F[k] = fat[k]
      PROVE  Entry(F, d) = Entry(fat, d) /\ d # c
  <2>1. F[lo2] = fat[lo2] /\ F[mid2] = fat[mid2] /\ F[hi2] = fat[hi2]
    BY <1>4, <1>5, <1>7, Zenon
  <2>2. d # c
    BY <1>1, <1>2, <1>7, SMT
  <2>3. CASE d % 2 = 0 /\ (3 * d) \div 2 = lo2
    BY <2>1, <2>2, <2>3, <1>5, GetEven
  <2>4. CASE d % 2 # 0 /\ (3 * d) \div 2 = mid2
    BY <2>1, <2>2, <2>4, <1>5, GetOdd
  <2>5. QED
    BY <1>2, <1>4, <2>3, <2>4
<1>8. CASE c = 2 * h /\ c % 2 = 0 /\ c + c \div 2 = lo
  <2>1. /\ F[lo] = EvenFirst(value)
        /\ F[mid] = EvenSecond(fat[mid], value)
        /\ \A k \in Place \ {lo, mid} : F[k] = fat[k]
    BY <1>3, <1>5, <1>8, SetEven
  <2>2. CASE g # h
    BY <2>1, <2>2, <1>7
  <2>3. CASE g = h /\ d = 2 * g /\ d % 2 = 0 /\ (3 * d) \div 2 = lo
    <3>1. Entry(F, d) = EvenValue(F[lo], F[mid])
      BY <2>3, <1>5, GetEven
    <3>2. EvenValue(EvenFirst(value), EvenSecond(fat[mid], value)) = value
      BY <1>6, Halves
    <3>3. d = c
      BY <2>3, <1>8
    <3>4. QED
      BY <3>1, <3>2, <3>3, <2>1
  <2>4. CASE g = h /\ d = 2 * g + 1 /\ d % 2 # 0 /\ (3 * d) \div 2 = mid
    <3>1. /\ Entry(F, d) = OddValue(F[mid], F[hi])
          /\ Entry(fat, d) = OddValue(fat[mid], fat[hi])
      BY <2>4, <1>5, GetOdd
    <3>2. F[hi] = fat[hi]
      BY <2>1, <1>3, <1>5, Zenon
    <3>3. OddValue(EvenSecond(fat[mid], value), fat[hi]) = OddValue(fat[mid], fat[hi])
      BY <1>6, Halves
    <3>4. d # c
      BY <2>4, <1>8, SMT
    <3>5. QED
      BY <3>1, <3>2, <3>3, <3>4, <2>1
  <2>5. QED
    BY <1>2, <1>4, <1>5, <2>2, <2>3, <2>4
<1>9. CASE c = 2 * h + 1 /\ c % 2 # 0 /\ c + c \div 2 = mid
  <2>1. /\ F[mid] = OddSecond(fat[mid], value)
        /\ F[hi] = OddThird(value)
        /\ \A k \in Place \ {mid, hi} : F[k] = fat[k]
    BY <1>3, <1>5, <1>9, SetOdd
  <2>2. CASE g # h
    BY <2>1, <2>2, <1>7
  <2>3. CASE g = h /\ d = 2 * g /\ d % 2 = 0 /\ (3 * d) \div 2 = lo
    <3>1. /\ Entry(F, d) = EvenValue(F[lo], F[mid])
          /\ Entry(fat, d) = EvenValue(fat[lo], fat[mid])
      BY <2>3, <1>5, GetEven
    <3>2. F[lo] = fat[lo]
      BY <2>1, <1>3, <1>5, Zenon
    <3>3. EvenValue(fat[lo], OddSecond(fat[mid], value)) = EvenValue(fat[lo], fat[mid])
      BY <1>6, Halves
    <3>4. d # c
      BY <2>3, <1>9, SMT
    <3>5. QED
      BY <3>1, <3>2, <3>3, <3>4, <2>1
  <2>4. CASE g = h /\ d = 2 * g + 1 /\ d % 2 # 0 /\ (3 * d) \div 2 = mid
    <3>1. Entry(F, d) = OddValue(F[mid], F[hi])
      BY <2>4, <1>5, GetOdd
    <3>2. OddValue(OddSecond(fat[mid], value), OddThird(value)) = value
      BY <1>6, Halves
    <3>3. d = c
      BY <2>4, <1>9
    <3>4. QED
      BY <3>1, <3>2, <3>3, <2>1
  <2>5. QED
    BY <1>2, <1>4, <1>5, <2>2, <2>3, <2>4
<1>10. QED
  BY <1>1, <1>3, <1>8, <1>9

\* A host that looks for a file in its cluster is served, and writes to, that file,
\* and no cluster of a file is behind the end of the disk (msc_disk.c:235, 299).
THEOREM SectorsAreFiles ==
  ASSUME NEW i \in 0 .. MAX_FILES - 1
  PROVE  /\ FileOfSector(SectorOfCluster(Cluster(i))) = i
         /\ SectorOfCluster(Cluster(i)) \in FirstDataSector .. DISK_BLOCK_NUM - 1
<1>1. FirstDataSector = 3
  BY SMT DEF FirstDataSector, Reserved, NumberOfFats, SectorsPerFat, RootEntries, DISK_BLOCK_SIZE
<1>2. QED
  BY <1>1, SMT DEF FileOfSector, SectorOfCluster, Cluster, SectorsPerCluster, MAX_FILES, DISK_BLOCK_NUM
=============================================================================
