-------------------------- MODULE UserDialogsProofs --------------------------
(***************************************************************************)
(* Proofs about UserDialogs, for any number of dialogs, slots and ids:     *)
(* whoever is still there is never mistaken for another, an enumeration    *)
(* misses people only for a known reason, and no dialog enrolls over a     *)
(* credential that could be read when its slot was submitted.              *)
(***************************************************************************)
EXTENDS UserDialogs, FiniteSetTheorems, TLAPS

-----------------------------------------------------------------------------
(* The inductive invariant.  Its parts speak of a store us, cs, b (users,  *)
(* creds, births) and of the record f of a flow.                           *)

Credential(b) == [apid : Ids, id : Ids, slot : Slots, print : 1..b]
Found(b) == [id : Ids, who : 1..b]
Enrollments == [by : Dialogs \cup {Phone}, id : Ids, slot : Slots]
Counts == {Unknown} \cup 0..LastId + 1

\* Everybody who is there, and every credential.
There(us, cs) == {us[i] : i \in Ids} \cup {c.print : c \in cs}

StoreTypes(us, cs, b) ==
    /\ b \in 0..MaxBirths
    /\ us \in [Ids -> 0..b]
    /\ cs \subseteq Credential(b)
    /\ \A c \in cs : us[c.id] # Nobody

\* No apid, slot or number is given to two.
Unique(us, cs) ==
    /\ \A c, e \in cs : c.apid = e.apid \/ (c.id = e.id /\ c.slot = e.slot) \/ c.print = e.print
                            => c = e
    /\ \A i, j \in Ids : us[i] = us[j] => us[i] = Nobody \/ i = j
    /\ \A i \in Ids : \A c \in cs : us[i] # c.print

EnrollingOK == Running => enrolling \in Enrollments /\ users[enrolling.id] # Nobody

StoreOK == StoreTypes(users, creds, births) /\ Unique(users, creds) /\ EnrollingOK

LinkOK ==
    /\ family \in {"plain", "io_smart"}
    /\ count \in Counts
    /\ loaded \in BOOLEAN
BoundsOK == others \in 0..MaxOthers /\ troubles \in 0..MaxTroubles

ScanType(b) ==
    [next : 0..ScanLimit, found : SUBSET Found(b), limit : Counts, there : SUBSET (1..b)]
FlowType(b) ==
    [at : Places, userid : Ids, title : 0..b,
     options : SUBSET (Found(b) \cup [slot : Slots] \cup Credential(b)),
     scan : ScanType(b), made : 0..b, known : SUBSET (1..b)]

\* A form offers something, and of its kind.
Offers(f, b) ==
    /\ f.at = "select_user" => f.options \subseteq Found(b)
    /\ f.at \in {"slots", "checking", "starting"} => f.options \subseteq [slot : Slots]
    /\ f.at = "remove_credential" => f.options \subseteq Credential(b)
    /\ f.at \in {"select_user", "slots", "remove_credential"} => f.options # {}

\* Whom the form names has the userid, if he is there.
Named(f, us, cs) == f.title # Nobody /\ f.title \in There(us, cs) => us[f.userid] = f.title

\* What is offered for removal is there as it was, or gone.
Kept(f, us, cs) ==
    f.at = "remove_credential" => \A o \in f.options : o.print \in There(us, cs) => o \in cs

\* What is in the slot was not known when it was submitted.
Spared(cs, id, slot, known) == \A c \in cs : c.id = id /\ c.slot = slot => c.print \notin known
Clear(f, cs) ==
    f.at \in {"checking", "starting"} => \A o \in f.options : Spared(cs, f.userid, o.slot, f.known)

\* Who was found has the id, if he is there; nobody is found twice; who was
\* there and still is has been found, up to where the enumeration is.
Scanned(f, us, cs) ==
    /\ IsFiniteSet(f.scan.found)
    /\ \A u \in f.scan.found : u.who \in There(us, cs) => us[u.id] = u.who
    /\ \A u, v \in f.scan.found : u.who = v.who => u = v
    /\ f.at = "listing" =>
          \A i \in Ids : i < f.scan.next /\ us[i] \in f.scan.there =>
              \E u \in f.scan.found : u.who = us[i]

Missed(f, us) ==
    f.at = "select_user" =>
        \A i \in 0..ScanLimit - 1 :
            us[i] \in f.scan.there /\ us[i] \notin {u.who : u \in f.scan.found} =>
                /\ AllFound(f.scan)
                /\ \/ f.scan.limit < Cardinality(f.scan.there)
                   \/ ~({u.who : u \in f.scan.found} \subseteq f.scan.there)

Sound(f, us, cs, b) ==
    /\ f \in FlowType(b)
    /\ Offers(f, b)
    /\ Named(f, us, cs)
    /\ Kept(f, us, cs)
    /\ Clear(f, cs)
    /\ Scanned(f, us, cs)
    /\ Missed(f, us)

FlowsOK ==
    /\ DOMAIN flow = Dialogs
    /\ \A d \in Dialogs : Sound(flow[d], users, creds, births)

\* A request means whom or what its target was, if that is there.
Means(r, us, cs) ==
    r.meant # Nobody /\ r.meant \in There(us, cs) =>
        /\ r.cmd \in {"deleteUser", "enroll"} => us[r.target] = r.meant
        /\ r.cmd = "deleteAp" => \E c \in cs : c.apid = r.target /\ c.print = r.meant

RequestType(b) ==
    [by : Dialogs, cmd : {"createUser", "deleteUser", "deleteAp", "enroll"},
     target : Ids, slot : Slots \cup {0}, meant : 0..b]
LateOK ==
    late # NoRequest =>
        /\ late \in RequestType(births)
        /\ Means(late, users, creds)
        /\ late.cmd = "createUser" => late.meant = Nobody
        /\ late.cmd = "enroll" =>
              /\ late.slot \in Slots
              /\ flow[late.by].at = "ended"
              /\ Spared(creds, late.target, late.slot, flow[late.by].known)

HiddenOK == hidden \subseteq 1..births

WrongOK == wrong \subseteq 0..births /\ \A n \in wrong : n # Nobody => n \notin There(users, creds)

IInv ==
    /\ StoreOK
    /\ LinkOK
    /\ BoundsOK
    /\ FlowsOK
    /\ LateOK
    /\ WrongOK

-----------------------------------------------------------------------------
(* A store that goes on: nobody comes back, nobody changes his id, and     *)
(* whoever is new has a higher number than anybody before.                 *)

Moves(us, cs, b, us2, cs2, b2) ==
    /\ b <= b2
    /\ \A i \in Ids : us2[i] = us[i] \/ us2[i] = Nobody \/ b < us2[i]
    /\ \A c \in cs2 : c \in cs \/ b < c.print

\* What is remembered of a store and is still there is as it was remembered.
LEMMA Memory ==
    ASSUME NEW us, NEW cs, NEW b, NEW us2, NEW cs2, NEW b2,
           StoreTypes(us, cs, b), StoreTypes(us2, cs2, b2), Unique(us, cs),
           Moves(us, cs, b, us2, cs2, b2)
    PROVE  /\ b \in Nat
           /\ \A n \in 1..b : n \in There(us2, cs2) => n \in There(us, cs)
           /\ \A i \in Ids : us[i] # Nobody /\ us[i] \in There(us2, cs2) => us2[i] = us[i]
           /\ \A c \in cs : c.print \in There(us2, cs2) => c \in cs2
           /\ \A id, slot : \A known \in SUBSET (1..b) :
                  Spared(cs, id, slot, known) => Spared(cs2, id, slot, known)
<1> USE DEF StoreTypes, Unique, Moves
<1>0. b \in Nat
  BY SizesAssumption
<1>1. \A n \in 1..b : ~(b < n) /\ n # 0
  BY <1>0
<1>2. \A n \in 1..b : \A i \in Ids : us2[i] = n => us[i] = n
  BY <1>1 DEF Nobody
<1>3. \A n \in 1..b : \A c \in cs2 : c.print = n => c \in cs
  BY <1>1
<1>4. \A n \in 1..b : n \in There(us2, cs2) => n \in There(us, cs)
  BY <1>2, <1>3 DEF There
<1>5. ASSUME NEW i \in Ids, us[i] # Nobody, us[i] \in There(us2, cs2) PROVE us2[i] = us[i]
  <2>1. us[i] \in 1..b
    BY <1>0, <1>5 DEF Nobody
  <2>2. ~\E c \in cs2 : c.print = us[i]
    BY <1>3, <2>1
  <2>3. PICK j \in Ids : us2[j] = us[i]
    BY <1>5, <2>2 DEF There
  <2>4. us[j] = us[i]
    BY <1>2, <2>1, <2>3
  <2> QED BY <1>5, <2>3, <2>4
<1>6. ASSUME NEW c \in cs, c.print \in There(us2, cs2) PROVE c \in cs2
  <2>1. c.print \in 1..b
    BY DEF Credential
  <2>2. ~\E i \in Ids : us2[i] = c.print
    BY <1>2, <2>1
  <2>3. PICK e \in cs2 : e.print = c.print
    BY <1>6, <2>2 DEF There
  <2>4. e \in cs
    BY <1>3, <2>1, <2>3
  <2> QED BY <2>3, <2>4
<1>7. ASSUME NEW id, NEW slot, NEW known \in SUBSET (1..b), Spared(cs, id, slot, known)
      PROVE  Spared(cs2, id, slot, known)
  <2> SUFFICES ASSUME NEW c \in cs2, c.id = id, c.slot = slot PROVE c.print \notin known
    BY DEF Spared
  <2>1. CASE c \in cs
    BY <1>7, <2>1 DEF Spared
  <2>2. CASE c \notin cs
    <3>1. b < c.print
      BY <2>2
    <3>2. c.print \notin 1..b
      BY <1>1, <3>1
    <3> QED BY <3>2
  <2> QED BY <2>1, <2>2
<1> QED BY <1>0, <1>4, <1>5, <1>6, <1>7

\* A flow stays sound while the store goes on without it.
LEMMA SoundStays ==
    ASSUME NEW us, NEW cs, NEW b, NEW us2, NEW cs2, NEW b2, NEW f,
           StoreTypes(us, cs, b), StoreTypes(us2, cs2, b2), Unique(us, cs),
           Moves(us, cs, b, us2, cs2, b2), Sound(f, us, cs, b)
    PROVE  Sound(f, us2, cs2, b2)
<1>0. b \in Nat /\ b2 \in Nat /\ b <= b2
  BY SizesAssumption DEF StoreTypes, Moves
<1>m. /\ \A n \in 1..b : n \in There(us2, cs2) => n \in There(us, cs)
      /\ \A i \in Ids : us[i] # Nobody /\ us[i] \in There(us2, cs2) => us2[i] = us[i]
      /\ \A c \in cs : c.print \in There(us2, cs2) => c \in cs2
      /\ \A id, slot : \A known \in SUBSET (1..b) :
             Spared(cs, id, slot, known) => Spared(cs2, id, slot, known)
  BY Memory
<1>b. 0..b \subseteq 0..b2 /\ 1..b \subseteq 1..b2
  BY <1>0
<1>c. Credential(b) \subseteq Credential(b2) /\ Found(b) \subseteq Found(b2)
  BY <1>b DEF Credential, Found
<1>f. /\ f \in FlowType(b) /\ Offers(f, b)
      /\ Named(f, us, cs) /\ Kept(f, us, cs) /\ Clear(f, cs) /\ Scanned(f, us, cs) /\ Missed(f, us)
  BY DEF Sound
<1>1. f \in FlowType(b2)
  <2>1. ScanType(b) \subseteq ScanType(b2)
    BY <1>b, <1>c DEF ScanType
  <2>2. SUBSET (Found(b) \cup [slot : Slots] \cup Credential(b))
            \subseteq SUBSET (Found(b2) \cup [slot : Slots] \cup Credential(b2))
    BY <1>c
  <2>3. SUBSET (1..b) \subseteq SUBSET (1..b2)
    BY <1>b
  <2> HIDE DEF Places
  <2> QED BY <1>b, <1>f, <2>1, <2>2, <2>3 DEF FlowType
<1>2. Offers(f, b2)
  BY <1>c, <1>f DEF Offers
<1>3. Named(f, us2, cs2)
  <2> SUFFICES ASSUME f.title # Nobody, f.title \in There(us2, cs2) PROVE us2[f.userid] = f.title
    BY DEF Named
  <2>1. f.title \in 1..b /\ f.userid \in Ids
    BY <1>0, <1>f DEF FlowType, Nobody
  <2>2. us[f.userid] = f.title
    BY <2>1, <1>m, <1>f DEF Named
  <2> QED BY <2>1, <2>2, <1>m
<1>4. Kept(f, us2, cs2)
  <2> SUFFICES ASSUME f.at = "remove_credential", NEW o \in f.options,
                      o.print \in There(us2, cs2)
               PROVE  o \in cs2
    BY DEF Kept
  <2>1. o.print \in 1..b
    BY <1>f DEF Offers, Credential
  <2>2. o \in cs
    BY <2>1, <1>m, <1>f DEF Kept
  <2> QED BY <2>2, <1>m
<1>5. Clear(f, cs2)
  BY <1>m, <1>f DEF Clear, FlowType
<1>s. /\ f.scan.there \subseteq 1..b
      /\ \A u \in f.scan.found : u.id \in Ids /\ u.who \in 1..b
  BY <1>f DEF FlowType, ScanType, Found
<1>o. \A i \in Ids : us2[i] \in f.scan.there => us2[i] = us[i]
  <2> SUFFICES ASSUME NEW i \in Ids, us2[i] \in 1..b PROVE us2[i] = us[i]
    BY <1>s
  <2> QED BY <1>0 DEF Moves, Nobody
<1>6. Scanned(f, us2, cs2)
  <2>1. \A u \in f.scan.found : u.who \in There(us2, cs2) => us2[u.id] = u.who
    <3> SUFFICES ASSUME NEW u \in f.scan.found, u.who \in There(us2, cs2)
                 PROVE  us2[u.id] = u.who
      OBVIOUS
    <3>1. us[u.id] = u.who
      BY <1>s, <1>m, <1>f DEF Scanned
    <3>2. u.who # Nobody
      BY <1>0, <1>s DEF Nobody
    <3> QED BY <3>1, <3>2, <1>s, <1>m
  <2>2. f.at = "listing" => \A i \in Ids : i < f.scan.next /\ us2[i] \in f.scan.there =>
                                \E u \in f.scan.found : u.who = us2[i]
    BY <1>o, <1>f DEF Scanned
  <2> QED BY <2>1, <2>2, <1>f DEF Scanned
<1>7. Missed(f, us2)
  <2>1. 0..ScanLimit - 1 \subseteq Ids
    BY SizesAssumption DEF Ids
  <2> QED BY <2>1, <1>o, <1>f DEF Missed
<1> QED BY <1>1, <1>2, <1>3, <1>4, <1>5, <1>6, <1>7 DEF Sound

-----------------------------------------------------------------------------
(* What the door does to its store.                                        *)

StoreMoves == Moves(users, creds, births, users', creds', births')

Commands == {"createUser", "deleteUser", "deleteAp", "enroll"}
RequestOK(r) ==
    /\ r.by \in Dialogs \cup {Phone} /\ r.cmd \in Commands /\ r.target \in Ids
    /\ r.cmd = "enroll" => r.slot \in Slots

\* The store stays as it is, and an enrollment may end.
LEMMA StoreStays ==
    ASSUME StoreOK, UNCHANGED <<users, creds, births>>,
           enrolling' = enrolling \/ enrolling' = NoEnrollment
    PROVE  StoreOK' /\ StoreMoves
<1>1. StoreTypes(users, creds, births)' /\ Unique(users, creds)'
  BY DEF StoreOK, StoreTypes, Unique, Credential
<1>2. EnrollingOK'
  BY DEF StoreOK, EnrollingOK, Running
<1>3. StoreMoves
  BY SizesAssumption DEF StoreMoves, Moves, StoreOK, StoreTypes
<1> QED BY <1>1, <1>2, <1>3 DEF StoreOK

\* A new user gets an id that nobody has, and a number of his own.
LEMMA Creates ==
    ASSUME StoreOK, NEW r, r.cmd = "createUser", Accepts(r), Effect(r)
    PROVE  StoreOK' /\ StoreMoves
<1>1. /\ ~Running /\ births < MaxBirths
      /\ births' = births + 1 /\ creds' = creds /\ enrolling' = enrolling
  BY DEF Accepts, Effect
<1>2. PICK i \in Ids : users[i] = Nobody /\ users' = [users EXCEPT ![i] = births + 1]
  BY DEF Effect
<1>3. /\ births \in Nat /\ births' \in 0..MaxBirths
      /\ users \in [Ids -> 0..births] /\ creds \subseteq Credential(births)
      /\ \A c \in creds : users[c.id] # Nobody
      /\ \A n \in 0..births : n \in 0..births' /\ n # births'
      /\ \A n \in 1..births : n \in 1..births' /\ n # births'
      /\ births' # Nobody /\ births' \in 0..births' /\ births < births' /\ births <= births'
  BY <1>1, SizesAssumption DEF StoreOK, StoreTypes, Nobody
<1>4. /\ users'[i] = births' /\ \A j \in Ids \ {i} : users'[j] = users[j]
      /\ \A j \in Ids : users[j] \in 0..births
      /\ users' \in [Ids -> 0..births']
  BY <1>1, <1>2, <1>3
<1>5. Credential(births) \subseteq Credential(births')
  BY <1>3 DEF Credential
<1>6. StoreTypes(users', creds', births')
  <2>1. \A c \in creds' : users'[c.id] # Nobody
    <3>1. \A c \in creds : c.id \in Ids
      BY <1>3 DEF Credential
    <3> QED BY <1>1, <1>3, <1>4, <3>1
  <2> QED BY <1>1, <1>3, <1>4, <1>5, <2>1 DEF StoreTypes
<1>7. Unique(users', creds')
  <2>1. \A c \in creds : c.print # births'
    BY <1>3 DEF Credential
  <2>2. \A c, e \in creds' :
            c.apid = e.apid \/ (c.id = e.id /\ c.slot = e.slot) \/ c.print = e.print => c = e
    BY <1>1 DEF StoreOK, Unique
  <2>3. \A j, k \in Ids : users'[j] = users'[k] => users'[j] = Nobody \/ j = k
    BY <1>3, <1>4 DEF StoreOK, Unique
  <2>4. \A j \in Ids : \A c \in creds' : users'[j] # c.print
    BY <1>1, <1>4, <2>1 DEF StoreOK, Unique
  <2> QED BY <2>2, <2>3, <2>4 DEF Unique
<1>8. EnrollingOK'
  BY <1>1 DEF EnrollingOK, Running
<1>9. StoreMoves
  BY <1>1, <1>3, <1>4 DEF StoreMoves, Moves
<1> QED BY <1>6, <1>7, <1>8, <1>9 DEF StoreOK

\* A deleted user takes his credentials along, so that none is left with nobody.
LEMMA Deletes ==
    ASSUME StoreOK, NEW r, r.cmd \in {"deleteUser", "deleteAp"}, r.target \in Ids,
           Accepts(r), Effect(r)
    PROVE  StoreOK' /\ StoreMoves
<1>1. ~Running /\ births' = births /\ enrolling' = enrolling
  BY DEF Accepts, Effect
<1>2. /\ births \in 0..MaxBirths /\ births \in Nat
      /\ users \in [Ids -> 0..births] /\ creds \subseteq Credential(births)
      /\ \A c \in creds : users[c.id] # Nobody
      /\ Nobody \in 0..births
  BY SizesAssumption DEF StoreOK, StoreTypes, Nobody
<1>3. /\ users' \in [Ids -> 0..births] /\ creds' \subseteq creds
      /\ \A i \in Ids : users'[i] = users[i] \/ users'[i] = Nobody
      /\ \A c \in creds' : users'[c.id] # Nobody
  <2>1. CASE r.cmd = "deleteUser"
    <3>1. users' = [users EXCEPT ![r.target] = Nobody] /\ creds' = creds \ Of(r.target)
      BY <2>1 DEF Effect
    <3>2. \A c \in creds' : c.id # r.target /\ c.id \in Ids /\ c \in creds
      BY <3>1, <1>2 DEF Of, Credential
    <3> QED BY <3>1, <3>2, <1>2
  <2>2. CASE r.cmd = "deleteAp"
    <3>1. users' = users /\ creds' = {c \in creds : c.apid # r.target}
      BY <2>2 DEF Effect
    <3> QED BY <3>1, <1>2
  <2> QED BY <2>1, <2>2
<1>4. StoreTypes(users', creds', births')
  BY <1>1, <1>2, <1>3 DEF StoreTypes
<1>5. Unique(users', creds')
  <2>1. Unique(users, creds)
    BY DEF StoreOK
  <2>2. \A c \in creds : c.print # Nobody
    BY <1>2 DEF Credential, Nobody
  <2> QED BY <2>1, <2>2, <1>3 DEF Unique
<1>6. EnrollingOK'
  BY <1>1 DEF EnrollingOK, Running
<1>7. StoreMoves
  BY <1>1, <1>2, <1>3 DEF StoreMoves, Moves
<1> QED BY <1>4, <1>5, <1>6, <1>7 DEF StoreOK

\* The door enrolls only for a user who is there.
LEMMA Enrolls ==
    ASSUME StoreOK, NEW r, RequestOK(r), r.cmd = "enroll", Accepts(r), Effect(r)
    PROVE  StoreOK' /\ StoreMoves
<1>1. /\ UNCHANGED <<users, creds, births>> /\ users[r.target] # Nobody
      /\ enrolling' = [by |-> r.by, id |-> r.target, slot |-> r.slot]
  BY DEF Accepts, Effect
<1>2. StoreTypes(users, creds, births)' /\ Unique(users, creds)'
  BY <1>1 DEF StoreOK, StoreTypes, Unique, Credential
<1>3. EnrollingOK'
  BY <1>1 DEF EnrollingOK, RequestOK, Enrollments
<1>4. StoreMoves
  BY <1>1, SizesAssumption DEF StoreMoves, Moves, StoreOK, StoreTypes
<1> QED BY <1>2, <1>3, <1>4 DEF StoreOK

\* Whatever request is carried out, the store stays consistent.
LEMMA EffectMoves ==
    ASSUME StoreOK, NEW r, RequestOK(r), Accepts(r), Effect(r)
    PROVE  StoreOK' /\ StoreMoves
BY Creates, Deletes, Enrolls DEF RequestOK, Commands

\* The captured finger takes the slot; its user is there, as the door deletes
\* nobody while it enrolls.
LEMMA CaptureMoves == ASSUME StoreOK, Captures PROVE StoreOK' /\ StoreMoves
<1>1. Running /\ births < MaxBirths /\ births' = births + 1 /\ users' = users
      /\ enrolling' = NoEnrollment
  BY DEF Captures
<1>2. PICK a \in Ids \ {c.apid : c \in creds} :
          creds' = {c \in creds : c.id # enrolling.id \/ c.slot # enrolling.slot} \cup
                   {[apid |-> a, id |-> enrolling.id, slot |-> enrolling.slot,
                     print |-> births + 1]}
  BY DEF Captures
<1> DEFINE new == [apid |-> a, id |-> enrolling.id, slot |-> enrolling.slot, print |-> births']
<1>3. /\ births \in Nat /\ births' \in 0..MaxBirths /\ births' \in 1..births'
      /\ users \in [Ids -> 0..births] /\ creds \subseteq Credential(births)
      /\ \A c \in creds : users[c.id] # Nobody
      /\ \A n \in 0..births : n \in 0..births' /\ n # births'
      /\ \A n \in 1..births : n \in 1..births' /\ n # births'
      /\ births < births' /\ births <= births'
  BY <1>1, SizesAssumption DEF StoreOK, StoreTypes
<1>4. enrolling.id \in Ids /\ enrolling.slot \in Slots /\ users[enrolling.id] # Nobody
  BY <1>1 DEF StoreOK, EnrollingOK, Enrollments
<1>5. /\ new \in Credential(births') /\ new.print = births' /\ new.id = enrolling.id
      /\ new.slot = enrolling.slot /\ new.apid = a
  BY <1>3, <1>4 DEF Credential
<1>6. /\ \A c \in creds' : c \in creds \/ c = new
      /\ \A c \in creds' : c # new => c.id # enrolling.id \/ c.slot # enrolling.slot
  BY <1>1, <1>2
<1> HIDE DEF new
<1>7. Credential(births) \subseteq Credential(births')
  BY <1>3 DEF Credential
<1>8. StoreTypes(users', creds', births')
  <2>1. users' \in [Ids -> 0..births']
    BY <1>1, <1>3
  <2>2. creds' \subseteq Credential(births')
    BY <1>3, <1>5, <1>6, <1>7
  <2>3. \A c \in creds' : users'[c.id] # Nobody
    BY <1>1, <1>3, <1>4, <1>5, <1>6
  <2> QED BY <1>3, <2>1, <2>2, <2>3 DEF StoreTypes
<1>9. Unique(users', creds')
  <2>1. \A c \in creds : c.print # births' /\ c.apid # a
    BY <1>2, <1>3 DEF Credential
  <2>2. \A c, e \in creds' :
            c.apid = e.apid \/ (c.id = e.id /\ c.slot = e.slot) \/ c.print = e.print => c = e
    <3> SUFFICES ASSUME NEW c \in creds', NEW e \in creds',
                        c.apid = e.apid \/ (c.id = e.id /\ c.slot = e.slot) \/ c.print = e.print
                 PROVE  c = e
      OBVIOUS
    <3>1. CASE c # new /\ e # new
      BY <1>6, <3>1 DEF StoreOK, Unique
    <3>2. CASE c = new /\ e # new
      BY <1>5, <1>6, <2>1, <3>2
    <3>3. CASE c # new /\ e = new
      BY <1>5, <1>6, <2>1, <3>3
    <3> QED BY <3>1, <3>2, <3>3
  <2>3. \A j, k \in Ids : users'[j] = users'[k] => users'[j] = Nobody \/ j = k
    BY <1>1 DEF StoreOK, Unique
  <2>4. \A j \in Ids : \A c \in creds' : users'[j] # c.print
    <3>1. \A j \in Ids : users[j] # births'
      BY <1>3
    <3> QED BY <1>1, <1>5, <1>6, <3>1 DEF StoreOK, Unique
  <2> QED BY <2>2, <2>3, <2>4 DEF Unique
<1>10. EnrollingOK'
  BY <1>1 DEF EnrollingOK, Running
<1>11. StoreMoves
  BY <1>1, <1>3, <1>5, <1>6 DEF StoreMoves, Moves
<1> QED BY <1>8, <1>9, <1>10, <1>11 DEF StoreOK

-----------------------------------------------------------------------------
(* What a request hits.                                                    *)

\* What a step of the door does not undo.
LEMMA GoesOn ==
    ASSUME StoreOK, StoreOK', StoreMoves
    PROVE  /\ births \in Nat /\ births' \in Nat /\ births <= births'
           /\ \A n \in 1..births : n \in There(users', creds') => n \in There(users, creds)
<1>1. births \in Nat /\ births' \in Nat /\ births <= births'
  BY SizesAssumption DEF StoreOK, StoreMoves, Moves, StoreTypes
<1>2. \A n \in 1..births : n \in There(users', creds') => n \in There(users, creds)
  BY Memory DEF StoreOK, StoreMoves
<1> QED BY <1>1, <1>2

\* Who was mistaken for another is gone, and nobody comes back.
LEMMA WrongStays ==
    ASSUME StoreOK, StoreOK', StoreMoves, WrongOK, UNCHANGED wrong
    PROVE  WrongOK'
<1>1. /\ births \in Nat /\ births' \in Nat /\ births <= births'
      /\ \A n \in 1..births : n \in There(users', creds') => n \in There(users, creds)
  BY GoesOn
<1>2. wrong' = wrong /\ wrong \subseteq 0..births
      /\ \A n \in wrong : n # Nobody => n \notin There(users, creds)
  BY DEF WrongOK
<1>3. \A n \in wrong : n \in 0..births' /\ (n # Nobody => n \in 1..births)
  BY <1>1, <1>2 DEF Nobody
<1> QED BY <1>1, <1>2, <1>3 DEF WrongOK

\* What is meant and still there is what is hit.
LEMMA HitIsMeant ==
    ASSUME StoreOK, NEW r, r.cmd \in Commands, r.meant # Nobody,
           r.meant \in There(users, creds), Means(r, users, creds)
    PROVE  Hit(r) \subseteq {r.meant}
<1>1. CASE r.cmd = "createUser"
  BY <1>1 DEF Hit
<1>2. CASE r.cmd \in {"deleteUser", "enroll"}
  BY <1>2 DEF Hit, Means
<1>3. CASE r.cmd = "deleteAp"
  <2>1. PICK c \in creds : c.apid = r.target /\ c.print = r.meant
    BY <1>3 DEF Means
  <2>2. \A e \in creds : e.apid = r.target => e = c
    BY <2>1 DEF StoreOK, Unique
  <2>3. Hit(r) = {e.print : e \in {k \in creds : k.apid = r.target}}
    BY <1>3 DEF Hit
  <2> QED BY <2>1, <2>2, <2>3
<1> QED BY <1>1, <1>2, <1>3 DEF Commands

\* A request that means what it names is carried out on nothing else.
LEMMA CarryOutMoves ==
    ASSUME StoreOK, WrongOK, NEW r, RequestOK(r), r.meant \in 0..births,
           Means(r, users, creds), CarryOut(r)
    PROVE  StoreOK' /\ StoreMoves /\ WrongOK'
<1>1. StoreOK' /\ StoreMoves
  BY EffectMoves DEF CarryOut
<1>2. /\ births \in Nat /\ births' \in Nat /\ births <= births'
      /\ \A n \in 1..births : n \in There(users', creds') => n \in There(users, creds)
  BY <1>1, GoesOn
<1>3. wrong' = wrong \/ (wrong' = wrong \cup {r.meant} /\ ~(Hit(r) \subseteq {r.meant}))
  BY DEF CarryOut
<1>4. CASE wrong' = wrong
  BY <1>1, <1>4, WrongStays
<1>5. CASE wrong' = wrong \cup {r.meant} /\ ~(Hit(r) \subseteq {r.meant})
  <2>1. r.meant # Nobody => r.meant \notin There(users, creds)
    BY <1>5, HitIsMeant DEF RequestOK
  <2>2. \A n \in wrong' : n \in 0..births /\ (n # Nobody => n \notin There(users, creds))
    BY <1>5, <2>1 DEF WrongOK
  <2>3. \A n \in wrong' : n \in 0..births' /\ (n # Nobody => n \in 1..births)
    BY <1>2, <2>2 DEF Nobody
  <2> QED BY <1>1, <1>2, <2>2, <2>3 DEF WrongOK
<1> QED BY <1>1, <1>3, <1>4, <1>5

-----------------------------------------------------------------------------
(* What becomes of the dialogs and of a late request.                      *)

\* No dialog moves.
LEMMA FlowsStay ==
    ASSUME StoreOK, StoreOK', StoreMoves, FlowsOK, UNCHANGED flow
    PROVE  FlowsOK'
<1> SUFFICES ASSUME NEW d \in Dialogs PROVE Sound(flow'[d], users', creds', births')
  BY DEF FlowsOK
<1>1. Sound(flow[d], users, creds, births)
  BY DEF FlowsOK
<1>2. Sound(flow[d], users', creds', births')
  BY <1>1, SoundStays DEF StoreOK, StoreMoves
<1> QED BY <1>2

\* One dialog moves; the others stay sound.
LEMMA FlowChanges ==
    ASSUME StoreOK, StoreOK', StoreMoves, FlowsOK, NEW d \in Dialogs, NEW g, Become(d, g),
           Sound(g, users, creds, births) \/ Sound(g, users', creds', births')
    PROVE  /\ FlowsOK'
           /\ flow'[d] = g
           /\ \A e \in Dialogs \ {d} : flow'[e] = flow[e]
<1>1. /\ DOMAIN flow = Dialogs /\ DOMAIN flow' = Dialogs
      /\ flow'[d] = g
      /\ \A e \in Dialogs \ {d} : flow'[e] = flow[e]
  BY DEF FlowsOK, Become
<1>2. Sound(g, users', creds', births')
  BY SoundStays DEF StoreOK, StoreMoves
<1>3. ASSUME NEW e \in Dialogs \ {d} PROVE Sound(flow'[e], users', creds', births')
  <2>1. Sound(flow[e], users, creds, births)
    BY DEF FlowsOK
  <2>2. Sound(flow[e], users', creds', births')
    BY <2>1, SoundStays DEF StoreOK, StoreMoves
  <2> QED BY <1>1, <2>2
<1>4. \A e \in Dialogs : Sound(flow'[e], users', creds', births')
  BY <1>1, <1>2, <1>3
<1> QED BY <1>1, <1>4 DEF FlowsOK

\* A request that may still arrive keeps its meaning while the store goes on.
LEMMA LateStays ==
    ASSUME StoreOK, StoreOK', StoreMoves, FlowsOK, LateOK,
           late' = late \/ late' = NoRequest,
           \A e \in Dialogs : flow[e].at = "ended" =>
               flow'[e].at = "ended" /\ flow'[e].known = flow[e].known
    PROVE  LateOK'
<1> SUFFICES ASSUME late # NoRequest, late' = late PROVE LateOK'
  BY DEF LateOK
<1>0. births \in Nat /\ births' \in Nat /\ births <= births'
  BY SizesAssumption DEF StoreOK, StoreMoves, Moves, StoreTypes
<1>1. /\ \A n \in 1..births : n \in There(users', creds') => n \in There(users, creds)
      /\ \A i \in Ids :
             users[i] # Nobody /\ users[i] \in There(users', creds') => users'[i] = users[i]
      /\ \A c \in creds : c.print \in There(users', creds') => c \in creds'
      /\ \A id, slot : \A known \in SUBSET (1..births) :
             Spared(creds, id, slot, known) => Spared(creds', id, slot, known)
  BY Memory DEF StoreOK, StoreMoves
<1>2. /\ late \in RequestType(births)
      /\ Means(late, users, creds)
      /\ late.cmd = "createUser" => late.meant = Nobody
      /\ late.cmd = "enroll" =>
            /\ late.slot \in Slots
            /\ flow[late.by].at = "ended"
            /\ Spared(creds, late.target, late.slot, flow[late.by].known)
  BY DEF LateOK
<1>3. RequestType(births) \subseteq RequestType(births')
  <2>1. 0..births \subseteq 0..births'
    BY <1>0
  <2> QED BY <2>1 DEF RequestType
<1>4. late.by \in Dialogs /\ late.target \in Ids /\ late.meant \in 0..births
  BY <1>2 DEF RequestType
<1>5. Means(late, users', creds')
  <2> SUFFICES ASSUME late.meant # Nobody, late.meant \in There(users', creds')
               PROVE  /\ late.cmd \in {"deleteUser", "enroll"} => users'[late.target] = late.meant
                      /\ late.cmd = "deleteAp" =>
                            \E c \in creds' : c.apid = late.target /\ c.print = late.meant
    BY DEF Means
  <2>1. late.meant \in There(users, creds)
    <3>1. late.meant \in 1..births
      BY <1>0, <1>4 DEF Nobody
    <3> QED BY <3>1, <1>1
  <2>2. late.cmd \in {"deleteUser", "enroll"} => users'[late.target] = late.meant
    BY <1>1, <1>2, <1>4, <2>1 DEF Means
  <2>3. late.cmd = "deleteAp" => \E c \in creds' : c.apid = late.target /\ c.print = late.meant
    BY <1>1, <1>2, <2>1 DEF Means
  <2> QED BY <2>2, <2>3
<1>6. late.cmd = "enroll" =>
          /\ flow'[late.by].at = "ended"
          /\ Spared(creds', late.target, late.slot, flow'[late.by].known)
  <2> SUFFICES ASSUME late.cmd = "enroll"
               PROVE  /\ flow'[late.by].at = "ended"
                      /\ Spared(creds', late.target, late.slot, flow'[late.by].known)
    OBVIOUS
  <2>1. flow[late.by].known \in SUBSET (1..births)
    BY <1>4 DEF FlowsOK, Sound, FlowType
  <2>2. Spared(creds', late.target, late.slot, flow[late.by].known)
    BY <1>1, <1>2, <2>1
  <2> QED BY <1>2, <1>4, <2>2
<1> QED BY <1>2, <1>3, <1>5, <1>6 DEF LateOK

-----------------------------------------------------------------------------
(* Flows.                                                                  *)

\* The record of a flow that has just begun.
LEMMA NoFlowTyped == \A b \in Nat : NoFlow \in FlowType(b)
<1> SUFFICES ASSUME NEW b \in Nat PROVE NoFlow \in FlowType(b)
  OBVIOUS
<1>1. NoScan \in ScanType(b)
  BY SizesAssumption DEF NoScan, ScanType, Counts
<1>2. 0 \in Ids /\ 0 \in 0..b
  BY SizesAssumption DEF Ids
<1> QED BY <1>1, <1>2 DEF NoFlow, FlowType, Places, Nobody

\* A flow that offers nothing and has no enumeration.
LEMMA Plain ==
    ASSUME NEW us, NEW cs, NEW b, NEW f, f \in FlowType(b),
           f.at \in {"start", "menu", "user_menu", "enrolling", "ended"}, f.scan = NoScan,
           f.title # Nobody => us[f.userid] = f.title
    PROVE  Sound(f, us, cs, b)
<1>1. Offers(f, b) /\ Named(f, us, cs) /\ Kept(f, us, cs) /\ Clear(f, cs) /\ Missed(f, us)
  BY DEF Offers, Named, Kept, Clear, Missed
<1>2. f.scan.found = {}
  BY DEF NoScan
<1>3. Scanned(f, us, cs)
  BY <1>2, FS_EmptySet DEF Scanned
<1> QED BY <1>1, <1>3 DEF Sound

\* The record of a flow that is over, or follows an enrollment.
LEMMA EndedSound ==
    ASSUME StoreOK, FlowsOK, NEW d \in Dialogs
    PROVE  /\ Sound(Ended(d), users, creds, births)
           /\ Sound([Ended(d) EXCEPT !.at = "enrolling"], users, creds, births)
           /\ Ended(d).at = "ended" /\ Ended(d).known = flow[d].known
<1>1. births \in Nat /\ flow[d].known \in SUBSET (1..births)
  BY SizesAssumption DEF StoreOK, StoreTypes, FlowsOK, Sound, FlowType
<1>2. NoFlow \in FlowType(births)
  BY <1>1, NoFlowTyped
<1>3. /\ Ended(d) \in FlowType(births)
      /\ Ended(d).at = "ended" /\ Ended(d).scan = NoScan /\ Ended(d).title = Nobody
      /\ Ended(d).known = flow[d].known
  BY <1>1, <1>2 DEF Ended, FlowType, Places, NoFlow
<1>4. Sound(Ended(d), users, creds, births)
  BY <1>3, Plain
<1> DEFINE g == [Ended(d) EXCEPT !.at = "enrolling"]
<1>5. /\ g \in FlowType(births)
      /\ g.at = "enrolling" /\ g.scan = NoScan /\ g.title = Nobody
  BY <1>3 DEF FlowType, Places
<1> HIDE DEF g
<1>6. Sound(g, users, creds, births)
  BY <1>5, Plain
<1> QED BY <1>3, <1>4, <1>6 DEF g

-----------------------------------------------------------------------------
(* Counting.                                                               *)

\* There are no more users than ids.
LEMMA PresentSize == ASSUME StoreOK PROVE Cardinality(Present) \in 0..LastId + 1
<1> DEFINE all == {users[i] : i \in Ids}
           f == [i \in Ids |-> users[i]]
<1>1. IsFiniteSet(Ids) /\ Cardinality(Ids) = LastId + 1
  BY SizesAssumption, FS_Interval DEF Ids
<1>2. f \in Surjection(Ids, all)
  BY DEF Surjection
<1>3. IsFiniteSet(all) /\ Cardinality(all) <= LastId + 1
  BY <1>1, <1>2, FS_Surjection
<1>4. Present \subseteq all
  BY DEF Present
<1>5. IsFiniteSet(Present) /\ Cardinality(Present) <= Cardinality(all)
  BY <1>3, <1>4, FS_Subset
<1>6. Cardinality(Present) \in Nat /\ Cardinality(all) \in Nat
  BY <1>3, <1>5, FS_CardinalityType
<1> HIDE DEF all
<1> QED BY <1>3, <1>5, <1>6, SizesAssumption

\* What a poll brings.
LEMMA CountedOK == ASSUME StoreOK, LinkOK PROVE Counted \in Counts
BY PresentSize DEF Counted, Counts

\* Whoever was there has been found, once as many are found as were there and
\* nobody else among them.
LEMMA EverybodyFound ==
    ASSUME NEW found, NEW there, NEW b \in Nat, there \subseteq 1..b, IsFiniteSet(found),
           \A u, v \in found : u.who = v.who => u = v,
           {u.who : u \in found} \subseteq there,
           Cardinality(there) <= Cardinality(found)
    PROVE  {u.who : u \in found} = there
<1> DEFINE whos == {u.who : u \in found}
           f == [u \in found |-> u.who]
<1>1. f \in Surjection(found, whos) /\ f \in Injection(found, whos)
  BY DEF Surjection, Injection, IsInjective
<1>2. IsFiniteSet(whos) /\ Cardinality(whos) = Cardinality(found)
  BY <1>1, FS_Surjection
<1>3. IsFiniteSet(there)
  <2>1. IsFiniteSet(1..b)
    BY FS_Interval
  <2> QED BY <2>1, FS_Subset
<1>4. whos \subseteq there
  OBVIOUS
<1> HIDE DEF whos
<1>6. Cardinality(whos) \in Nat /\ Cardinality(there) \in Nat
  BY <1>2, <1>3, FS_CardinalityType
<1>7. Cardinality(whos) <= Cardinality(there)
  BY <1>3, <1>4, FS_Subset
<1>8. Cardinality(there) = Cardinality(whos)
  BY <1>2, <1>6, <1>7
<1>9. there = whos
  BY <1>3, <1>4, <1>8, FS_Subset
<1> QED BY <1>9 DEF whos

\* An enumeration that is over has missed people only for a known reason.
LEMMA OverIsListed ==
    ASSUME StoreOK, NEW f, Sound(f, users, creds, births), f.at = "listing", ScanOver(f.scan),
           NEW i \in 0..ScanLimit - 1,
           users[i] \in f.scan.there, users[i] \notin {u.who : u \in f.scan.found}
    PROVE  /\ AllFound(f.scan)
           /\ \/ f.scan.limit < Cardinality(f.scan.there)
              \/ ~({u.who : u \in f.scan.found} \subseteq f.scan.there)
<1> DEFINE s == f.scan
           whos == {u.who : u \in s.found}
<1>1. /\ births \in Nat /\ s.there \subseteq 1..births /\ s.next \in 0..ScanLimit
      /\ s.limit \in Counts /\ IsFiniteSet(s.found)
      /\ \A u, v \in s.found : u.who = v.who => u = v
      /\ \A j \in Ids : j < s.next /\ users[j] \in s.there => \E u \in s.found : u.who = users[j]
  BY SizesAssumption DEF StoreOK, StoreTypes, Sound, FlowType, ScanType, Scanned
<1>2. AllFound(s)
  <2> SUFFICES ASSUME s.next = ScanLimit PROVE FALSE
    BY DEF ScanOver
  <2>1. i \in Ids /\ i < ScanLimit
    BY SizesAssumption DEF Ids
  <2> QED BY <1>1, <2>1
<1>3. s.limit # Unknown /\ s.limit <= Cardinality(s.found)
  <2>1. s.limit # Unknown /\ Cardinality(s.found) >= s.limit
    BY <1>2 DEF AllFound
  <2>2. s.limit \in Nat /\ Cardinality(s.found) \in Nat
    BY <1>1, <2>1, SizesAssumption, FS_CardinalityType DEF Counts
  <2> QED BY <2>1, <2>2
<1>4. ASSUME ~(s.limit < Cardinality(s.there)), whos \subseteq s.there PROVE FALSE
  <2>1. IsFiniteSet(1..births)
    BY <1>1, FS_Interval
  <2>2. IsFiniteSet(s.there)
    BY <1>1, <2>1, FS_Subset
  <2>3. s.limit \in Nat /\ Cardinality(s.found) \in Nat /\ Cardinality(s.there) \in Nat
    BY <1>1, <1>3, <2>2, SizesAssumption, FS_CardinalityType DEF Counts
  <2>4. Cardinality(s.there) <= Cardinality(s.found)
    BY <1>3, <1>4, <2>3
  <2>5. whos = s.there
    BY <1>1, <1>4, <2>4, EverybodyFound
  <2> QED BY <2>5
<1> QED BY <1>2, <1>4

-----------------------------------------------------------------------------
(* Steps of a dialog that change nothing but its flow.                     *)

\* A step that sets no more than the flow of a dialog that goes on.
LEMMA Quiet ==
    ASSUME IInv, NEW d \in Dialogs, NEW g, Become(d, g),
           Sound(g, users, creds, births), flow[d].at # "ended",
           UNCHANGED <<store, link, wrong, bounds>>
    PROVE  IInv'
<1>1. /\ users' = users /\ creds' = creds /\ enrolling' = enrolling /\ births' = births
      /\ family' = family /\ count' = count /\ loaded' = loaded /\ late' = late
      /\ wrong' = wrong /\ others' = others /\ troubles' = troubles
  BY DEF store, link, bounds
<1>2. StoreOK /\ LinkOK /\ BoundsOK /\ FlowsOK /\ LateOK /\ WrongOK
  BY DEF IInv
<1>3. StoreOK' /\ StoreMoves
  BY <1>1, <1>2, StoreStays
<1>4. LinkOK' /\ BoundsOK'
  BY <1>1, <1>2 DEF LinkOK, BoundsOK, Counts
<1>5. FlowsOK' /\ \A e \in Dialogs \ {d} : flow'[e] = flow[e]
  BY <1>2, <1>3, FlowChanges
<1>6. LateOK'
  BY <1>1, <1>2, <1>3, <1>5, LateStays
<1>7. WrongOK'
  BY <1>1, <1>2, <1>3, WrongStays
<1> QED BY <1>3, <1>4, <1>5, <1>6, <1>7 DEF IInv

\* What is known of a flow and of the store.
LEMMA Known ==
    ASSUME StoreOK, FlowsOK, NEW d \in Dialogs
    PROVE  /\ Sound(flow[d], users, creds, births)
           /\ flow[d] \in FlowType(births)
           /\ flow[d].userid \in Ids /\ flow[d].scan \in ScanType(births)
           /\ births \in Nat
           /\ \A i \in Ids : users[i] \in 0..births
           /\ creds \subseteq Credential(births)
           /\ births \in 0..births
BY SizesAssumption DEF StoreOK, StoreTypes, FlowsOK, Sound, FlowType

\* A form about the selected user, with what it offers.
LEMMA FormSound ==
    ASSUME StoreOK, FlowsOK, NEW d \in Dialogs, NEW place, NEW offered, offered # {},
           \/ place = "slots" /\ offered \subseteq [slot : Slots]
           \/ place = "remove_credential" /\ offered \subseteq creds
    PROVE  Sound(Form(d, place, offered), users, creds, births)
<1> DEFINE g == Form(d, place, offered)
<1>1. /\ g.at = place /\ g.title = users[flow[d].userid] /\ g.options = offered
      /\ g.scan = flow[d].scan /\ g.userid = flow[d].userid
  BY Known DEF Form, Selected, FlowType
<1>2. g \in FlowType(births)
  <2>1. offered \in SUBSET (Found(births) \cup [slot : Slots] \cup Credential(births))
    BY Known
  <2>2. place \in Places
    BY DEF Places
  <2>3. users[flow[d].userid] \in 0..births /\ flow[d] \in FlowType(births)
    BY Known
  <2> QED BY <2>1, <2>2, <2>3 DEF Form, Selected, FlowType
<1> HIDE DEF g
<1>3. Offers(g, births)
  BY <1>1, Known DEF Offers
<1>4. Named(g, users, creds) /\ Kept(g, users, creds) /\ Clear(g, creds) /\ Missed(g, users)
  BY <1>1 DEF Named, Kept, Clear, Missed
<1>5. Scanned(g, users, creds)
  BY <1>1, Known DEF Sound, Scanned
<1> QED BY <1>2, <1>3, <1>4, <1>5 DEF Sound, g

LEMMA OpenOK == ASSUME IInv, NEW d \in Dialogs, Open(d) PROVE IInv'
<1>1. flow[d].at = "start" /\ UNCHANGED <<store, link, wrong, bounds>>
  BY DEF Open, In
<1>2. StoreOK /\ FlowsOK
  BY DEF IInv
<1> DEFINE g == [NoFlow EXCEPT !.at = "menu"]
<1>3. Sound(g, users, creds, births)
  <2>1. NoFlow \in FlowType(births)
    BY <1>2, Known, NoFlowTyped
  <2>2. g \in FlowType(births)
    BY <2>1 DEF FlowType, Places
  <2>3. g.at = "menu" /\ g.scan = NoScan /\ g.title = Nobody
    BY DEF NoFlow
  <2> HIDE DEF g
  <2> QED BY <2>2, <2>3, Plain
<1>4. Become(d, g) \/ Become(d, Ended(d))
  BY DEF Open, End
<1> HIDE DEF g
<1> QED BY <1>1, <1>2, <1>3, <1>4, EndedSound, Quiet

LEMMA ListOK == ASSUME IInv, NEW d \in Dialogs, List(d) PROVE IInv'
<1>1. flow[d].at = "menu" /\ UNCHANGED <<store, link, wrong, bounds>>
  BY DEF List, In
<1>2. StoreOK /\ FlowsOK /\ count \in Counts
  BY DEF IInv, LinkOK
<1> DEFINE s == [NoScan EXCEPT !.limit = count, !.there = Present]
           g == [flow[d] EXCEPT !.at = "listing", !.scan = s]
<1>3. Present \subseteq 1..births
  <2>1. \A n \in 0..births : n # Nobody => n \in 1..births
    BY <1>2, Known DEF Nobody
  <2> QED BY <1>2, <2>1, Known DEF Present
<1>4. s \in ScanType(births) /\ s.found = {} /\ s.next = 0
  <2>1. NoScan \in ScanType(births)
    BY <1>2, Known, NoFlowTyped DEF FlowType, NoFlow
  <2>2. s \in ScanType(births)
    BY <1>2, <1>3, <2>1 DEF ScanType
  <2> QED BY <2>2 DEF NoScan
<1> HIDE DEF s
<1>5. g \in FlowType(births) /\ g.at = "listing" /\ g.scan = s /\ g.title = flow[d].title
      /\ g.userid = flow[d].userid
  BY <1>2, <1>4, Known DEF FlowType, Places
<1> HIDE DEF g
<1>6. Offers(g, births) /\ Kept(g, users, creds) /\ Clear(g, creds) /\ Missed(g, users)
  BY <1>5 DEF Offers, Kept, Clear, Missed
<1>7. Named(g, users, creds)
  BY <1>2, <1>5, Known DEF Sound, Named
<1>8. Scanned(g, users, creds)
  <2>1. \A i \in Ids : ~(i < 0)
    BY SizesAssumption DEF Ids
  <2> QED BY <1>4, <1>5, <2>1, FS_EmptySet DEF Scanned
<1>9. Sound(g, users, creds, births)
  BY <1>5, <1>6, <1>7, <1>8 DEF Sound
<1>10. Become(d, g)
  BY DEF List, g, s
<1> QED BY <1>1, <1>9, <1>10, Quiet

\* One id more: whoever is found has it, and was not found before.
LEMMA ReadNextOK == ASSUME IInv, NEW d \in Dialogs, ReadNext(d) PROVE IInv'
<1> DEFINE i == flow[d].scan.next
           there == IF users[i] = Nobody THEN {} ELSE {[id |-> i, who |-> users[i]]}
           g == [flow[d] EXCEPT !.scan.next = i + 1, !.scan.found = @ \cup there]
<1>1. /\ flow[d].at = "listing" /\ ~ScanOver(flow[d].scan) /\ Become(d, g)
      /\ UNCHANGED <<store, link, wrong, bounds>>
  BY DEF ReadNext, In
<1>2. StoreOK /\ FlowsOK
  BY DEF IInv
<1>3. /\ flow[d].scan \in ScanType(births) /\ Scanned(flow[d], users, creds)
      /\ IsFiniteSet(flow[d].scan.found)
  BY <1>2, Known DEF Sound, Scanned
<1>4. i \in Ids /\ i + 1 \in 0..ScanLimit
  BY <1>1, <1>3, SizesAssumption DEF ScanOver, ScanType, Ids
<1>5. there \subseteq Found(births) /\ IsFiniteSet(flow[d].scan.found \cup there)
  <2>1. CASE users[i] = Nobody
    BY <1>3, <2>1
  <2>2. CASE users[i] # Nobody
    <3>1. users[i] \in 1..births
      BY <1>2, <1>4, <2>2, Known DEF Nobody
    <3>2. there \subseteq Found(births)
      BY <1>4, <2>2, <3>1 DEF Found
    <3> QED BY <1>3, <2>2, <3>2, FS_AddElement
  <2> QED BY <2>1, <2>2
<1>6. \A u \in there : /\ users[i] # Nobody /\ u.id = i /\ u.who = users[i]
                       /\ u = [id |-> i, who |-> users[i]]
  OBVIOUS
<1>7. users[i] # Nobody => \E u \in there : u.who = users[i]
  OBVIOUS
<1> DEFINE s == [[flow[d].scan EXCEPT !.next = i + 1]
                     EXCEPT !.found = flow[d].scan.found \cup there]
<1> HIDE DEF there
<1>8. s \in ScanType(births) /\ s.found = flow[d].scan.found \cup there /\ s.next = i + 1
      /\ s.there = flow[d].scan.there /\ s.there \subseteq 1..births
  <2>1. /\ s.found = flow[d].scan.found \cup there /\ s.next = i + 1
        /\ s.there = flow[d].scan.there
    BY <1>3 DEF ScanType
  <2>2. flow[d].scan.found \cup there \in SUBSET Found(births)
    BY <1>3, <1>5 DEF ScanType
  <2>3. s \in ScanType(births)
    <3> HIDE DEF i
    <3>1. [flow[d].scan EXCEPT !.next = i + 1] \in ScanType(births)
      BY <1>3, <1>4 DEF ScanType
    <3> QED BY <3>1, <2>2 DEF ScanType
  <2>4. s.there \subseteq 1..births
    BY <1>3, <2>1 DEF ScanType
  <2> QED BY <2>1, <2>3, <2>4
<1>9. g.scan = s
  BY <1>2, Known DEF FlowType
<1> HIDE DEF s
<1>10. g \in FlowType(births) /\ g.at = "listing" /\ g.scan = s /\ g.title = flow[d].title
       /\ g.userid = flow[d].userid
  <2>1. g \in FlowType(births)
    <3>1. DOMAIN g = DOMAIN flow[d] /\ g = [flow[d] EXCEPT !.scan = g.scan]
      OBVIOUS
    <3> QED BY <1>2, <1>8, <1>9, <3>1, Known DEF FlowType
  <2> QED BY <1>1, <1>2, <1>9, <2>1, Known DEF FlowType
<1> HIDE DEF g
<1>11. Offers(g, births) /\ Kept(g, users, creds) /\ Clear(g, creds) /\ Missed(g, users)
  BY <1>10 DEF Offers, Kept, Clear, Missed
<1>12. Named(g, users, creds)
  BY <1>2, <1>10, Known DEF Sound, Named
<1>13. Scanned(g, users, creds)
  <2>1. \A u \in s.found : u.who \in There(users, creds) => users[u.id] = u.who
    BY <1>3, <1>6, <1>8 DEF Scanned
  <2>2. \A u, v \in s.found : u.who = v.who => u = v
    <3> SUFFICES ASSUME NEW u \in s.found, NEW v \in s.found, u.who = v.who PROVE u = v
      OBVIOUS
    <3>0. users[i] \in There(users, creds)
      BY <1>4 DEF There
    <3>1. \A w \in flow[d].scan.found : w.who = users[i] /\ users[i] # Nobody =>
              w = [id |-> i, who |-> users[i]]
      <4> SUFFICES ASSUME NEW w \in flow[d].scan.found, w.who = users[i], users[i] # Nobody
                   PROVE  w = [id |-> i, who |-> users[i]]
        OBVIOUS
      <4>1. w \in [id : Ids, who : 1..births]
        BY <1>3 DEF ScanType, Found
      <4>2. users[w.id] = users[i]
        BY <1>3, <3>0 DEF Scanned
      <4>3. w.id = i
        BY <1>2, <1>4, <4>1, <4>2 DEF StoreOK, Unique
      <4> QED BY <4>1, <4>3
    <3>2. CASE u \in flow[d].scan.found /\ v \in flow[d].scan.found
      BY <1>3, <3>2 DEF Scanned
    <3>3. CASE u \in there
      BY <1>6, <1>8, <3>1, <3>3
    <3>4. CASE v \in there
      BY <1>6, <1>8, <3>1, <3>4
    <3> QED BY <1>8, <3>2, <3>3, <3>4
  <2>3. \A j \in Ids : j < s.next /\ users[j] \in s.there => \E u \in s.found : u.who = users[j]
    <3> SUFFICES ASSUME NEW j \in Ids, j < i + 1, users[j] \in s.there
                 PROVE  \E u \in s.found : u.who = users[j]
      BY <1>8
    <3>1. CASE j = i
      <4>1. users[i] # Nobody
        BY <1>8, <3>1 DEF Nobody
      <4> QED BY <1>7, <1>8, <3>1, <4>1
    <3>2. CASE j # i
      <4>1. j < i
        BY <1>4, <3>2, SizesAssumption DEF Ids
      <4> QED BY <1>1, <1>3, <1>8, <4>1 DEF Scanned
    <3> QED BY <3>1, <3>2
  <2> QED BY <1>5, <1>8, <1>10, <2>1, <2>2, <2>3 DEF Scanned
<1>14. Sound(g, users, creds, births)
  BY <1>10, <1>11, <1>12, <1>13 DEF Sound
<1> QED BY <1>1, <1>14, Quiet

\* The enumeration is over and becomes a form.
LEMMA ListedOK == ASSUME IInv, NEW d \in Dialogs, Listed(d) PROVE IInv'
<1> DEFINE g == [flow[d] EXCEPT !.at = "select_user", !.options = flow[d].scan.found]
<1>1. /\ flow[d].at = "listing" /\ ScanOver(flow[d].scan)
      /\ Become(d, Ended(d)) \/ (flow[d].scan.found # {} /\ Become(d, g))
      /\ UNCHANGED <<store, link, wrong, bounds>>
  BY DEF Listed, In, End
<1>2. StoreOK /\ FlowsOK
  BY DEF IInv
<1>3. CASE Become(d, Ended(d))
  BY <1>1, <1>2, <1>3, EndedSound, Quiet
<1>4. CASE flow[d].scan.found # {} /\ Become(d, g)
  <2>1. flow[d].scan.found \subseteq Found(births)
    BY <1>2, Known DEF ScanType
  <2>2. /\ g \in FlowType(births) /\ g.at = "select_user" /\ g.options = flow[d].scan.found
        /\ g.scan = flow[d].scan /\ g.title = flow[d].title /\ g.userid = flow[d].userid
    BY <1>2, <2>1, Known DEF FlowType, Places
  <2> HIDE DEF g
  <2>3. Offers(g, births) /\ Kept(g, users, creds) /\ Clear(g, creds)
    BY <1>4, <2>1, <2>2 DEF Offers, Kept, Clear
  <2>4. Named(g, users, creds) /\ Scanned(g, users, creds)
    BY <1>2, <2>2, Known DEF Sound, Named, Scanned
  <2>5. Missed(g, users)
    BY <1>1, <1>2, <2>2, Known, OverIsListed DEF Missed
  <2>6. Sound(g, users, creds, births)
    BY <2>2, <2>3, <2>4, <2>5 DEF Sound
  <2> QED BY <1>1, <1>4, <2>6, Quiet
<1> QED BY <1>1, <1>3, <1>4

\* The user who has the chosen id is the one the menu names.
LEMMA SelectOK == ASSUME IInv, NEW d \in Dialogs, Select(d) PROVE IInv'
<1>1. flow[d].at = "select_user" /\ UNCHANGED <<store, link, wrong, bounds>>
  BY DEF Select, In
<1>2. StoreOK /\ FlowsOK
  BY DEF IInv
<1>3. CASE Become(d, Ended(d))
  BY <1>1, <1>2, <1>3, EndedSound, Quiet
<1>4. ASSUME NEW u \in flow[d].options,
             Become(d, [NoFlow EXCEPT !.at = "user_menu", !.userid = u.id, !.title = users[u.id]])
      PROVE  IInv'
  <2> DEFINE g == [NoFlow EXCEPT !.at = "user_menu", !.userid = u.id, !.title = users[u.id]]
  <2>1. u.id \in Ids
    BY <1>1, <1>2, Known DEF Sound, Offers, Found
  <2>2. users[u.id] \in 0..births /\ NoFlow \in FlowType(births)
    BY <1>2, <2>1, Known, NoFlowTyped
  <2>3. /\ g \in FlowType(births) /\ g.at = "user_menu" /\ g.scan = NoScan
        /\ g.title = users[g.userid]
    BY <2>1, <2>2 DEF FlowType, Places, NoFlow
  <2>4. Become(d, g)
    BY <1>4
  <2> HIDE DEF g
  <2>5. Sound(g, users, creds, births)
    BY <2>3, Plain
  <2> QED BY <1>1, <2>4, <2>5, Quiet
<1> QED BY <1>3, <1>4 DEF Select, End

LEMMA OpenSlotsOK == ASSUME IInv, NEW d \in Dialogs, OpenSlots(d) PROVE IInv'
<1> DEFINE offered == {[slot |-> s] : s \in Free(flow[d].userid)}
<1>1. /\ flow[d].at = "user_menu" /\ UNCHANGED <<store, link, wrong, bounds>>
      /\ \/ Become(d, Ended(d))
         \/ Free(flow[d].userid) # {} /\ Become(d, Form(d, "slots", offered))
  BY DEF OpenSlots, In, End
<1>2. StoreOK /\ FlowsOK
  BY DEF IInv
<1>3. CASE Become(d, Ended(d))
  BY <1>1, <1>2, <1>3, EndedSound, Quiet
<1>4. CASE Free(flow[d].userid) # {} /\ Become(d, Form(d, "slots", offered))
  <2>1. offered # {} /\ offered \subseteq [slot : Slots]
    <3>1. PICK s \in Free(flow[d].userid) : TRUE
      BY <1>4
    <3>2. [slot |-> s] \in offered
      OBVIOUS
    <3>3. offered \subseteq [slot : Slots]
      BY DEF Free
    <3> QED BY <3>2, <3>3
  <2> HIDE DEF offered
  <2>2. Sound(Form(d, "slots", offered), users, creds, births)
    BY <1>2, <2>1, FormSound
  <2> QED BY <1>1, <1>4, <2>2, Quiet
<1> QED BY <1>1, <1>3, <1>4

LEMMA OpenRemoveOK == ASSUME IInv, NEW d \in Dialogs, OpenRemove(d) PROVE IInv'
<1>1. /\ flow[d].at = "user_menu" /\ UNCHANGED <<store, link, wrong, bounds>>
      /\ \/ Become(d, Ended(d))
         \/ /\ Read(flow[d].userid) # {}
            /\ Become(d, Form(d, "remove_credential", Read(flow[d].userid)))
  BY DEF OpenRemove, In, End
<1>2. StoreOK /\ FlowsOK
  BY DEF IInv
<1>3. CASE Become(d, Ended(d))
  BY <1>1, <1>2, <1>3, EndedSound, Quiet
<1>4. CASE /\ Read(flow[d].userid) # {}
           /\ Become(d, Form(d, "remove_credential", Read(flow[d].userid)))
  <2>1. Read(flow[d].userid) \subseteq creds
    BY DEF Read, Of
  <2>2. Sound(Form(d, "remove_credential", Read(flow[d].userid)), users, creds, births)
    BY <1>2, <1>4, <2>1, FormSound
  <2> QED BY <1>1, <1>4, <2>2, Quiet
<1> QED BY <1>1, <1>3, <1>4

\* The slot was free when it was submitted, as far as the answer told.
LEMMA SubmitSlotOK == ASSUME IInv, NEW d \in Dialogs, SubmitSlot(d) PROVE IInv'
<1>1. flow[d].at = "slots" /\ UNCHANGED <<store, link, wrong, bounds>>
  BY DEF SubmitSlot, In
<1>2. StoreOK /\ FlowsOK
  BY DEF IInv
<1>3. CASE Become(d, Ended(d))
  BY <1>1, <1>2, <1>3, EndedSound, Quiet
<1>4. CASE OfferedNow(d) # {} /\ Become(d, Form(d, "slots", OfferedNow(d)))
  <2>1. OfferedNow(d) \subseteq [slot : Slots]
    BY DEF OfferedNow, Free
  <2>2. Sound(Form(d, "slots", OfferedNow(d)), users, creds, births)
    BY <1>2, <1>4, <2>1, FormSound
  <2> QED BY <1>1, <1>4, <2>2, Quiet
<1>5. ASSUME NEW o \in flow[d].options, o \in OfferedNow(d),
             Become(d, [flow[d] EXCEPT !.at = "checking", !.options = {o},
                                       !.known = {c.print : c \in Read(flow[d].userid)}])
      PROVE  IInv'
  <2> DEFINE read == {c.print : c \in Read(flow[d].userid)}
             g == [flow[d] EXCEPT !.at = "checking", !.options = {o}, !.known = read]
  <2>1. o \in [slot : Slots]
    BY <1>5 DEF OfferedNow, Free
  <2>2. \A c \in creds : c.id = flow[d].userid /\ c.slot = o.slot => c.print \notin read
    <3> SUFFICES ASSUME NEW c \in creds, c.id = flow[d].userid, c.slot = o.slot,
                        NEW e \in Read(flow[d].userid), e.print = c.print
                 PROVE  FALSE
      OBVIOUS
    <3>1. e = c
      BY <1>2 DEF Read, Of, StoreOK, Unique
    <3> QED BY <1>5, <3>1 DEF OfferedNow, Free
  <2>k. read \in SUBSET (1..births)
    BY <1>2, Known DEF Read, Of, Credential
  <2>4. Become(d, g)
    BY <1>5
  <2> HIDE DEF read
  <2>3. /\ g \in FlowType(births) /\ g.at = "checking" /\ g.options = {o} /\ g.known = read
        /\ g.scan = flow[d].scan /\ g.title = flow[d].title /\ g.userid = flow[d].userid
    BY <1>2, <2>1, <2>k, Known DEF FlowType, Places
  <2> HIDE DEF g
  <2>5. Offers(g, births) /\ Kept(g, users, creds) /\ Missed(g, users)
    BY <2>1, <2>3 DEF Offers, Kept, Missed
  <2>6. Clear(g, creds)
    BY <2>2, <2>3 DEF Clear, Spared
  <2>7. Named(g, users, creds) /\ Scanned(g, users, creds)
    BY <1>2, <2>3, Known DEF Sound, Named, Scanned
  <2>8. Sound(g, users, creds, births)
    BY <2>3, <2>5, <2>6, <2>7 DEF Sound
  <2> QED BY <1>1, <2>4, <2>8, Quiet
<1> QED BY <1>3, <1>4, <1>5 DEF SubmitSlot, End

LEMMA CheckOK == ASSUME IInv, NEW d \in Dialogs, Check(d) PROVE IInv'
<1> DEFINE g == [flow[d] EXCEPT !.at = "starting"]
<1>1. /\ flow[d].at = "checking" /\ UNCHANGED <<store, link, wrong, bounds>>
      /\ Become(d, Ended(d)) \/ Become(d, g)
  BY DEF Check, In, End
<1>2. StoreOK /\ FlowsOK
  BY DEF IInv
<1>3. CASE Become(d, Ended(d))
  BY <1>1, <1>2, <1>3, EndedSound, Quiet
<1>4. CASE Become(d, g)
  <2>1. /\ g \in FlowType(births) /\ g.at = "starting" /\ g.options = flow[d].options
        /\ g.known = flow[d].known
        /\ g.scan = flow[d].scan /\ g.title = flow[d].title /\ g.userid = flow[d].userid
    BY <1>2, Known DEF FlowType, Places
  <2> HIDE DEF g
  <2>2. Offers(g, births) /\ Clear(g, creds)
    BY <1>1, <1>2, <2>1, Known DEF Sound, Offers, Clear
  <2>3. Kept(g, users, creds) /\ Missed(g, users)
    BY <2>1 DEF Kept, Missed
  <2>4. Named(g, users, creds) /\ Scanned(g, users, creds)
    BY <1>2, <2>1, Known DEF Sound, Named, Scanned
  <2>5. Sound(g, users, creds, births)
    BY <2>1, <2>2, <2>3, <2>4 DEF Sound
  <2> QED BY <1>1, <1>4, <2>5, Quiet
<1> QED BY <1>1, <1>3, <1>4

-----------------------------------------------------------------------------
(* Commands, carried out, failed or late.                                  *)

\* A step of one dialog.
LEMMA DialogStep ==
    ASSUME IInv, StoreOK', StoreMoves, LinkOK', BoundsOK', WrongOK',
           NEW d \in Dialogs, NEW g, Become(d, g),
           Sound(g, users, creds, births) \/ Sound(g, users', creds', births'),
           flow[d].at # "ended", late' = late \/ late' = NoRequest
    PROVE  IInv'
<1>1. StoreOK /\ FlowsOK /\ LateOK
  BY DEF IInv
<1>2. FlowsOK' /\ \A e \in Dialogs \ {d} : flow'[e] = flow[e]
  BY <1>1, FlowChanges
<1>3. LateOK'
  BY <1>1, <1>2, LateStays
<1> QED BY <1>2, <1>3 DEF IInv

\* A step of no dialog.
LEMMA DoorStep ==
    ASSUME IInv, StoreOK', StoreMoves, LinkOK', BoundsOK', WrongOK', UNCHANGED flow,
           late' = late \/ late' = NoRequest
    PROVE  IInv'
<1>1. StoreOK /\ FlowsOK /\ LateOK
  BY DEF IInv
<1>2. FlowsOK'
  BY <1>1, FlowsStay
<1>3. LateOK'
  BY <1>1, LateStays
<1> QED BY <1>2, <1>3 DEF IInv

LEMMA LinkStays == ASSUME LinkOK, UNCHANGED <<family, count, loaded>> PROVE LinkOK'
BY DEF LinkOK, Counts
LEMMA BoundsStay == ASSUME BoundsOK, UNCHANGED bounds PROVE BoundsOK'
BY DEF BoundsOK, bounds
LEMMA Trouble ==
    ASSUME BoundsOK, troubles < MaxTroubles, troubles' = troubles + 1, UNCHANGED others
    PROVE  BoundsOK'
BY SizesAssumption DEF BoundsOK

\* What a dialog submits is whom or what its form names.
LEMMA RequestsMean ==
    ASSUME StoreOK, FlowsOK, NEW d \in Dialogs, NEW r \in Requests(d)
    PROVE  /\ RequestOK(r) /\ r \in RequestType(births) /\ r.meant \in 0..births
           /\ Means(r, users, creds)
           /\ r.by = d /\ r.cmd # "createUser"
           /\ r.cmd = "enroll" => /\ flow[d].at = "starting"
                                  /\ r.slot \in Slots
                                  /\ Spared(creds, r.target, r.slot, flow[d].known)
<1>1. /\ flow[d].userid \in Ids /\ flow[d].title \in 0..births
      /\ Named(flow[d], users, creds) /\ Kept(flow[d], users, creds)
      /\ Clear(flow[d], creds) /\ Offers(flow[d], births)
  BY Known DEF Sound, FlowType
<1>2. CASE flow[d].at = "starting"
  <2>1. PICK o \in flow[d].options :
            r = Request(d, "enroll", flow[d].userid, o.slot, flow[d].title)
    BY <1>2 DEF Requests, In, EnrollRequests
  <2>2. o.slot \in Slots
    BY <1>1, <1>2 DEF Offers
  <2>3. /\ r.by = d /\ r.cmd = "enroll" /\ r.target = flow[d].userid /\ r.slot = o.slot
        /\ r.meant = flow[d].title
    BY <2>1 DEF Request
  <2>4. r \in RequestType(births)
    BY <1>1, <2>1, <2>2 DEF Request, RequestType
  <2>5. RequestOK(r)
    BY <1>1, <2>2, <2>3 DEF RequestOK, Commands
  <2>6. Means(r, users, creds)
    BY <1>1, <2>3 DEF Means, Named
  <2>7. Spared(creds, r.target, r.slot, flow[d].known)
    BY <1>1, <1>2, <2>3 DEF Clear
  <2> QED BY <1>1, <1>2, <2>2, <2>3, <2>4, <2>5, <2>6, <2>7
<1>3. CASE flow[d].at = "remove_credential"
  <2>1. PICK c \in flow[d].options : r = Request(d, "deleteAp", c.apid, 0, c.print)
    BY <1>3 DEF Requests, In, RemoveRequests
  <2>2. c \in Credential(births)
    BY <1>1, <1>3 DEF Offers
  <2>3. c.apid \in Ids /\ c.print \in 0..births /\ 0 \in Slots \cup {0}
    <3>1. c.print \in 1..births /\ c.apid \in Ids
      BY <2>2 DEF Credential
    <3>2. births \in Nat
      BY Known
    <3> QED BY <3>1, <3>2
  <2>4. /\ r.by = d /\ r.cmd = "deleteAp" /\ r.target = c.apid /\ r.meant = c.print
    BY <2>1 DEF Request
  <2>5. r \in RequestType(births)
    BY <2>1, <2>3 DEF Request, RequestType
  <2>6. RequestOK(r)
    BY <2>3, <2>4 DEF RequestOK, Commands
  <2>7. Means(r, users, creds)
    BY <1>1, <1>3, <2>4 DEF Means, Kept
  <2> QED BY <2>3, <2>4, <2>5, <2>6, <2>7
<1>4. CASE flow[d].at = "user_menu"
  <2>1. r = Request(d, "deleteUser", flow[d].userid, 0, flow[d].title)
    BY <1>4 DEF Requests, In, DeleteRequest
  <2>2. /\ r.by = d /\ r.cmd = "deleteUser" /\ r.target = flow[d].userid
        /\ r.meant = flow[d].title
    BY <2>1 DEF Request
  <2>3. r \in RequestType(births)
    BY <1>1, <2>1 DEF Request, RequestType
  <2>4. RequestOK(r)
    BY <1>1, <2>2 DEF RequestOK, Commands
  <2>5. Means(r, users, creds)
    BY <1>1, <2>2 DEF Means, Named
  <2> QED BY <1>1, <2>2, <2>3, <2>4, <2>5
<1> QED BY <1>2, <1>3, <1>4 DEF Requests, In

\* A dialog is over with its command.
LEMMA CommandEnds ==
    ASSUME IInv, NEW d \in Dialogs, NEW r \in Requests(d), CarryOut(r),
           NEW g, Become(d, g), Sound(g, users, creds, births), UNCHANGED <<link, bounds>>
    PROVE  IInv'
<1>1. StoreOK /\ FlowsOK /\ LinkOK /\ BoundsOK /\ WrongOK
  BY DEF IInv
<1>2. StoreOK' /\ StoreMoves /\ WrongOK'
  BY <1>1, RequestsMean, CarryOutMoves
<1>3. LinkOK' /\ BoundsOK' /\ late' = late
  BY <1>1, LinkStays, BoundsStay DEF link
<1>4. flow[d].at # "ended"
  BY DEF Requests, In
<1> QED BY <1>2, <1>3, <1>4, DialogStep

LEMMA StartEnrollmentOK == ASSUME IInv, NEW d \in Dialogs, StartEnrollment(d) PROVE IInv'
<1>1. flow[d].at = "starting" /\ UNCHANGED <<link, bounds>>
  BY DEF StartEnrollment, In
<1>2. StoreOK /\ FlowsOK
  BY DEF IInv
<1>3. PICK r \in EnrollRequests(d) :
          IF Accepts(r)
          THEN CarryOut(r) /\ Become(d, [Ended(d) EXCEPT !.at = "enrolling"])
          ELSE End(d) /\ UNCHANGED <<store, wrong>>
  BY DEF StartEnrollment
<1>4. r \in Requests(d)
  BY <1>1 DEF Requests, In
<1>5. CASE CarryOut(r) /\ Become(d, [Ended(d) EXCEPT !.at = "enrolling"])
  BY <1>1, <1>2, <1>4, <1>5, EndedSound, CommandEnds
<1>6. CASE End(d) /\ UNCHANGED <<store, wrong>>
  BY <1>1, <1>2, <1>6, EndedSound, Quiet DEF End
<1> QED BY <1>3, <1>5, <1>6

LEMMA RemoveCredentialOK == ASSUME IInv, NEW d \in Dialogs, RemoveCredential(d) PROVE IInv'
<1>1. PICK r \in RemoveRequests(d) : CarryOut(r)
  BY DEF RemoveCredential
<1>2. flow[d].at = "remove_credential" /\ Become(d, Ended(d)) /\ UNCHANGED <<link, bounds>>
  BY DEF RemoveCredential, In, End
<1>3. r \in Requests(d)
  BY <1>2 DEF Requests, In
<1>4. Sound(Ended(d), users, creds, births)
  BY EndedSound DEF IInv
<1> QED BY <1>1, <1>2, <1>3, <1>4, CommandEnds

LEMMA DeleteUserOK == ASSUME IInv, NEW d \in Dialogs, DeleteUser(d) PROVE IInv'
<1>1. /\ flow[d].at = "user_menu" /\ Become(d, Ended(d)) /\ UNCHANGED <<link, bounds>>
      /\ CarryOut(DeleteRequest(d))
  BY DEF DeleteUser, In, End
<1>2. DeleteRequest(d) \in Requests(d)
  BY <1>1 DEF Requests, In
<1>3. Sound(Ended(d), users, creds, births)
  BY EndedSound DEF IInv
<1> QED BY <1>1, <1>2, <1>3, CommandEnds

LEMMA AddUserOK == ASSUME IInv, NEW d \in Dialogs, AddUser(d) PROVE IInv'
<1> DEFINE r == Request(d, "createUser", 0, 0, Nobody)
           g == [flow[d] EXCEPT !.made = births']
<1>1. flow[d].at = "menu" /\ CarryOut(r) /\ Become(d, g) /\ UNCHANGED <<link, bounds>>
  BY DEF AddUser, In
<1>2. StoreOK /\ FlowsOK /\ LinkOK /\ BoundsOK /\ WrongOK
  BY DEF IInv
<1>3. /\ r.by = d /\ r.cmd = "createUser" /\ r.target = 0 /\ r.meant = Nobody
      /\ RequestOK(r) /\ Means(r, users, creds)
  <2>1. /\ r.by = d /\ r.cmd = "createUser" /\ r.target = 0 /\ r.meant = Nobody
    BY DEF Request
  <2>2. 0 \in Ids
    BY SizesAssumption DEF Ids
  <2> QED BY <2>1, <2>2 DEF RequestOK, Commands, Means
<1>4. r.meant \in 0..births
  BY <1>2, <1>3, Known DEF Nobody
<1> HIDE DEF r
<1>5. StoreOK' /\ StoreMoves /\ WrongOK'
  BY <1>1, <1>2, <1>3, <1>4, CarryOutMoves
<1>6. LinkOK' /\ BoundsOK' /\ late' = late
  BY <1>1, <1>2, LinkStays, BoundsStay DEF link
<1>7. Sound(flow[d], users', creds', births')
  <2>1. Sound(flow[d], users, creds, births)
    BY <1>2, Known
  <2> QED BY <1>2, <1>5, <2>1, SoundStays DEF StoreOK, StoreMoves
<1>8. /\ g.at = flow[d].at /\ g.userid = flow[d].userid /\ g.title = flow[d].title
      /\ g.options = flow[d].options /\ g.scan = flow[d].scan /\ g.known = flow[d].known
      /\ g \in FlowType(births')
  <2>1. births' \in 0..births'
    BY <1>5, SizesAssumption DEF StoreOK, StoreTypes
  <2> QED BY <1>7, <2>1 DEF Sound, FlowType
<1> HIDE DEF g
<1>9. Sound(g, users', creds', births')
  <2>1. Offers(g, births') /\ Named(g, users', creds') /\ Kept(g, users', creds')
    BY <1>7, <1>8 DEF Sound, Offers, Named, Kept
  <2>2. Clear(g, creds') /\ Scanned(g, users', creds')
    BY <1>7, <1>8 DEF Sound, Clear, Scanned
  <2>3. Missed(g, users')
    BY <1>1, <1>8 DEF Missed
  <2> QED BY <1>8, <2>1, <2>2, <2>3 DEF Sound
<1> QED BY <1>1, <1>5, <1>6, <1>9, DialogStep

LEMMA AddUserFailsOK == ASSUME IInv, NEW d \in Dialogs, AddUserFails(d) PROVE IInv'
<1> DEFINE r == Request(d, "createUser", 0, 0, Nobody)
<1>1. /\ UNCHANGED <<users, creds, births>> /\ enrolling' = enrolling
      /\ UNCHANGED <<family, count, loaded>> /\ UNCHANGED flow /\ UNCHANGED wrong
      /\ troubles < MaxTroubles /\ troubles' = troubles + 1 /\ UNCHANGED others
      /\ late' = NoRequest \/ late' = r
  BY DEF AddUserFails, store
<1>2. StoreOK /\ FlowsOK /\ LinkOK /\ BoundsOK /\ WrongOK
  BY DEF IInv
<1>3. StoreOK' /\ StoreMoves /\ WrongOK' /\ LinkOK' /\ BoundsOK'
  BY <1>1, <1>2, StoreStays, WrongStays, LinkStays, Trouble
<1>4. CASE late' = NoRequest
  BY <1>1, <1>3, <1>4, DoorStep
<1>5. CASE late' = r
  <2>1. FlowsOK'
    BY <1>1, <1>2, <1>3, FlowsStay
  <2>2. r.cmd = "createUser" /\ r.meant = Nobody
    BY DEF Request
  <2>3. r \in RequestType(births')
    <3>1. 0 \in Ids /\ 0 \in 0..births' /\ 0 \in Slots \cup {0}
      BY <1>3, SizesAssumption DEF Ids, StoreOK, StoreTypes
    <3> QED BY <3>1 DEF Request, RequestType, Nobody
  <2> HIDE DEF r
  <2>4. Means(r, users', creds')
    BY <2>2 DEF Means
  <2>5. LateOK'
    BY <1>5, <2>2, <2>3, <2>4 DEF LateOK
  <2> QED BY <1>3, <2>1, <2>5 DEF IInv
<1> QED BY <1>1, <1>4, <1>5

\* A dialog that gives up leaves its request behind, and its own end.
LEMMA CannotConnectOK == ASSUME IInv, NEW d \in Dialogs, CannotConnect(d) PROVE IInv'
<1>1. /\ UNCHANGED <<users, creds, births>> /\ enrolling' = enrolling
      /\ UNCHANGED <<family, count, loaded>> /\ UNCHANGED wrong /\ UNCHANGED others
      /\ flow[d].at # "ended" /\ Become(d, Ended(d))
  BY DEF CannotConnect, store, End
<1>2. StoreOK /\ FlowsOK /\ LinkOK /\ BoundsOK /\ WrongOK
  BY DEF IInv
<1>3. \/ UNCHANGED <<late, troubles>>
      \/ /\ troubles < MaxTroubles /\ troubles' = troubles + 1
         /\ late' = NoRequest \/ late' \in Requests(d)
  BY DEF CannotConnect
<1>4. BoundsOK'
  BY <1>1, <1>2, <1>3, BoundsStay, Trouble DEF bounds
<1>5. StoreOK' /\ StoreMoves /\ WrongOK' /\ LinkOK'
  BY <1>1, <1>2, StoreStays, WrongStays, LinkStays
<1>6. Sound(Ended(d), users, creds, births)
  BY <1>2, EndedSound
<1>7. CASE late' = late \/ late' = NoRequest
  BY <1>1, <1>4, <1>5, <1>6, <1>7, DialogStep
<1>8. ASSUME NEW r \in Requests(d), late' = r PROVE IInv'
  <2>1. FlowsOK' /\ flow'[d] = Ended(d)
    BY <1>1, <1>2, <1>5, <1>6, FlowChanges
  <2>2. flow'[d].at = "ended" /\ flow'[d].known = flow[d].known
    BY <1>2, <2>1, EndedSound
  <2>3. /\ r \in RequestType(births) /\ Means(r, users, creds)
        /\ r.by = d /\ r.cmd # "createUser"
        /\ r.cmd = "enroll" => r.slot \in Slots /\ Spared(creds, r.target, r.slot, flow[d].known)
    BY <1>2, RequestsMean
  <2>4. r \in RequestType(births') /\ Means(r, users', creds')
    BY <1>1, <2>3
  <2>5. r.cmd = "enroll" => Spared(creds', r.target, r.slot, flow'[d].known)
    BY <1>1, <2>2, <2>3
  <2>6. LateOK'
    BY <1>8, <2>2, <2>3, <2>4, <2>5 DEF LateOK
  <2> QED BY <1>4, <1>5, <2>1, <2>6 DEF IInv
<1> QED BY <1>3, <1>7, <1>8

\* The dialog has seen the end of its enrollment.
LEMMA EnrollmentOverOK == ASSUME IInv, NEW d \in Dialogs, EnrollmentOver(d) PROVE IInv'
<1>1. /\ UNCHANGED <<users, creds, births>>
      /\ enrolling' = enrolling \/ enrolling' = NoEnrollment
      /\ UNCHANGED <<family, count, loaded>> /\ late' = late /\ UNCHANGED wrong
      /\ UNCHANGED bounds
      /\ flow[d].at # "ended" /\ Become(d, Ended(d))
  BY DEF EnrollmentOver, In, End, link
<1>2. StoreOK /\ FlowsOK /\ LinkOK /\ BoundsOK /\ WrongOK
  BY DEF IInv
<1>3. StoreOK' /\ StoreMoves /\ WrongOK' /\ LinkOK' /\ BoundsOK'
  BY <1>1, <1>2, StoreStays, WrongStays, LinkStays, BoundsStay
<1>4. Sound(Ended(d), users, creds, births)
  BY <1>2, EndedSound
<1> QED BY <1>1, <1>3, <1>4, DialogStep

-----------------------------------------------------------------------------
(* The door and the entry.                                                 *)

\* A request whose dialog has given up.
LEMMA LateArrivesOK == ASSUME IInv, LateArrives PROVE IInv'
<1>1. /\ late # NoRequest /\ late' = NoRequest
      /\ CarryOut(late) \/ UNCHANGED <<store, wrong>>
      /\ UNCHANGED <<family, count, loaded>> /\ UNCHANGED flow /\ UNCHANGED bounds
  BY DEF LateArrives
<1>2. StoreOK /\ FlowsOK /\ LinkOK /\ BoundsOK /\ WrongOK /\ LateOK
  BY DEF IInv
<1>3. LinkOK' /\ BoundsOK'
  BY <1>1, <1>2, LinkStays, BoundsStay
<1>4. /\ late \in RequestType(births) /\ Means(late, users, creds)
      /\ late.cmd = "enroll" => late.slot \in Slots
  BY <1>1, <1>2 DEF LateOK
<1>5. RequestOK(late) /\ late.meant \in 0..births
  BY <1>4 DEF RequestType, RequestOK, Commands
<1>6. CASE CarryOut(late)
  <2>1. StoreOK' /\ StoreMoves /\ WrongOK'
    BY <1>2, <1>4, <1>5, <1>6, CarryOutMoves
  <2> QED BY <1>1, <1>3, <2>1, DoorStep
<1>7. CASE UNCHANGED <<store, wrong>>
  <2>1. UNCHANGED <<users, creds, births>> /\ enrolling' = enrolling /\ UNCHANGED wrong
    BY <1>7 DEF store
  <2>2. StoreOK' /\ StoreMoves /\ WrongOK'
    BY <1>2, <2>1, StoreStays, WrongStays
  <2> QED BY <1>1, <1>3, <2>2, DoorStep
<1> QED BY <1>1, <1>6, <1>7

LEMMA CapturesOK == ASSUME IInv, Captures PROVE IInv'
<1>1. /\ UNCHANGED <<family, count, loaded>> /\ late' = late /\ UNCHANGED flow
      /\ UNCHANGED wrong /\ UNCHANGED bounds
  BY DEF Captures, link
<1>2. StoreOK /\ LinkOK /\ BoundsOK /\ WrongOK
  BY DEF IInv
<1>3. StoreOK' /\ StoreMoves
  BY <1>2, CaptureMoves
<1>4. WrongOK' /\ LinkOK' /\ BoundsOK'
  BY <1>1, <1>2, <1>3, WrongStays, LinkStays, BoundsStay
<1> QED BY <1>1, <1>3, <1>4, DoorStep

LEMMA AppearsOK == ASSUME IInv, Appears PROVE IInv'
<1>1. /\ UNCHANGED <<users, creds, births>> /\ enrolling' = enrolling
      /\ UNCHANGED <<family, count, loaded>> /\ late' = late /\ UNCHANGED flow
      /\ UNCHANGED wrong /\ UNCHANGED bounds
  BY DEF Appears, link
<1>2. StoreOK /\ LinkOK /\ BoundsOK /\ WrongOK
  BY DEF IInv
<1>3. StoreOK' /\ StoreMoves /\ WrongOK' /\ LinkOK' /\ BoundsOK'
  BY <1>1, <1>2, StoreStays, WrongStays, LinkStays, BoundsStay
<1> QED BY <1>1, <1>3, DoorStep

LEMMA GivesUpOK == ASSUME IInv, GivesUp PROVE IInv'
<1>1. /\ UNCHANGED <<users, creds, births>> /\ enrolling' = NoEnrollment
      /\ UNCHANGED <<family, count, loaded>> /\ late' = late /\ UNCHANGED flow
      /\ UNCHANGED wrong /\ UNCHANGED bounds
  BY DEF GivesUp, link
<1>2. StoreOK /\ LinkOK /\ BoundsOK /\ WrongOK
  BY DEF IInv
<1>3. StoreOK' /\ StoreMoves /\ WrongOK' /\ LinkOK' /\ BoundsOK'
  BY <1>1, <1>2, StoreStays, WrongStays, LinkStays, BoundsStay
<1> QED BY <1>1, <1>3, DoorStep

LEMMA OtherOK == ASSUME IInv, Other PROVE IInv'
<1>1. /\ others < MaxOthers /\ others' = others + 1 /\ UNCHANGED troubles
      /\ UNCHANGED <<family, count, loaded>> /\ late' = late /\ UNCHANGED flow
      /\ UNCHANGED wrong
  BY DEF Other, link
<1>2. StoreOK /\ LinkOK /\ BoundsOK /\ WrongOK
  BY DEF IInv
<1>3. PICK cmd \in Commands, i \in Ids :
          \E s \in IF cmd = "enroll" THEN Free(i) ELSE {0} :
             LET r == Request(Phone, cmd, i, s, Nobody) IN Accepts(r) /\ Effect(r)
  BY DEF Other, Commands
<1>p. PICK s \in IF cmd = "enroll" THEN Free(i) ELSE {0} :
          LET r == Request(Phone, cmd, i, s, Nobody) IN Accepts(r) /\ Effect(r)
  BY <1>3
<1> DEFINE r == Request(Phone, cmd, i, s, Nobody)
<1>4. RequestOK(r)
  BY <1>p DEF Request, RequestOK, Free
<1>5. Accepts(r) /\ Effect(r)
  BY <1>p
<1> HIDE DEF r
<1>6. StoreOK' /\ StoreMoves
  BY <1>2, <1>4, <1>5, EffectMoves
<1>7. BoundsOK'
  BY <1>1, <1>2, SizesAssumption DEF BoundsOK
<1>8. WrongOK' /\ LinkOK'
  BY <1>1, <1>2, <1>6, WrongStays, LinkStays
<1> QED BY <1>1, <1>6, <1>7, <1>8, DoorStep

LEMMA EntryOK == ASSUME IInv, Poll \/ Load PROVE IInv'
<1>1. /\ UNCHANGED <<users, creds, births>> /\ enrolling' = enrolling
      /\ family' = family /\ count' = Counted /\ loaded' \in BOOLEAN /\ late' = late
      /\ UNCHANGED flow /\ UNCHANGED wrong /\ UNCHANGED bounds
  <2>1. CASE Poll
    <3>1. loaded \in BOOLEAN
      BY DEF IInv, LinkOK
    <3> QED BY <2>1, <3>1 DEF Poll, store
  <2>2. CASE Load
    BY <2>2 DEF Load, store
  <2> QED BY <2>1, <2>2
<1>2. StoreOK /\ LinkOK /\ BoundsOK /\ WrongOK
  BY DEF IInv
<1>3. LinkOK'
  BY <1>1, <1>2, CountedOK DEF LinkOK, Counts
<1>4. StoreOK' /\ StoreMoves /\ WrongOK' /\ BoundsOK'
  BY <1>1, <1>2, StoreStays, WrongStays, BoundsStay
<1> QED BY <1>1, <1>3, <1>4, DoorStep

LEMMA UnloadOK == ASSUME IInv, Unload PROVE IInv'
<1>1. /\ UNCHANGED <<users, creds, births>> /\ enrolling' = enrolling
      /\ UNCHANGED <<family, count>> /\ loaded' = FALSE
      /\ late' = late \/ late' = NoRequest
      /\ UNCHANGED wrong /\ UNCHANGED others
      /\ troubles < MaxTroubles /\ troubles' = troubles + 1
      /\ flow' = [d \in Dialogs |-> IF flow[d].at \in {"listing", "checking", "starting"}
                                    THEN Ended(d) ELSE flow[d]]
  BY DEF Unload, store
<1>2. StoreOK /\ FlowsOK /\ LinkOK /\ BoundsOK /\ LateOK /\ WrongOK
  BY DEF IInv
<1>3. StoreOK' /\ StoreMoves /\ WrongOK' /\ BoundsOK'
  BY <1>1, <1>2, StoreStays, WrongStays, Trouble
<1>4. LinkOK'
  BY <1>1, <1>2 DEF LinkOK, Counts
<1>5. FlowsOK'
  <2>1. ASSUME NEW d \in Dialogs PROVE Sound(flow'[d], users', creds', births')
    <3>1. Sound(Ended(d), users, creds, births) /\ Sound(flow[d], users, creds, births)
      BY <1>2, EndedSound, Known
    <3>2. Sound(flow'[d], users, creds, births)
      BY <1>1, <3>1
    <3> QED BY <1>2, <1>3, <3>2, SoundStays DEF StoreOK, StoreMoves
  <2>2. DOMAIN flow' = Dialogs
    BY <1>1
  <2> QED BY <2>1, <2>2 DEF FlowsOK
<1>6. LateOK'
  <2>1. \A d \in Dialogs : flow[d].at = "ended" => flow'[d] = flow[d]
    BY <1>1
  <2> QED BY <1>1, <1>2, <1>3, <2>1, LateStays
<1> QED BY <1>3, <1>4, <1>5, <1>6 DEF IInv

-----------------------------------------------------------------------------

\* The administrator and perhaps another user; no dialog has begun.
LEMMA IInvInit == Init => IInv
<1> SUFFICES ASSUME Init PROVE IInv
  OBVIOUS
<1>1. PICK n \in 1..2 :
          /\ users = [i \in Ids |-> IF i < n THEN i + 1 ELSE Nobody]
          /\ count \in {n, Unknown}
  BY DEF Init
<1> DEFINE slot == CHOOSE s \in Slots : TRUE
           first == [apid |-> 0, id |-> 0, slot |-> slot, print |-> 3]
<1>2. slot \in Slots
  BY SizesAssumption
<1> HIDE DEF slot
<1>3. /\ creds = {first} /\ enrolling = NoEnrollment /\ births = 3
      /\ family \in {"plain", "io_smart"} /\ loaded = TRUE /\ late = NoRequest
      /\ flow = [d \in Dialogs |-> NoFlow] /\ wrong = {}
      /\ others = 0 /\ troubles = 0
  BY DEF Init, slot
<1>4. /\ \A i \in Ids : i \in Nat
      /\ 0 \in Ids /\ 3 \in 0..MaxBirths /\ 3 \in 1..3 /\ Nobody = 0
      /\ LastId \in Nat /\ LastId >= 1
  BY SizesAssumption DEF Ids, Nobody
<1>5. /\ users \in [Ids -> 0..3]
      /\ \A i \in Ids : users[i] # 3
      /\ users[0] # Nobody
      /\ \A i, j \in Ids : users[i] = users[j] => users[i] = Nobody \/ i = j
  <2>1. \A i \in Ids : users[i] = IF i < n THEN i + 1 ELSE 0
    BY <1>1, <1>4
  <2>2. ASSUME NEW i \in Ids PROVE users[i] \in 0..3 /\ users[i] # 3
    <3>1. CASE i < n
      BY <1>4, <2>1, <3>1
    <3>2. CASE ~(i < n)
      BY <2>1, <3>2
    <3> QED BY <3>1, <3>2
  <2>3. users[0] # 0
    BY <1>4, <2>1
  <2>4. ASSUME NEW i \in Ids, NEW j \in Ids, users[i] = users[j], users[i] # 0 PROVE i = j
    <3>1. users[i] = i + 1 /\ users[j] = j + 1
      BY <2>1, <2>4
    <3>2. i \in Nat /\ j \in Nat /\ i + 1 = j + 1
      BY <1>4, <2>4, <3>1
    <3> QED BY <3>2
  <2> QED BY <1>1, <1>4, <2>2, <2>3, <2>4
<1>6. StoreOK
  <2>1. first \in Credential(3)
    BY <1>2, <1>4 DEF Credential
  <2>2. first.id = 0 /\ first.print = 3
    OBVIOUS
  <2> HIDE DEF first
  <2>3. StoreTypes(users, creds, births)
    BY <1>3, <1>4, <1>5, <2>1, <2>2 DEF StoreTypes
  <2>4. Unique(users, creds)
    BY <1>3, <1>5, <2>2 DEF Unique
  <2> QED BY <1>3, <2>3, <2>4 DEF StoreOK, EnrollingOK, Running
<1>7. LinkOK
  <2>1. n \in 0..LastId + 1
    BY <1>4
  <2> QED BY <1>1, <1>3, <2>1 DEF LinkOK, Counts
<1>8. BoundsOK
  BY <1>3, SizesAssumption DEF BoundsOK
<1>9. FlowsOK
  <2>1. NoFlow \in FlowType(births)
    BY <1>3, NoFlowTyped
  <2>2. NoFlow.at = "start" /\ NoFlow.scan = NoScan /\ NoFlow.title = Nobody
    BY DEF NoFlow
  <2>3. Sound(NoFlow, users, creds, births)
    BY <2>1, <2>2, Plain
  <2> QED BY <1>3, <2>3 DEF FlowsOK
<1>10. LateOK /\ WrongOK
  BY <1>3 DEF LateOK, WrongOK
<1> QED BY <1>6, <1>7, <1>8, <1>9, <1>10 DEF IInv

\* Every step of the door, the entry and the dialogs keeps the invariant.
LEMMA IInvStep == IInv /\ [Next]_vars => IInv'
<1> SUFFICES ASSUME IInv, [Next]_vars PROVE IInv'
  OBVIOUS
<1>1. CASE Door
  BY <1>1, LateArrivesOK, CapturesOK, AppearsOK, GivesUpOK, OtherOK DEF Door
<1>2. CASE Entry
  BY <1>2, EntryOK, UnloadOK DEF Entry
<1>3. ASSUME NEW d \in Dialogs, Dialog(d) PROVE IInv'
  BY <1>3, OpenOK, AddUserOK, AddUserFailsOK, ListOK, ReadNextOK, ListedOK, SelectOK,
     OpenSlotsOK, SubmitSlotOK, CheckOK, StartEnrollmentOK, EnrollmentOverOK, OpenRemoveOK,
     RemoveCredentialOK, DeleteUserOK, CannotConnectOK DEF Dialog
<1>4. CASE UNCHANGED vars
  <2>1. /\ UNCHANGED <<users, creds, births>> /\ enrolling' = enrolling
        /\ UNCHANGED <<family, count, loaded>> /\ late' = late /\ UNCHANGED flow
        /\ UNCHANGED wrong /\ UNCHANGED bounds
    BY <1>4 DEF vars, store, link
  <2>2. StoreOK /\ LinkOK /\ BoundsOK /\ WrongOK
    BY DEF IInv
  <2>3. StoreOK' /\ StoreMoves /\ WrongOK' /\ LinkOK' /\ BoundsOK'
    BY <2>1, <2>2, StoreStays, WrongStays, LinkStays, BoundsStay
  <2> QED BY <2>1, <2>3, DoorStep
<1> QED BY <1>1, <1>2, <1>3, <1>4 DEF Next

\* The invariant from which the rest follows: the store of the door is
\* consistent, and what the dialogs and a late request remember of it is true
\* of whatever is still there.
THEOREM Invariance == Spec => []IInv
BY IInvInit, IInvStep, PTL DEF Spec

\* Only a capture hides anything, and what it has just captured.
LEMMA EffectHidesNothing ==
    ASSUME NEW r, r.cmd \in Commands, Effect(r)
    PROVE  hidden' = hidden /\ births' \in {births, births + 1}
BY DEF Effect, Commands

LEMMA HiddenMoves ==
    ASSUME IInv, Next
    PROVE  /\ births' \in {births, births + 1}
           /\ hidden' \subseteq hidden \/ (births' = births + 1 /\ hidden' = hidden \cup {births'})
<1> DEFINE Fine == /\ births' \in {births, births + 1}
                   /\ \/ hidden' \subseteq hidden
                      \/ births' = births + 1 /\ hidden' = hidden \cup {births'}
<1>1. ASSUME NEW r, r.cmd \in Commands, Effect(r) PROVE Fine
  BY <1>1, EffectHidesNothing
<1>2. ASSUME UNCHANGED store PROVE Fine
  BY <1>2 DEF store
<1>3. CASE LateArrives
  <2>1. late.cmd \in Commands
    BY <1>3 DEF LateArrives, IInv, LateOK, RequestType, Commands
  <2> QED BY <1>1, <1>2, <1>3, <2>1 DEF LateArrives, CarryOut, store
<1>4. CASE Captures \/ Appears \/ GivesUp
  BY <1>4 DEF Captures, Appears, GivesUp
<1>5. CASE Other
  <2>1. PICK cmd \in Commands, i \in Ids :
            \E s \in IF cmd = "enroll" THEN Free(i) ELSE {0} :
               LET r == Request(Phone, cmd, i, s, Nobody) IN Accepts(r) /\ Effect(r)
    BY <1>5 DEF Other, Commands
  <2>2. PICK s : Effect(Request(Phone, cmd, i, s, Nobody))
    BY <2>1
  <2>3. Request(Phone, cmd, i, s, Nobody).cmd \in Commands
    BY DEF Request
  <2> QED BY <1>1, <2>2, <2>3
<1>6. CASE Entry
  BY <1>2, <1>6 DEF Entry, Poll, Unload, Load
<1>7. ASSUME NEW d \in Dialogs, Dialog(d) PROVE Fine
  <2>1. CASE Open(d) \/ AddUserFails(d) \/ List(d) \/ ReadNext(d) \/ Listed(d) \/ Select(d)
             \/ OpenSlots(d) \/ SubmitSlot(d) \/ Check(d) \/ OpenRemove(d) \/ CannotConnect(d)
    BY <1>2, <2>1 DEF Open, AddUserFails, List, ReadNext, Listed, Select, OpenSlots, SubmitSlot,
                      Check, OpenRemove, CannotConnect
  <2>2. CASE EnrollmentOver(d)
    BY <2>2 DEF EnrollmentOver
  <2>3. CASE AddUser(d)
    <3>1. Effect(Request(d, "createUser", 0, 0, Nobody))
      BY <2>3 DEF AddUser, CarryOut
    <3>2. Request(d, "createUser", 0, 0, Nobody).cmd \in Commands
      BY DEF Request, Commands
    <3> QED BY <1>1, <3>1, <3>2
  <2>4. CASE StartEnrollment(d) \/ RemoveCredential(d) \/ DeleteUser(d)
    <3>1. ASSUME NEW r \in EnrollRequests(d) \cup RemoveRequests(d) \cup {DeleteRequest(d)}
          PROVE  r.cmd \in Commands
      BY DEF EnrollRequests, RemoveRequests, DeleteRequest, Request, Commands
    <3> HIDE DEF Fine
    <3> QED BY <1>1, <1>2, <2>4, <3>1 DEF StartEnrollment, RemoveCredential, DeleteUser, CarryOut,
                                          store
  <2> QED BY <1>7, <2>1, <2>2, <2>3, <2>4 DEF Dialog
<1> QED BY <1>3, <1>4, <1>5, <1>6, <1>7 DEF Next, Door

LEMMA NoOtherIsHidden == Spec => []HiddenOK
<1>1. Init => HiddenOK
  BY DEF Init, HiddenOK
<1>2. IInv /\ HiddenOK /\ [Next]_vars => HiddenOK'
  <2> SUFFICES ASSUME IInv, HiddenOK, [Next]_vars PROVE HiddenOK'
    OBVIOUS
  <2>1. births \in Nat
    BY SizesAssumption DEF IInv, StoreOK, StoreTypes
  <2>2. CASE UNCHANGED vars
    BY <2>2 DEF vars, store, HiddenOK
  <2>3. CASE Next
    <3>1. 1..births \subseteq 1..births' /\ (births' = births + 1 => births' \in 1..births')
      BY <2>1, <2>3, HiddenMoves
    <3>2. hidden' \subseteq hidden \/ (births' = births + 1 /\ hidden' = hidden \cup {births'})
      BY <2>3, HiddenMoves
    <3> QED BY <3>1, <3>2 DEF HiddenOK
  <2> QED BY <2>2, <2>3
<1> QED BY <1>1, <1>2, Invariance, PTL DEF Spec

\* The types of the store, of what the entry knows, of the dialogs and of a
\* request that may still arrive.
THEOREM TypeCorrect == Spec => []TypeOK
<1>1. IInv /\ HiddenOK => TypeOK
  <2> SUFFICES ASSUME IInv, HiddenOK PROVE TypeOK
    OBVIOUS
  <2>1. /\ births \in 0..MaxBirths
        /\ users \in [Ids -> 0..births]
        /\ creds \in SUBSET [apid : Ids, id : Ids, slot : Slots, print : 1..births]
        /\ \A b, c \in creds : b.apid = c.apid \/ (b.id = c.id /\ b.slot = c.slot) => b = c
        /\ \A c \in creds : users[c.id] # Nobody
        /\ Running => enrolling \in [by : Dialogs \cup {Phone}, id : Ids, slot : Slots]
    BY DEF IInv, StoreOK, StoreTypes, Unique, EnrollingOK, Enrollments, Credential
  <2>2. /\ family \in {"plain", "io_smart"}
        /\ count \in {Unknown} \cup 0..LastId + 1
        /\ loaded \in BOOLEAN
        /\ others \in 0..MaxOthers /\ troubles \in 0..MaxTroubles
    BY DEF IInv, LinkOK, BoundsOK, Counts
  <2>3. late = NoRequest \/ late \in
            [by : Dialogs, cmd : {"createUser", "deleteUser", "deleteAp", "enroll"},
             target : Ids, slot : Slots \cup {0}, meant : 0..births]
    BY DEF IInv, LateOK, RequestType
  <2>4. ASSUME NEW d \in Dialogs
        PROVE  /\ flow[d].at \in Places
               /\ flow[d].userid \in Ids
               /\ {flow[d].title, flow[d].made} \cup flow[d].known \subseteq 0..births
               /\ flow[d].options \subseteq Options
               /\ flow[d].at \in {"select_user", "slots", "remove_credential"}
                      => flow[d].options # {}
               /\ flow[d].scan.next \in 0..ScanLimit
               /\ flow[d].scan.found \subseteq [id : Ids, who : 1..births]
    <3>1. flow[d] \in FlowType(births) /\ Offers(flow[d], births)
          /\ flow[d].scan \in ScanType(births)
      BY Known DEF IInv, Sound
    <3>2. flow[d].options \subseteq Options
      BY <3>1 DEF FlowType, Options, Found, Credential
    <3>3. {flow[d].title, flow[d].made} \cup flow[d].known \subseteq 0..births
      <4>1. 1..births \subseteq 0..births
        BY Known DEF IInv
      <4> QED BY <3>1, <4>1 DEF FlowType
    <3> HIDE DEF Places
    <3> QED BY <3>1, <3>2, <3>3 DEF FlowType, ScanType, Found, Offers
  <2>5. wrong \subseteq 0..births
    BY DEF IInv, WrongOK
  <2> QED BY <2>1, <2>2, <2>3, <2>4, <2>5 DEF TypeOK, HiddenOK
<1> QED BY <1>1, Invariance, NoOtherIsHidden, PTL

\* A form or a request that names somebody hits nobody else, as long as the
\* one it names is there: however long the form was open, whatever others did
\* meanwhile, and however late the request arrives.
THEOREM OnlyTheGoneAreMistaken == Spec => []WrongOnlyIfGone
<1>1. IInv => WrongOnlyIfGone
  <2> SUFFICES ASSUME IInv, NEW n \in wrong, n \in Present \cup {c.print : c \in creds}
               PROVE  FALSE
    BY DEF WrongOnlyIfGone
  <2>1. n \in There(users, creds)
    BY DEF Present, There
  <2>2. n # Nobody
    <3>1. \A c \in creds : c.print # Nobody
      BY DEF IInv, StoreOK, StoreTypes, Credential, Nobody
    <3> QED BY <3>1 DEF Present
  <2> QED BY <2>1, <2>2 DEF IInv, WrongOK
<1> QED BY <1>1, Invariance, PTL

\* The enumeration for the form misses somebody who was there when it began
\* and still is only if it ended at a usercount that was too low already, or
\* that newcomers have filled.
THEOREM NobodyElseIsMissed == Spec => []ListedUnlessOvertaken
<1>1. IInv => ListedUnlessOvertaken
  BY DEF IInv, FlowsOK, Sound, Missed, ListedUnlessOvertaken, In
<1> QED BY <1>1, Invariance, PTL

\* Who has the door enroll, and what is in the slot then.
LEMMA EnrollsWhat ==
    ASSUME NEW r, r.cmd \in Commands, Effect(r), enrolling' # enrolling
    PROVE  r.cmd = "enroll" /\ enrolling' = [by |-> r.by, id |-> r.target, slot |-> r.slot]
BY DEF Effect, Commands

\* A dialog never has the door enroll over a credential that could be read when
\* its slot was submitted, not even by a request that was given up.  What was
\* captured and could not be read yet, or was enrolled after that, is not spared.
THEOREM SlotIsRespected == Spec => NoKnownSlotOverwritten
<1> DEFINE P == \A d \in Dialogs : enrolling'.by = d /\ enrolling.by # d =>
                    \A c \in Of(enrolling'.id) :
                        c.slot = enrolling'.slot => c.print \notin flow[d].known
<1>1. IInv /\ [Next]_vars => P
  <2> SUFFICES ASSUME IInv, [Next]_vars, NEW d \in Dialogs,
                      enrolling'.by = d, enrolling.by # d,
                      NEW c \in Of(enrolling'.id), c.slot = enrolling'.slot
               PROVE  c.print \notin flow[d].known
    OBVIOUS
  <2>0. /\ enrolling' # enrolling /\ enrolling' # NoEnrollment
        /\ c \in creds /\ c.id = enrolling'.id
    BY SizesAssumption DEF NoEnrollment, Of
  <2>n. ASSUME Spared(creds, enrolling'.id, enrolling'.slot, flow[d].known)
        PROVE  c.print \notin flow[d].known
    BY <2>0, <2>n DEF Spared
  <2>1. ASSUME LateArrives PROVE Spared(creds, enrolling'.id, enrolling'.slot, flow[d].known)
    <3>1. late # NoRequest /\ CarryOut(late)
      BY <2>0, <2>1 DEF LateArrives, store
    <3>2. /\ late \in RequestType(births)
          /\ late.cmd = "enroll" => Spared(creds, late.target, late.slot, flow[late.by].known)
      BY <3>1 DEF IInv, LateOK
    <3>3. /\ late.cmd = "enroll"
          /\ enrolling' = [by |-> late.by, id |-> late.target, slot |-> late.slot]
      BY <2>0, <3>1, <3>2, EnrollsWhat DEF CarryOut, RequestType, Commands
    <3>4. late.by = d /\ enrolling'.id = late.target /\ enrolling'.slot = late.slot
      BY <3>3
    <3> QED BY <3>2, <3>3, <3>4
  <2>2. ASSUME NEW e \in Dialogs, NEW r \in Requests(e), CarryOut(r)
        PROVE  Spared(creds, enrolling'.id, enrolling'.slot, flow[d].known)
    <3>1. /\ RequestOK(r) /\ r.by = e
          /\ r.cmd = "enroll" => Spared(creds, r.target, r.slot, flow[e].known)
      BY <2>2, RequestsMean DEF IInv
    <3>2. r.cmd = "enroll" /\ enrolling' = [by |-> r.by, id |-> r.target, slot |-> r.slot]
      BY <2>0, <2>2, <3>1, EnrollsWhat DEF CarryOut, RequestOK
    <3>3. e = d /\ enrolling'.id = r.target /\ enrolling'.slot = r.slot
      BY <3>1, <3>2
    <3> QED BY <3>1, <3>2, <3>3
  <2>3. ASSUME Other PROVE FALSE
    <3>1. PICK cmd \in Commands, i \in Ids :
              \E s \in IF cmd = "enroll" THEN Free(i) ELSE {0} :
                 LET r == Request(Phone, cmd, i, s, Nobody) IN Accepts(r) /\ Effect(r)
      BY <2>3 DEF Other, Commands
    <3>2. PICK s : Effect(Request(Phone, cmd, i, s, Nobody))
      BY <3>1
    <3>3. /\ Request(Phone, cmd, i, s, Nobody).by = Phone
          /\ Request(Phone, cmd, i, s, Nobody).cmd \in Commands
      BY DEF Request
    <3>4. enrolling'.by = Phone
      BY <2>0, <3>2, <3>3, EnrollsWhat
    <3> QED BY <3>4, SizesAssumption
  <2>4. ASSUME Captures \/ Appears \/ GivesUp PROVE FALSE
    BY <2>0, <2>4 DEF Captures, Appears, GivesUp
  <2>5. ASSUME Entry \/ UNCHANGED vars PROVE FALSE
    BY <2>0, <2>5 DEF Entry, Poll, Load, Unload, store, vars
  <2>6. ASSUME NEW e \in Dialogs, Dialog(e)
        PROVE  Spared(creds, enrolling'.id, enrolling'.slot, flow[d].known)
    <3>1. CASE Open(e) \/ AddUserFails(e) \/ List(e) \/ ReadNext(e) \/ Listed(e) \/ Select(e)
      BY <2>0, <3>1 DEF Open, AddUserFails, List, ReadNext, Listed, Select, store
    <3>2. CASE OpenSlots(e) \/ SubmitSlot(e) \/ Check(e) \/ OpenRemove(e) \/ CannotConnect(e)
      BY <2>0, <3>2 DEF OpenSlots, SubmitSlot, Check, OpenRemove, CannotConnect, store
    <3>3. CASE EnrollmentOver(e)
      BY <2>0, <3>3 DEF EnrollmentOver
    <3>4. CASE AddUser(e)
      <4>1. Effect(Request(e, "createUser", 0, 0, Nobody))
        BY <3>4 DEF AddUser, CarryOut
      <4>2. Request(e, "createUser", 0, 0, Nobody).cmd = "createUser"
        BY DEF Request
      <4>3. "createUser" \in Commands
        BY DEF Commands
      <4> QED BY <2>0, <4>1, <4>2, <4>3, EnrollsWhat
    <3>5. CASE StartEnrollment(e)
      <4>1. flow[e].at = "starting"
        BY <3>5 DEF StartEnrollment, In
      <4>2. PICK r \in EnrollRequests(e) : CarryOut(r)
        BY <2>0, <3>5 DEF StartEnrollment, store
      <4>3. r \in Requests(e)
        BY <4>1 DEF Requests, In
      <4> QED BY <2>2, <4>2, <4>3
    <3>6. CASE RemoveCredential(e)
      <4>1. flow[e].at = "remove_credential"
        BY <3>6 DEF RemoveCredential, In
      <4>2. PICK r \in RemoveRequests(e) : CarryOut(r)
        BY <3>6 DEF RemoveCredential
      <4>3. r \in Requests(e)
        BY <4>1 DEF Requests, In
      <4> QED BY <2>2, <4>2, <4>3
    <3>7. CASE DeleteUser(e)
      <4>1. flow[e].at = "user_menu" /\ CarryOut(DeleteRequest(e))
        BY <3>7 DEF DeleteUser, In
      <4>2. DeleteRequest(e) \in Requests(e)
        BY <4>1 DEF Requests, In
      <4> QED BY <2>2, <4>1, <4>2
    <3> QED BY <2>6, <3>1, <3>2, <3>3, <3>4, <3>5, <3>6, <3>7 DEF Dialog
  <2> QED BY <2>n, <2>1, <2>2, <2>3, <2>4, <2>5, <2>6 DEF Next, Door
<1> QED BY <1>1, Invariance, PTL DEF Spec, NoKnownSlotOverwritten

=============================================================================
