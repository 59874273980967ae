---------------------------- MODULE RotatingKeys ----------------------------
\* The rotating keys behind a store's door QR code (checkin/services.py,
\* views_admin.py, the rotate_checkin_keys command).  Time is counted in ticks.  A row
\* leaves the model when it expires, or a tick after its grace: no lookup takes it then.
EXTENDS Integers, SequencesExt
CONSTANTS
  Cron,       \* the rotate_checkin_keys command
  Staff,      \* processes serving staff
  Minute,     \* ticks of a minute, the interval of cron
  Rotations,  \* values of the store's checkin_rotation_minutes, in ticks
  Grace,      \* DEFAULT_GRACE_SECONDS
  MaxKeys     \* bound on the rows of one moment
KeysAssumption ==
  /\ Minute \in Nat \ {0} /\ Grace \in Nat
  /\ Rotations \subseteq Nat  \* whole minutes:
  /\ \A r \in Rotations : r = Minute \/ r >= 2 * Minute
Minters == {Cron} \union Staff

VARIABLES
  keys,      \* rows of RotatingCheckinKey, oldest first
  rotation,  \* the store's checkin_rotation_minutes
  minting,   \* the lifetime each open mint_key transaction gives its key; 0: none
  sinceCron  \* ticks since the command last did its work
vars == <<keys, rotation, minting, sinceCron>>

\* `superseded` is the time since superseded_at, NotYet while that is null; `seenBy`
\* are the open transactions whose UPDATE found the row.
NotYet == -1
Init ==
  /\ keys = <<>> /\ rotation \in Rotations
  /\ minting = [m \in Minters |-> 0]
  /\ sinceCron = Minute

InGrace(row) == row.superseded \in 0..Grace

\* resolve_key: what a scanned key must satisfy.
Usable(row) == row.age < row.life /\ (row.superseded = NotYet \/ InGrace(row))

\* get_active_key: the newest key that nothing supersedes, else the newest in grace.
ActiveKey ==
  LET fresh == {k \in DOMAIN keys : keys[k].superseded = NotYet}
      spare == {k \in DOMAIN keys : InGrace(keys[k])}
      found == IF fresh # {} THEN fresh ELSE spare
  IN  {keys[k] : k \in {i \in found : \A j \in found : j <= i}}

------------------------------------------------------------------------------
\* mint_key is one transaction, but an UPDATE finds only the rows there when it ran:
\* two of them at once supersede the same keys, and each adds its own.
BeginMint(m) ==
  /\ minting[m] = 0 /\ Len(keys) < MaxKeys
  /\ minting' = [minting EXCEPT ![m] = rotation]
  /\ keys' = [k \in DOMAIN keys |->
       IF keys[k].superseded = NotYet THEN [keys[k] EXCEPT !.seenBy = @ \union {m}] ELSE keys[k]]
  /\ UNCHANGED <<rotation, sinceCron>>

Supersede(row, m) ==
  [row EXCEPT !.superseded = IF m \in row.seenBy /\ @ = NotYet THEN 0 ELSE @, !.seenBy = @ \ {m}]

CommitMint(m) ==
  /\ minting[m] > 0
  /\ keys' = Append([k \in DOMAIN keys |-> Supersede(keys[k], m)],
                    [age |-> 0, life |-> minting[m], superseded |-> NotYet, seenBy |-> {}])
  /\ minting' = [minting EXCEPT ![m] = 0]
  /\ sinceCron' = IF m = Cron THEN 0 ELSE sinceCron
  /\ UNCHANGED rotation

\* Fault: no slop.
KeyIsOverdue(row) == row.age > Max({Minute, rotation})

\* rotate_checkin_keys: when there is no active key, or it is old, with one minute of
\* slop.
KeyIsOld(row) == row.age > Max({Minute, rotation - Minute})

RunCron ==
  \/ (\A row \in ActiveKey : KeyIsOld(row)) /\ BeginMint(Cron)
  \/ /\ minting[Cron] = 0 /\ \E row \in ActiveKey : ~KeyIsOld(row)
     /\ sinceCron' = 0
     /\ UNCHANGED <<keys, rotation, minting>>

RotateNow(m) == BeginMint(m)
ShowActiveKey(m) == ActiveKey = {} /\ BeginMint(m)

\* AdminSettingsView: the new lifetime is that of later keys.
SetRotation(m) ==
  \E r \in Rotations \ {rotation} :
    /\ rotation' = r
    /\ minting[m] = 0 /\ Len(keys) < MaxKeys
    /\ minting' = [minting EXCEPT ![m] = IF ActiveKey = {} THEN r ELSE 0]
    /\ UNCHANGED <<keys, sinceCron>>

\* A process that dies rolls its transaction back.
RollBack(m) ==
  /\ minting[m] > 0
  /\ minting' = [minting EXCEPT ![m] = 0]
  /\ keys' = [k \in DOMAIN keys |-> [keys[k] EXCEPT !.seenBy = @ \ {m}]]
  /\ UNCHANGED <<rotation, sinceCron>>

Older(row) == [row EXCEPT !.age = @ + 1, !.superseded = IF @ = NotYet THEN @ ELSE @ + 1]
Lasts(row) == row.age < row.life /\ row.superseded <= Grace + 1

\* Bounds: a transaction ends within its tick, and cron does its work every minute.
Tick ==
  LET lasting == {k \in DOMAIN keys : Lasts(Older(keys[k]))}
  IN  /\ sinceCron < Minute /\ \A m \in Minters : minting[m] = 0
      /\ sinceCron' = sinceCron + 1
      /\ \E left \in Surjection(1..Cardinality(lasting), lasting) :
           /\ \A i, j \in DOMAIN left : i < j => left[i] < left[j]
           /\ keys' = [k \in DOMAIN left |-> Older(keys[left[k]])]
      /\ UNCHANGED <<rotation, minting>>

Next ==
  \/ RunCron
  \/ \E m \in Staff : RotateNow(m) \/ ShowActiveKey(m) \/ SetRotation(m)
  \/ \E m \in Minters : CommitMint(m) \/ RollBack(m)
  \/ Tick
Spec == Init /\ [][Next]_vars

------------------------------------------------------------------------------
\* Cron never leaves the door without a key until its next run: with its slop of a
\* minute, the key it keeps or mints outlives the minute.  (Not with a rotation of one
\* minute, whose slop the `max` takes away, nor a key minted under a shorter rotation
\* than the one set now.)
KeepsDoorOpen ==
  sinceCron # 0 /\ sinceCron' = 0 /\ rotation > Minute
    => \E row \in ActiveKey' : row.life >= rotation => row.life - row.age >= Minute
DoorStaysOpen == [][KeepsDoorOpen]_vars
=============================================================================
