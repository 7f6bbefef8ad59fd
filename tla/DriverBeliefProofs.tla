------------------------- MODULE DriverBeliefProofs -------------------------
(***************************************************************************)
(* What the driver claims about the sensor is of one piece.  The claims    *)
(* are spread over nine fields that the code sets one by one; a belief is  *)
(* Sound when they fit together.  Every change of the belief keeps it      *)
(* Sound, whatever the field values are, and operations that rely on being *)
(* attached only run while the driver is: the two facts need each other,   *)
(* since a word read by an unattached driver would be a claim.             *)
(***************************************************************************)
EXTENDS DriverTypeProofs

\* The claims of a belief, without what is dirty or in doubt.
SameClaims(b2, b) ==
  /\ b2.attached = b.attached
  /\ b2.reconciliationRequired = b.reconciliationRequired
  /\ b2.mode = b.mode /\ b2.epoch = b.epoch /\ b2.identity = b.identity
  /\ b2.verified = b.verified /\ b2.cached = b.cached
  /\ b2.compensation = b.compensation /\ b2.sample = b.sample

\* A belief after _markReconciliationRequired.
Unclaimed(b2, b) ==
  /\ b2.attached = FALSE /\ b2.reconciliationRequired = TRUE
  /\ b2.mode = "UNKNOWN" /\ b2.epoch = b.epoch /\ b2.identity = b.identity
  /\ b2.verified = {} /\ b2.cached = b.cached
  /\ b2.compensation = NoField /\ b2.sample.valid = FALSE

\* The claims fit together.
Sound(b) ==
  /\ b.reconciliationRequired = ~b.attached
  /\ ~b.attached => /\ b.mode = "UNKNOWN" /\ b.verified = {}
                    /\ b.compensation = NoField /\ ~b.sample.valid
  /\ b.attached => /\ b.mode # "UNKNOWN"
                   /\ b.identity.valid /\ b.identity.epoch = b.epoch
                   /\ ~Unsupported(b.identity)
  /\ b.sample.valid => b.sample.epoch = b.epoch /\ b.sample.sequence > 0

\* Another identity comes with another epoch.
Renewed(b, b2) ==
  \/ ~b2.identity.valid \/ ~b.identity.valid
  \/ b2.identity.serial = b.identity.serial /\ b2.identity.variant = b.identity.variant
  \/ b2.epoch > b.epoch
  \/ b.epoch = MaxEpoch

BeliefInv ==
  /\ Sound(belief)
  /\ belief.attached => bound
  /\ activeValid => bound /\ ~terminalValid
  /\ activeValid /\ active.kind.op \notin Reconciling => belief.attached
-----------------------------------------------------------------------------
(* What the changes of the belief do to its fields.                        *)

\* _setMode leaves everything but the mode alone.
LEMMA SetModeFields ==
  ASSUME NEW b \in Beliefs, NEW m, NEW e
  PROVE  LET b2 == SetMode(b, m, e)
         IN /\ b2.attached = b.attached
            /\ b2.reconciliationRequired = b.reconciliationRequired
            /\ b2.mode = m /\ b2.epoch = b.epoch /\ b2.identity = b.identity
            /\ b2.verified = b.verified /\ b2.cached = b.cached
            /\ b2.dirty = b.dirty
            /\ b2.compensation = b.compensation /\ b2.sample = b.sample
  BY DEF SetMode, Beliefs

\* _markReconciliationRequired withdraws every claim.
LEMMA MarkFields ==
  ASSUME NEW b \in Beliefs
  PROVE  /\ Unclaimed(MarkReconciliationRequired(b), b)
         /\ MarkReconciliationRequired(b).dirty = b.dirty
  BY DEF MarkReconciliationRequired, SetMode, Unclaimed, NoSample, Beliefs

\* _advanceSensorEpoch forgets the sample and the pressure source.
LEMMA AdvanceFields ==
  ASSUME NEW b \in Beliefs
  PROVE  LET b2 == AdvanceSensorEpoch(b)
         IN /\ b2.epoch = Saturate(b.epoch, MaxEpoch)
            /\ b2.sampleSequence = 0 /\ b2.compensation = NoField
            /\ b2.sample.valid = FALSE
            /\ b2.attached = b.attached /\ b2.mode = b.mode
            /\ b2.reconciliationRequired = b.reconciliationRequired
            /\ b2.identity = b.identity /\ b2.verified = b.verified
            /\ b2.cached = b.cached /\ b2.dirty = b.dirty
  BY DEF AdvanceSensorEpoch, NoSample, Beliefs

\* A cleared configuration is neither verified nor dirty.
LEMMA ClearFields ==
  ASSUME NEW b \in Beliefs
  PROVE  LET b2 == ClearConfiguration(b)
         IN /\ b2.verified = {} /\ b2.dirty = {}
            /\ b2.attached = b.attached /\ b2.mode = b.mode
            /\ b2.reconciliationRequired = b.reconciliationRequired
            /\ b2.epoch = b.epoch /\ b2.identity = b.identity
            /\ b2.compensation = b.compensation /\ b2.sample = b.sample
  BY DEF ClearConfiguration, Beliefs

\* An identity that is taken over belongs to the present epoch.
LEMMA IdentifyFields ==
  ASSUME NEW b \in Beliefs, NEW id
  PROVE  LET b2 == Identify(b, id)
         IN /\ b2.identity.serial = id.serial /\ b2.identity.variant = id.variant
            /\ b2.identity.epoch = b.epoch /\ b2.identity.valid = TRUE
            /\ b2.attached = b.attached /\ b2.mode = b.mode
            /\ b2.reconciliationRequired = b.reconciliationRequired
            /\ b2.epoch = b.epoch /\ b2.dirty = b.dirty
            /\ b2.verified = b.verified /\ b2.cached = b.cached
            /\ b2.compensation = b.compensation /\ b2.sample = b.sample
  BY DEF Identify, Beliefs

\* Reattachment claims the identity and idle mode, and nothing else anew.
LEMMA ReattachFields ==
  ASSUME NEW b \in Beliefs, NEW id \in Readings
  PROVE  LET b2 == Reattach(b, id)
         IN /\ b2.attached = TRUE /\ b2.reconciliationRequired = FALSE
            /\ b2.mode = "IDLE" /\ b2.epoch = b.epoch
            /\ b2.identity.serial = id.serial /\ b2.identity.variant = id.variant
            /\ b2.identity.epoch = b.epoch /\ b2.identity.valid = TRUE
            /\ b2.verified = b.verified /\ b2.cached = b.cached
            /\ b2.dirty = b.dirty
            /\ b2.compensation = b.compensation /\ b2.sample = b.sample
<1> DEFINE b1 == Identify(b, id)
           b0 == SetMode(b1, "IDLE", "VERIFIED")
<1>1. b1 \in Beliefs /\ b0 \in Beliefs
  BY IdentifyType, SetModeType DEF Modes
<1>2. Reattach(b, id) = [b0 EXCEPT !.attached = TRUE, !.reconciliationRequired = FALSE]
  BY DEF Reattach
<1>3. LET b2 == Reattach(b, id)
      IN /\ b2.attached = TRUE /\ b2.reconciliationRequired = FALSE
         /\ b2.mode = b0.mode /\ b2.epoch = b0.epoch /\ b2.identity = b0.identity
         /\ b2.verified = b0.verified /\ b2.cached = b0.cached /\ b2.dirty = b0.dirty
         /\ b2.compensation = b0.compensation /\ b2.sample = b0.sample
  <2> HIDE DEF b0
  <2> QED BY <1>1, <1>2 DEF Beliefs
<1> HIDE DEF b0, b1
<1>4. /\ b0.mode = "IDLE" /\ b0.epoch = b1.epoch /\ b0.identity = b1.identity
      /\ b0.verified = b1.verified /\ b0.cached = b1.cached /\ b0.dirty = b1.dirty
      /\ b0.compensation = b1.compensation /\ b0.sample = b1.sample
  BY <1>1, SetModeFields DEF b0
<1>5. /\ b1.epoch = b.epoch /\ b1.identity.serial = id.serial
      /\ b1.identity.variant = id.variant /\ b1.identity.epoch = b.epoch
      /\ b1.identity.valid = TRUE /\ b1.verified = b.verified
      /\ b1.cached = b.cached /\ b1.dirty = b.dirty
      /\ b1.compensation = b.compensation /\ b1.sample = b.sample
  BY IdentifyFields DEF b1
<1> QED BY <1>3, <1>4, <1>5

\* An epoch advances unless it is the last.
LEMMA EpochAdvances ==
  ASSUME NEW b \in Beliefs
  PROVE  Saturate(b.epoch, MaxEpoch) > b.epoch \/ b.epoch = MaxEpoch
  BY DriverAssumption DEF Beliefs, Saturate

\* A disowned sensor: its identity is kept, with a new epoch, and no claim.
LEMMA DisownFields ==
  ASSUME NEW b \in Beliefs, NEW id \in Readings
  PROVE  LET b2 == Disown(b, id)
         IN /\ b2.attached = FALSE /\ b2.reconciliationRequired = TRUE
            /\ b2.mode = "UNKNOWN" /\ b2.epoch = Saturate(b.epoch, MaxEpoch)
            /\ b2.verified = {} /\ b2.compensation = NoField
            /\ b2.sample.valid = FALSE /\ b2.dirty = {}
            /\ b2.identity.serial = id.serial /\ b2.identity.variant = id.variant
            /\ b2.identity.valid = TRUE
<1> DEFINE b1 == AdvanceSensorEpoch(b)
           b0 == Identify(b1, id)
           c == ClearConfiguration(b0)
<1>1. b1 \in Beliefs /\ b0 \in Beliefs /\ c \in Beliefs
  BY AdvanceType, IdentifyType, ClearType
<1>2. Disown(b, id) = MarkReconciliationRequired(c)
  BY DEF Disown
<1> HIDE DEF c, b0, b1
<1>3. Unclaimed(Disown(b, id), c) /\ Disown(b, id).dirty = c.dirty
  BY <1>1, <1>2, MarkFields
<1>4. c.epoch = b0.epoch /\ c.identity = b0.identity /\ c.dirty = {}
  BY <1>1, ClearFields DEF c
<1>5. /\ b0.epoch = b1.epoch /\ b0.identity.serial = id.serial
      /\ b0.identity.variant = id.variant /\ b0.identity.valid = TRUE
  BY <1>1, Zenon DEF b0, Identify, Beliefs
<1>6. b1.epoch = Saturate(b.epoch, MaxEpoch)
  BY AdvanceFields DEF b1
<1> QED BY <1>3, <1>4, <1>5, <1>6 DEF Unclaimed

\* Whether ATTACH finds the sensor it knew.
SameSensor(b, id) == b.identity.valid /\ ~Differs(b, id)

\* An attached sensor: a new epoch, nothing verified, dirty only what the same
\* sensor had.
LEMMA AttachedFields ==
  ASSUME NEW b \in Beliefs, NEW id \in Readings
  PROVE  LET b2 == Attached(b, id)
         IN /\ b2.attached = TRUE /\ b2.reconciliationRequired = FALSE
            /\ b2.mode = "IDLE" /\ b2.epoch = Saturate(b.epoch, MaxEpoch)
            /\ b2.verified = {} /\ b2.compensation = NoField
            /\ b2.sample.valid = FALSE
            /\ b2.dirty = IF SameSensor(b, id) THEN b.dirty ELSE {}
            /\ b2.identity.serial = id.serial /\ b2.identity.variant = id.variant
            /\ b2.identity.valid = TRUE /\ b2.identity.epoch = b2.epoch
<1> DEFINE known == IF SameSensor(b, id) THEN [b EXCEPT !.verified = {}]
                    ELSE ClearConfiguration(b)
           b1 == AdvanceSensorEpoch(known)
<1>1. /\ known \in Beliefs /\ known.verified = {} /\ known.epoch = b.epoch
      /\ known.dirty = IF SameSensor(b, id) THEN b.dirty ELSE {}
  BY ClearType, ClearFields DEF Beliefs
<1>2. Attached(b, id) = Reattach(b1, id)
  BY DEF Attached, SameSensor
<1> HIDE DEF known, b1
<1>3. b1 \in Beliefs
  BY <1>1, AdvanceType DEF b1
<1>4. /\ b1.epoch = Saturate(b.epoch, MaxEpoch) /\ b1.verified = {}
      /\ b1.compensation = NoField /\ b1.sample.valid = FALSE
      /\ b1.dirty = known.dirty
  BY <1>1, AdvanceFields DEF b1
<1>5. LET b2 == Reattach(b1, id)
      IN /\ b2.attached = TRUE /\ b2.reconciliationRequired = FALSE
         /\ b2.mode = "IDLE" /\ b2.epoch = b1.epoch
         /\ b2.identity.serial = id.serial /\ b2.identity.variant = id.variant
         /\ b2.identity.epoch = b1.epoch /\ b2.identity.valid = TRUE
         /\ b2.verified = b1.verified /\ b2.dirty = b1.dirty
         /\ b2.compensation = b1.compensation /\ b2.sample = b1.sample
  BY <1>3, ReattachFields
<1> QED BY <1>1, <1>2, <1>4, <1>5

\* A reset that is confirmed: the same sensor in a new epoch, nothing dirty.
LEMMA ResetFields ==
  ASSUME NEW b \in Beliefs, NEW id \in Readings
  PROVE  LET b2 == ResetDone(b, id)
         IN /\ b2.attached = TRUE /\ b2.reconciliationRequired = FALSE
            /\ b2.mode = "IDLE" /\ b2.epoch = Saturate(b.epoch, MaxEpoch)
            /\ b2.verified = {} /\ b2.compensation = NoField
            /\ b2.sample.valid = FALSE /\ b2.dirty = {}
            /\ b2.identity.serial = id.serial /\ b2.identity.variant = id.variant
            /\ b2.identity.valid = TRUE /\ b2.identity.epoch = b2.epoch
<1> DEFINE b1 == AdvanceSensorEpoch(b)
           b0 == [b1 EXCEPT !.verified = {}, !.dirty = {},
                            !.persistenceIndeterminate = FALSE]
<1>1. b1 \in Beliefs
  BY AdvanceType
<1>2. ResetDone(b, id) = Reattach(b0, id)
  BY DEF ResetDone
<1>3. /\ b1.epoch = Saturate(b.epoch, MaxEpoch)
      /\ b1.compensation = NoField /\ b1.sample.valid = FALSE
  BY AdvanceFields
<1>4. /\ b0 \in Beliefs /\ b0.verified = {} /\ b0.dirty = {} /\ b0.epoch = b1.epoch
      /\ b0.compensation = b1.compensation /\ b0.sample = b1.sample
  <2> HIDE DEF b1
  <2> QED BY <1>1 DEF Beliefs
<1> HIDE DEF b0, b1
<1>5. LET b2 == Reattach(b0, id)
      IN /\ b2.attached = TRUE /\ b2.reconciliationRequired = FALSE
         /\ b2.mode = "IDLE" /\ b2.epoch = b0.epoch
         /\ b2.identity.serial = id.serial /\ b2.identity.variant = id.variant
         /\ b2.identity.epoch = b0.epoch /\ b2.identity.valid = TRUE
         /\ b2.verified = b0.verified /\ b2.dirty = b0.dirty
         /\ b2.compensation = b0.compensation /\ b2.sample = b0.sample
  BY <1>4, ReattachFields
<1> QED BY <1>2, <1>3, <1>4, <1>5

\* Another variant: no identity and no claim.
LEMMA VariantChangedFields ==
  ASSUME NEW b \in Beliefs, NEW id, id.variant \in Variants
  PROVE  LET b2 == VariantChanged(b, id)
         IN /\ b2.attached = FALSE /\ b2.reconciliationRequired = TRUE
            /\ b2.mode = "UNKNOWN" /\ b2.verified = {} /\ b2.dirty = {}
            /\ b2.compensation = NoField /\ b2.sample.valid = FALSE
            /\ b2.identity.valid = FALSE
<1> DEFINE c == ClearConfiguration(AdvanceSensorEpoch(b))
           i == [NoIdentity EXCEPT !.variant = id.variant,
                                   !.epoch = Saturate(b.epoch, MaxEpoch)]
           b1 == [c EXCEPT !.identity = i]
<1>1. c \in Beliefs /\ c.dirty = {}
  BY AdvanceType, ClearType, ClearFields
<1>2. i \in Identities /\ i.valid = FALSE
  <2>1. Saturate(b.epoch, MaxEpoch) \in 0 .. MaxEpoch
    BY SaturateType, DriverAssumption DEF Beliefs
  <2> QED BY <2>1 DEF NoIdentity, Identities
<1>3. VariantChanged(b, id) = MarkReconciliationRequired(b1)
  BY DEF VariantChanged
<1>4. b1 \in Beliefs /\ b1.identity = i /\ b1.dirty = {}
  <2> HIDE DEF c, i
  <2> QED BY <1>1, <1>2 DEF Beliefs
<1> HIDE DEF b1, i
<1>5. Unclaimed(VariantChanged(b, id), b1) /\ VariantChanged(b, id).dirty = b1.dirty
  BY <1>3, <1>4, MarkFields
<1> QED BY <1>2, <1>4, <1>5 DEF Unclaimed

\* A sample that is stored belongs to the present epoch and has a number.
LEMMA SampleFields ==
  ASSUME NEW b \in Beliefs
  PROVE  LET b2 == StoreSample(b)
         IN /\ b2.sample.valid = TRUE /\ b2.sample.epoch = b.epoch
            /\ b2.sample.sequence > 0
            /\ b2.attached = b.attached /\ b2.mode = b.mode
            /\ b2.reconciliationRequired = b.reconciliationRequired
            /\ b2.epoch = b.epoch /\ b2.identity = b.identity
            /\ b2.verified = b.verified /\ b2.cached = b.cached
            /\ b2.dirty = b.dirty /\ b2.compensation = b.compensation
<1> DEFINE n == Saturate(b.sampleSequence, MaxSequence)
           t == [valid |-> TRUE, epoch |-> b.epoch, sequence |-> n, mode |-> b.mode]
<1>1. n > 0
  BY DriverAssumption DEF Beliefs, Saturate
<1>2. StoreSample(b) = [b EXCEPT !.sampleSequence = n, !.sample = t]
  BY DEF StoreSample
<1>3. t.valid = TRUE /\ t.epoch = b.epoch /\ t.sequence = n
  OBVIOUS
<1> HIDE DEF n, t
<1> QED BY <1>1, <1>2, <1>3 DEF Beliefs

\* A word that is read is verified, one that no setting can have is not.
LEMMA SettingFields ==
  ASSUME NEW b \in Beliefs, NEW f \in Fields, NEW w
  PROVE  /\ LET b2 == ApplyReadValue(b, f, w)
            IN /\ b2.verified = b.verified \cup {f} /\ b2.cached[f] = w
               /\ \A g \in Fields \ {f} : b2.cached[g] = b.cached[g]
               /\ b2.attached = b.attached /\ b2.mode = b.mode
               /\ b2.reconciliationRequired = b.reconciliationRequired
               /\ b2.epoch = b.epoch /\ b2.identity = b.identity
               /\ b2.dirty = b.dirty /\ b2.sample = b.sample
               /\ b2.compensation = b.compensation
         /\ LET b2 == Unverify(b, f)
            IN /\ b2.verified = b.verified \ {f} /\ b2.cached = b.cached
               /\ b2.attached = b.attached /\ b2.mode = b.mode
               /\ b2.reconciliationRequired = b.reconciliationRequired
               /\ b2.epoch = b.epoch /\ b2.identity = b.identity
               /\ b2.dirty = b.dirty /\ b2.sample = b.sample
               /\ b2.compensation = b.compensation
  BY DEF ApplyReadValue, Unverify, Beliefs

\* A setting that may have been written is not verified any more.
LEMMA WrittenFields ==
  ASSUME NEW b \in Beliefs, NEW a
  PROVE  LET b2 == AfterSettingWrite(b, a)
             f == a.kind.field
         IN /\ b2.verified = b.verified \ {f} /\ b2.cached = b.cached
            /\ b2.dirty = IF a.changed THEN b.dirty \cup ({f} \cap PersistableFields)
                          ELSE b.dirty
            /\ b2.compensation = IF f \in CompensationFields THEN NoField
                                 ELSE b.compensation
            /\ b2.attached = b.attached /\ b2.mode = b.mode
            /\ b2.reconciliationRequired = b.reconciliationRequired
            /\ b2.epoch = b.epoch /\ b2.identity = b.identity
            /\ b2.sample = b.sample
  BY DEF AfterSettingWrite, Beliefs

\* What end() leaves claims nothing.
LEMMA UnbindFields ==
  ASSUME NEW b \in Beliefs
  PROVE  LET b2 == Unbind(b)
         IN /\ b2.attached = FALSE /\ b2.reconciliationRequired = TRUE
            /\ b2.mode = "UNKNOWN" /\ b2.verified = {}
            /\ b2.compensation = NoField /\ b2.sample.valid = FALSE
            /\ b2.identity.valid = FALSE /\ b2.dirty = b.dirty
  BY DEF Unbind, NoSample, Beliefs, Identities

\* Only the doubt about the EEPROM is added to the claims.
LEMMA DoubtFields ==
  ASSUME NEW b \in Beliefs, NEW p
  PROVE  LET b2 == [b EXCEPT !.persistenceIndeterminate = p]
         IN SameClaims(b2, b) /\ b2.dirty = b.dirty
  BY DEF SameClaims, Beliefs

LEMMA CleanFields ==
  ASSUME NEW b \in Beliefs, NEW d
  PROVE  LET b2 == [b EXCEPT !.dirty = d]
         IN SameClaims(b2, b) /\ b2.dirty = d
            /\ b2.persistenceIndeterminate = b.persistenceIndeterminate
  BY DEF SameClaims, Beliefs

\* After an acknowledged command nothing is claimed that the command may have
\* changed.
LEMMA SentFields ==
  ASSUME NEW b \in Beliefs, NEW a, NEW leg
  PROVE  LET b2 == AfterSend(b, a, leg)
         IN /\ IF leg.effectful /\ Reconciles(a) THEN Unclaimed(b2, b)
               ELSE SameClaims(b2, b)
            /\ b2.dirty = b.dirty
<1> DEFINE known == IF leg.effectful /\ Reconciles(a)
                    THEN MarkReconciliationRequired(b) ELSE b
           p == known.persistenceIndeterminate
                  \/ (leg.effectful /\ a.kind.op = "FACTORY_RESET")
<1>1. known \in Beliefs /\ known.dirty = b.dirty
  BY MarkType, MarkFields
<1>2. AfterSend(b, a, leg) = [known EXCEPT !.persistenceIndeterminate = p]
  BY DEF AfterSend
<1>3. IF leg.effectful /\ Reconciles(a) THEN Unclaimed(known, b) ELSE known = b
  BY MarkFields
<1> HIDE DEF known, p
<1>4. SameClaims(AfterSend(b, a, leg), known) /\ AfterSend(b, a, leg).dirty = b.dirty
  BY <1>1, <1>2, DoubtFields
<1> QED BY <1>3, <1>4 DEF SameClaims, Unclaimed
-----------------------------------------------------------------------------
(* Every change keeps the claims together.                                 *)

\* What is dirty or in doubt is no claim.
LEMMA SameSound ==
  ASSUME NEW b2, NEW b, SameClaims(b2, b)
  PROVE  /\ Sound(b) => Sound(b2)
         /\ \A b0 : Renewed(b0, b) => Renewed(b0, b2)
  BY DEF SameClaims, Sound, Renewed

\* A belief without claims is sound.
LEMMA UnclaimedSound ==
  ASSUME NEW b2, NEW b, Unclaimed(b2, b)
  PROVE  /\ Sound(b2)
         /\ \A b0 : Renewed(b0, b) => Renewed(b0, b2)
  BY DEF Unclaimed, Sound, Renewed

\* The identity checks, however they end.
LEMMA IdentitySound ==
  ASSUME NEW b \in Beliefs, Sound(b), NEW id \in Readings
  PROVE  /\ Sound(Disown(b, id)) /\ Renewed(b, Disown(b, id))
         /\ ~Unsupported(id) =>
              /\ Sound(Attached(b, id)) /\ Renewed(b, Attached(b, id))
              /\ Sound(Reattach(b, id)) /\ Sound(ResetDone(b, id))
              /\ b.attached => Sound(Identify(b, id))
         /\ ~Differs(b, id) =>
              /\ Renewed(b, Reattach(b, id)) /\ Renewed(b, ResetDone(b, id))
              /\ Renewed(b, Identify(b, id))
<1>1. Sound(Disown(b, id)) /\ Renewed(b, Disown(b, id))
  BY DisownFields, EpochAdvances DEF Sound, Renewed
<1>2. ASSUME ~Unsupported(id), NEW i, i.variant = id.variant PROVE ~Unsupported(i)
  BY <1>2 DEF Unsupported
<1>3. ASSUME ~Unsupported(id) PROVE Sound(Attached(b, id))
  BY <1>2, <1>3, AttachedFields DEF Sound
<1>4. Renewed(b, Attached(b, id))
  BY AttachedFields, EpochAdvances DEF Renewed
<1>5. ASSUME ~Unsupported(id) PROVE Sound(Reattach(b, id))
  <2>1. ASSUME NEW b2, b2.attached = TRUE, b2.reconciliationRequired = FALSE,
               b2.mode = "IDLE", b2.epoch = b.epoch, b2.identity.variant = id.variant,
               b2.identity.epoch = b.epoch, b2.identity.valid = TRUE,
               b2.sample = b.sample
        PROVE  Sound(b2)
    BY <1>2, <1>5, <2>1 DEF Sound
  <2> QED BY <2>1, ReattachFields
<1>6. ASSUME ~Unsupported(id) PROVE Sound(ResetDone(b, id))
  BY <1>2, <1>6, ResetFields DEF Sound
<1>7. ASSUME ~Unsupported(id), b.attached PROVE Sound(Identify(b, id))
  <2>1. /\ Identify(b, id).identity.valid = TRUE /\ Identify(b, id).mode = b.mode
        /\ Identify(b, id).identity.variant = id.variant
        /\ Identify(b, id).identity.epoch = b.epoch /\ Identify(b, id).epoch = b.epoch
        /\ Identify(b, id).attached = b.attached /\ Identify(b, id).sample = b.sample
        /\ Identify(b, id).reconciliationRequired = b.reconciliationRequired
    BY IdentifyFields
  <2> QED BY <1>2, <1>7, <2>1 DEF Sound
<1>8. ASSUME ~Differs(b, id)
      PROVE  /\ Renewed(b, Reattach(b, id)) /\ Renewed(b, ResetDone(b, id))
             /\ Renewed(b, Identify(b, id))
  <2>1. ASSUME NEW b2, b2.identity.serial = id.serial, b2.identity.variant = id.variant
        PROVE  Renewed(b, b2)
    BY <1>8, <2>1 DEF Differs, Renewed
  <2>2. Renewed(b, Reattach(b, id))
    BY <2>1, ReattachFields
  <2>3. Renewed(b, ResetDone(b, id))
    <3>1. /\ ResetDone(b, id).identity.serial = id.serial
          /\ ResetDone(b, id).identity.variant = id.variant
      BY ResetFields
    <3> QED BY <2>1, <3>1
  <2>4. Renewed(b, Identify(b, id))
    <3>1. /\ Identify(b, id).identity.serial = id.serial
          /\ Identify(b, id).identity.variant = id.variant
      BY IdentifyFields
    <3> QED BY <2>1, <3>1
  <2> QED BY <2>2, <2>3, <2>4
<1> QED BY <1>1, <1>3, <1>4, <1>5, <1>6, <1>7, <1>8

\* A changed variant, a new sample, a word read or written.
LEMMA ReadingSound ==
  ASSUME NEW b \in Beliefs, Sound(b), NEW f \in Fields, NEW w
  PROVE  /\ b.attached => /\ Sound(StoreSample(b))
                          /\ Sound(ApplyReadValue(b, f, w))
         /\ Sound(Unverify(b, f))
         /\ \A a : Sound(AfterSettingWrite(b, a))
<1>1. b.attached => Sound(StoreSample(b))
  BY SampleFields DEF Sound
<1>2. b.attached => Sound(ApplyReadValue(b, f, w))
  BY SettingFields DEF Sound
<1>3. Sound(Unverify(b, f))
  BY SettingFields DEF Sound
<1>4. \A a : Sound(AfterSettingWrite(b, a))
  <2> TAKE a
  <2> DEFINE b2 == AfterSettingWrite(b, a)
  <2>1. /\ b2.verified \subseteq b.verified
        /\ b2.compensation \in {NoField, b.compensation}
    BY WrittenFields
  <2>2. /\ b2.attached = b.attached /\ b2.mode = b.mode
        /\ b2.reconciliationRequired = b.reconciliationRequired
        /\ b2.epoch = b.epoch /\ b2.identity = b.identity /\ b2.sample = b.sample
    BY WrittenFields
  <2> HIDE DEF b2
  <2>3. Sound(b2)
    BY <2>1, <2>2 DEF Sound
  <2> QED BY <2>3 DEF b2
<1> QED BY <1>1, <1>2, <1>3, <1>4

\* The same identity needs no new epoch.
LEMMA SameIdentityRenewed ==
  ASSUME NEW b, NEW b2, b2.identity = b.identity
  PROVE  Renewed(b, b2)
  BY DEF Renewed
-----------------------------------------------------------------------------
(* The iterations of the poll loop.                                        *)

\* What an iteration leaves of the claims.
LoopClaims ==
  /\ Sound(belief') /\ Renewed(belief, belief')
  /\ \/ ~activeValid'
     \/ /\ UNCHANGED <<activeValid, terminalValid>> /\ active'.kind = active.kind
        /\ active.kind.op \notin Reconciling => belief'.attached = belief.attached
  /\ UNCHANGED <<bound, config>>

\* The end of an operation keeps the claims it is given.
LEMMA FinishBelief ==
  ASSUME NEW outcome, NEW effect, NEW b \in Beliefs, NEW a, NEW at,
         FinishOperation(outcome, effect, b, a, at)
  PROVE  /\ SameClaims(belief', b) /\ ~activeValid'
         /\ belief'.dirty = IF ReloadSettled(a, at) THEN {} ELSE b.dirty
  BY CleanFields DEF FinishOperation, SameClaims

\* A failure withdraws them if the sensor's state is in doubt.
LEMMA FailureBelief ==
  ASSUME NEW status, NEW b \in Beliefs, NEW a, NEW last, NEW at,
         FinishOperationFailure(status, b, a, last, at)
  PROVE  /\ IF InDoubt(status = "TIMEOUT", a, last) THEN Unclaimed(belief', b)
            ELSE SameClaims(belief', b)
         /\ ~activeValid'
         /\ belief'.dirty = IF ReloadSettled(a, at) THEN {} ELSE b.dirty
<1> DEFINE expired == status = "TIMEOUT"
           known == IF InDoubt(expired, a, last) THEN MarkReconciliationRequired(b) ELSE b
<1>1. PICK outcome, effect, p :
        FinishOperation(outcome, effect,
                        [known EXCEPT !.persistenceIndeterminate = p], a, at)
  BY DEF FinishOperationFailure
<1>2. known \in Beliefs /\ known.dirty = b.dirty
  BY MarkType, MarkFields
<1>3. IF InDoubt(expired, a, last) THEN Unclaimed(known, b) ELSE known = b
  BY MarkFields
<1> HIDE DEF known
<1>4. /\ SameClaims(belief', known) /\ ~activeValid'
      /\ belief'.dirty = IF ReloadSettled(a, at) THEN {} ELSE known.dirty
  <2> DEFINE k2 == [known EXCEPT !.persistenceIndeterminate = p]
  <2>1. SameClaims(k2, known) /\ k2.dirty = known.dirty
    BY <1>2, DoubtFields
  <2>2. /\ ~activeValid'
        /\ belief' = IF ReloadSettled(a, at) THEN [k2 EXCEPT !.dirty = {}] ELSE k2
    BY <1>1 DEF FinishOperation
  <2>3. LET k3 == [k2 EXCEPT !.dirty = {}]
        IN SameClaims(k3, known) /\ k3.dirty = {}
    BY <1>2 DEF SameClaims, Beliefs
  <2> HIDE DEF k2
  <2> QED BY <2>1, <2>2, <2>3
<1> QED BY <1>2, <1>3, <1>4 DEF SameClaims, Unclaimed

\* An iteration that leaves the operation active.
LEMMA ProceedClaims ==
  ASSUME NEW a, a.kind = active.kind, NEW b, Sound(b), Renewed(belief, b),
         active.kind.op \notin Reconciling => b.attached = belief.attached,
         NEW at, NEW left, Proceed(a, b, at, left), UNCHANGED <<bound, config>>
  PROVE  LoopClaims
  BY DEF Proceed, LoopClaims

\* One that ends it.
LEMMA FinishClaims ==
  ASSUME NEW outcome, NEW effect, NEW b \in Beliefs, NEW a, NEW at, Sound(b),
         Renewed(belief, b), FinishOperation(outcome, effect, b, a, at),
         UNCHANGED <<bound, config>>
  PROVE  LoopClaims
  BY FinishBelief, SameSound DEF LoopClaims

\* One that fails it.
LEMMA FailureClaims ==
  ASSUME NEW status, NEW b \in Beliefs, NEW a, NEW last, NEW at, Sound(b),
         Renewed(belief, b), FinishOperationFailure(status, b, a, last, at),
         UNCHANGED <<bound, config>>
  PROVE  LoopClaims
  BY FailureBelief, SameSound, UnclaimedSound DEF LoopClaims

\* The poll returns, the gate puts a phase off, a wait is over.
LEMMA QuietClaims ==
  ASSUME IInv, BeliefInv,
         PollBreak \/ GateDefers \/ NotDue \/ WaitOver \/ BudgetExhausted
  PROVE  LoopClaims
<1>1. belief \in Beliefs /\ Sound(belief) /\ Renewed(belief, belief)
      /\ UNCHANGED <<bound, config>>
  BY SameIdentityRenewed
     DEF IInv, SlotOK, BeliefInv, Quiet, PollBreak, GateDefers, NotDue, WaitOver,
         BudgetExhausted
<1>2. CASE PollBreak \/ NotDue \/ BudgetExhausted
  BY <1>1, <1>2 DEF PollBreak, NotDue, BudgetExhausted, LoopClaims
<1>3. CASE GateDefers
  <2>1. Proceed([active EXCEPT !.nextDue = nextSafe], belief, poll.at, poll.left)
    BY <1>3 DEF GateDefers
  <2>2. [active EXCEPT !.nextDue = nextSafe].kind = active.kind
    BY DEF IInv, SlotOK, Operations
  <2> QED BY <1>1, <2>1, <2>2, ProceedClaims
<1>4. CASE WaitOver
  <2> DEFINE a == [active EXCEPT !.phase = PhaseAfterWait(active)]
             b == IF active.kind.op \in ResetOps THEN [belief EXCEPT !.dirty = {}]
                  ELSE belief
  <2>1. Proceed(a, b, poll.at, poll.left)
    BY <1>4 DEF WaitOver
  <2>2. a.kind = active.kind
    BY DEF IInv, SlotOK, Operations
  <2>3. SameClaims(b, belief)
    BY <1>1, CleanFields DEF SameClaims
  <2>4. Sound(b) /\ Renewed(belief, b) /\ b.attached = belief.attached
    BY <1>1, <2>3, SameSound DEF SameClaims
  <2> HIDE DEF a, b
  <2> QED BY <1>1, <2>1, <2>2, <2>4, ProceedClaims
<1> QED BY <1>2, <1>3, <1>4

\* The modes a mode operation leads to.
LEMMA ModeAfterKnown ==
  ASSUME NEW k, k.op \in ModeOps \ {"WAKE_UP"}
  PROVE  ModeAfter(k) \in Modes /\ ModeAfter(k) # "UNKNOWN"
  BY DEF ModeAfter, ModeOps, Modes

\* An operation ends with its wait, or without a transfer.
LEMMA QuietEndClaims ==
  ASSUME IInv, BeliefInv, CommandSettled \/ PersistShortcut
  PROVE  LoopClaims
<1>1. /\ belief \in Beliefs /\ Sound(belief) /\ Renewed(belief, belief) /\ activeValid
      /\ UNCHANGED <<bound, config>>
  BY SameIdentityRenewed
     DEF IInv, SlotOK, InTime, BeliefInv, Quiet, CommandSettled, PersistShortcut,
         WaitIsOver, Working
<1>2. CASE PersistShortcut
  <2>1. PICK outcome, effect :
          FinishOperation(outcome, effect, belief, active, poll.at)
    BY <1>2 DEF PersistShortcut
  <2> QED BY <1>1, <2>1, FinishClaims
<1>3. CASE CommandSettled /\ active.kind.op = "PERSIST_SETTINGS"
  <2> DEFINE b == [belief EXCEPT !.dirty = {}, !.persistenceIndeterminate = FALSE]
  <2>1. FinishOperation("SUCCEEDED", "ACKNOWLEDGED", b, active, poll.at)
    BY <1>3 DEF CommandSettled
  <2>2. b \in Beliefs /\ SameClaims(b, belief)
    BY <1>1 DEF SameClaims, Beliefs
  <2>3. Sound(b) /\ Renewed(belief, b)
    BY <1>1, <2>2, SameSound
  <2> HIDE DEF b
  <2> QED BY <1>1, <2>1, <2>2, <2>3, FinishClaims
<1>4. CASE CommandSettled /\ active.kind.op # "PERSIST_SETTINGS"
  <2> DEFINE b == SetMode(belief, ModeAfter(active.kind), "ACKNOWLEDGED")
  <2>1. FinishOperation("SUCCEEDED", "ACKNOWLEDGED", b, active, poll.at)
    BY <1>4 DEF CommandSettled
  <2>2. active.kind.op \in ModeOps \ {"WAKE_UP"}
    BY <1>4 DEF CommandSettled, EndsWithWait
  <2>3. ModeAfter(active.kind) \in Modes /\ ModeAfter(active.kind) # "UNKNOWN"
    BY <2>2, ModeAfterKnown
  <2>4. belief.attached
    BY <1>1, <2>2 DEF BeliefInv, Reconciling, ResetOps, DiagnosticOps, ModeOps
  <2>5. b \in Beliefs
    BY <1>1, <2>3, SetModeType
  <2>6. /\ b.attached = belief.attached
        /\ b.reconciliationRequired = belief.reconciliationRequired
        /\ b.mode = ModeAfter(active.kind) /\ b.epoch = belief.epoch
        /\ b.identity = belief.identity /\ b.sample = belief.sample
    BY <1>1, SetModeFields
  <2> HIDE DEF b
  <2>7. Sound(b) /\ Renewed(belief, b)
    BY <1>1, <2>3, <2>4, <2>6, SameIdentityRenewed DEF Sound
  <2> QED BY <1>1, <2>1, <2>5, <2>7, FinishClaims
<1> QED BY <1>2, <1>3, <1>4

\* An attempt leaves binding and configuration alone.
LEMMA AttemptKeeps ==
  ASSUME NEW r, NEW dur, AttemptedLeg(Leg(active), r, dur) \/ AttemptedRead(r, dur)
  PROVE  UNCHANGED <<bound, config>>
  BY DEF AttemptedLeg, AttemptedRead, Exchange

\* Only operations that may run unattached withdraw claims as they send.
LEMMA ReconcilesKinds ==
  ASSUME Standing(active), Reconciles(active)
  PROVE  active.kind.op \in Reconciling
<1>1. CASE active.phase = "SEND_WAKE"
  <2>1. active.kind \in Kinds
    BY DEF Standing
  <2>2. active.kind.op # "ATTACH" =>
          Reachable(active.kind) \in {IdentitySteps, ConfigurationSteps, ReadSteps,
             SettingSteps, WakeSteps, CommandSteps, FetchSteps,
             CommandSteps \cup FetchSteps, ResetSteps, DeferredSteps}
    BY <2>1, OpCases, ReachableCases
       DEF ReadOps, MeasurementOps, MaintenanceOps, ResetOps, SingleShotOps, ModeOps
  <2> QED
    BY <1>1, <2>2 DEF Standing, IdentitySteps, ConfigurationSteps, ReadSteps,
       SettingSteps, WakeSteps, CommandSteps, FetchSteps, ResetSteps, DeferredSteps,
       Reconciling
<1> QED BY <1>1 DEF Reconciles, Reconciling

\* The belief after an attempt to send, before its status counts.
LEMMA AttemptSound ==
  ASSUME NEW b \in Beliefs, Sound(b), NEW a, NEW leg, NEW r
  PROVE  LET b2 == AfterAttempt(b, a, leg, r)
         IN /\ b2 \in Beliefs /\ Sound(b2) /\ b2.identity = b.identity
            /\ b2.attached = b.attached
<1>1. PICK f : f \in Fields
  BY DEF Fields
<1>2. LET b2 == AfterSettingWrite(b, a)
      IN /\ b2 \in Beliefs /\ Sound(b2) /\ b2.identity = b.identity
         /\ b2.attached = b.attached
  BY <1>1, SettingWriteType, ReadingSound, WrittenFields
<1> QED BY <1>2 DEF AfterAttempt

\* A command is sent, or fails.
LEMMA SendClaims ==
  ASSUME IInv, BeliefInv, NEW r \in EffectfulOutcomes \cup PlainOutcomes,
         NEW dur \in Durations, Send(r, dur) \/ SendLast(r, dur) \/ SendFails(r, dur)
  PROVE  LoopClaims
<1> DEFINE leg == Leg(active)
           sent == Attempted(leg.effectful, r)
           b1 == AfterAttempt(belief, active, leg, r)
<1>1. AttemptedLeg(leg, r, dur)
  BY DEF Send, SendLast, SendFails
<1>2. /\ belief \in Beliefs /\ Sound(belief) /\ Renewed(belief, belief)
      /\ UNCHANGED <<bound, config>>
  BY <1>1, AttemptKeeps, SameIdentityRenewed DEF IInv, SlotOK, BeliefInv
<1>3. /\ Standing(active) /\ sent.kind = active.kind
  BY <1>1, AttemptedLegStep, AttemptedType DEF IInv, LegOK
<1>4. /\ b1 \in Beliefs /\ Sound(b1) /\ Renewed(belief, b1)
      /\ b1.attached = belief.attached
  BY <1>2, AttemptSound, SameIdentityRenewed
<1>5. ASSUME NEW b \in Beliefs, Sound(b), Renewed(belief, b),
             b.attached = belief.attached
      PROVE  LET b2 == AfterSend(b, active, leg)
             IN /\ b2 \in Beliefs /\ Sound(b2) /\ Renewed(belief, b2)
                /\ active.kind.op \notin Reconciling => b2.attached = belief.attached
  <2> DEFINE b2 == AfterSend(b, active, leg)
  <2>1. b2 \in Beliefs
    BY <1>5, AfterSendType
  <2>2. CASE leg.effectful /\ Reconciles(active)
    <3>1. Unclaimed(b2, b)
      BY <2>2, <1>5, SentFields
    <3> HIDE DEF b2
    <3>2. Sound(b2) /\ Renewed(belief, b2)
      BY <3>1, <1>5, UnclaimedSound
    <3> QED BY <1>3, <2>1, <2>2, <3>2, ReconcilesKinds DEF b2
  <2>3. CASE ~(leg.effectful /\ Reconciles(active))
    <3>1. SameClaims(b2, b)
      BY <2>3, <1>5, SentFields
    <3> HIDE DEF b2
    <3>2. Sound(b2) /\ Renewed(belief, b2) /\ b2.attached = b.attached
      BY <3>1, <1>5, SameSound DEF SameClaims
    <3> QED BY <1>5, <2>1, <3>2 DEF b2
  <2> QED BY <2>2, <2>3
<1>6. CASE Send(r, dur)
  <2> DEFINE at == Completed(r, dur)
             a == [sent EXCEPT !.phase = leg.phase, !.index = leg.index,
                               !.nextDue = at + leg.wait,
                               !.effect = EffectAfterSend(sent, leg, r)]
             b2 == AfterSend(b1, active, leg)
  <2>1. Proceed(a, b2, at, poll.left - 1)
    BY <1>6 DEF Send
  <2>2. a.kind = active.kind
    <3>1. sent \in Operations
      BY <1>1, AttemptedLegStep, AttemptedType DEF IInv, LegOK
    <3> HIDE DEF sent, leg, at
    <3> QED BY <1>3, <3>1 DEF Operations
  <2>3. /\ Sound(b2) /\ Renewed(belief, b2)
        /\ active.kind.op \notin Reconciling => b2.attached = belief.attached
    <3> HIDE DEF b1
    <3> QED BY <1>4, <1>5
  <2> HIDE DEF a, b2
  <2> QED BY <1>2, <2>1, <2>2, <2>3, ProceedClaims
<1>7. CASE SendLast(r, dur)
  <2> DEFINE b2 == AfterSend(belief, active, leg)
  <2>1. FinishOperation("SUCCEEDED", "ACKNOWLEDGED", b2, sent, Completed(r, dur))
    BY <1>7 DEF SendLast
  <2>2. b2 \in Beliefs /\ Sound(b2) /\ Renewed(belief, b2)
    BY <1>2, <1>5
  <2> HIDE DEF b2, sent
  <2> QED BY <1>2, <2>1, <2>2, FinishClaims
<1>8. CASE SendFails(r, dur)
  <2>1. PICK status, last :
          FinishOperationFailure(status, b1, sent, last, Completed(r, dur))
    BY <1>8 DEF SendFails
  <2> HIDE DEF b1, sent
  <2> QED BY <1>2, <1>4, <2>1, FailureClaims
<1> QED BY <1>6, <1>7, <1>8

\* What holds when an answer has come.
LEMMA AnswerGiven ==
  ASSUME IInv, BeliefInv, NEW dur \in Durations, Answered(dur)
  PROVE  /\ UNCHANGED <<bound, config>> /\ activeValid /\ Standing(active)
         /\ belief \in Beliefs /\ Sound(belief) /\ Renewed(belief, belief)
         /\ Heard \in Operations /\ Heard.kind = active.kind
         /\ active.kind.op \notin Reconciling => belief.attached
<1>1. UNCHANGED <<bound, config>>
  BY AttemptKeeps DEF Answered
<1>2. activeValid /\ Standing(active) /\ Heard \in Operations /\ Heard.kind = active.kind
  BY AnsweredStep
<1> QED
  BY <1>1, <1>2, SameIdentityRenewed DEF IInv, SlotOK, BeliefInv

\* The transfer of an answer failed.
LEMMA ReadFailsClaims ==
  ASSUME IInv, BeliefInv, NEW r, NEW dur \in Durations, ReadFails(r, dur)
  PROVE  LoopClaims
<1>1. UNCHANGED <<bound, config>>
  BY AttemptKeeps DEF ReadFails
<1>2. belief \in Beliefs /\ Sound(belief) /\ Renewed(belief, belief)
  BY SameIdentityRenewed DEF IInv, SlotOK, BeliefInv
<1>3. PICK status :
        FinishOperationFailure(status, belief, Attempted(FALSE, r), "NONE",
                               Completed(r, dur))
  BY DEF ReadFails
<1> QED BY <1>1, <1>2, <1>3, FailureClaims

\* Answers that leave the belief alone.
LEMMA HeardOnlyClaims ==
  ASSUME IInv, BeliefInv, NEW dur \in Durations,
         \/ HearSerial(dur)
         \/ \E verdict \in BOOLEAN : HearAnswer(dur, verdict) \/ HearReady(dur, verdict)
  PROVE  LoopClaims
<1>1. Answered(dur)
  BY DEF HearSerial, HearAnswer, HearReady
<1>2. /\ UNCHANGED <<bound, config>> /\ belief \in Beliefs /\ Sound(belief)
      /\ Renewed(belief, belief) /\ Heard \in Operations /\ Heard.kind = active.kind
  BY <1>1, AnswerGiven
<1>3. \A s, i, p, n : /\ [Heard EXCEPT !.serial = s, !.index = i, !.phase = p,
                                       !.nextDue = n].kind = Heard.kind
                      /\ [Heard EXCEPT !.phase = p].kind = Heard.kind
  <2> HIDE DEF Heard
  <2> QED BY <1>2 DEF Operations
<1>4. \/ \E a, at, left : a.kind = active.kind /\ Proceed(a, belief, at, left)
      \/ \E outcome, effect, at : FinishOperation(outcome, effect, belief, Heard, at)
  <2>1. CASE HearSerial(dur)
    <3> DEFINE a == [Heard EXCEPT !.serial = sensor.serial, !.index = 1,
                                  !.phase = "SEND_VERIFY_COMMAND",
                                  !.nextDue = poll.at + dur]
    <3>1. Proceed(a, belief, poll.at + dur, poll.left - 1)
      BY <2>1 DEF HearSerial
    <3>2. a.kind = active.kind
      BY <1>2, <1>3
    <3> HIDE DEF a
    <3> QED BY <3>1, <3>2
  <2>2. ASSUME NEW verdict \in BOOLEAN, HearAnswer(dur, verdict)
        PROVE  \E outcome, effect, at :
                 FinishOperation(outcome, effect, belief, Heard, at)
    BY <2>2 DEF HearAnswer
  <2>3. ASSUME NEW ready \in BOOLEAN, HearReady(dur, ready)
        PROVE  \/ \E a, at, left : a.kind = active.kind /\ Proceed(a, belief, at, left)
               \/ \E outcome, effect, at :
                    FinishOperation(outcome, effect, belief, Heard, at)
    <3> DEFINE a == [Heard EXCEPT !.phase = "SEND_READ_COMMAND"]
    <3>1. \/ Proceed(a, belief, poll.at + dur, poll.left - 1)
          \/ FinishOperation("NO_DATA", active.effect, belief, Heard, poll.at + dur)
      BY <2>3 DEF HearReady
    <3>2. a.kind = active.kind
      BY <1>2, <1>3
    <3> HIDE DEF a
    <3> QED BY <3>1, <3>2
  <2> QED BY <2>1, <2>2, <2>3
<1> QED BY <1>2, <1>4, ProceedClaims, FinishClaims

\* The identity is not the one expected.
LEMMA IdentityRefusedClaims ==
  ASSUME IInv, BeliefInv, NEW dur \in Durations, IdentityRefused(dur)
  PROVE  LoopClaims
<1>1. /\ UNCHANGED <<bound, config>> /\ belief \in Beliefs /\ Sound(belief)
  BY AnswerGiven DEF IdentityRefused
<1>2. IdentityRead \in Readings
  BY IdentityReadType
<1>3. /\ Disown(belief, IdentityRead) \in Beliefs
      /\ Sound(Disown(belief, IdentityRead))
      /\ Renewed(belief, Disown(belief, IdentityRead))
  BY <1>1, <1>2, IdentityTypes, IdentitySound
<1>4. PICK outcome, effect :
        FinishOperation(outcome, effect, Disown(belief, IdentityRead), Heard,
                        poll.at + dur)
  BY DEF IdentityRefused
<1> QED BY <1>1, <1>3, <1>4, FinishClaims

\* The identity is confirmed.
LEMMA IdentityConfirmedClaims ==
  ASSUME IInv, BeliefInv, NEW dur \in Durations, IdentityConfirmed(dur)
  PROVE  LoopClaims
<1> DEFINE id == IdentityRead
           b == CASE active.kind.op = "ATTACH" -> Attached(belief, id)
                  [] active.kind.op = "READ_IDENTITY" -> Identify(belief, id)
                  [] active.kind.op = "WAKE_UP" -> Reattach(belief, id)
                  [] active.kind.op \in ResetOps -> ResetDone(belief, id)
<1>1. /\ Answered(dur) /\ HearsVariant(active) /\ ~Refused(id)
      /\ FinishOperation("SUCCEEDED", ConfirmedEffect(active.kind), b, Heard,
                         poll.at + dur)
  BY DEF IdentityConfirmed
<1>2. /\ UNCHANGED <<bound, config>> /\ belief \in Beliefs /\ Sound(belief)
      /\ Standing(active)
      /\ active.kind.op \notin Reconciling => belief.attached
  BY <1>1, AnswerGiven
<1>3. id \in Readings
  BY IdentityReadType
<1>4. ~Unsupported(id) /\ (active.kind.op # "ATTACH" => ~Differs(belief, id))
  BY <1>1 DEF Refused
<1>5. b \in Beliefs /\ Sound(b) /\ Renewed(belief, b)
  <2>1. CASE active.kind.op = "ATTACH"
    <3>1. /\ Attached(belief, id) \in Beliefs /\ Sound(Attached(belief, id))
          /\ Renewed(belief, Attached(belief, id))
      BY <1>2, <1>3, <1>4, IdentityTypes, IdentitySound
    <3>2. b = Attached(belief, id)
      BY <2>1 DEF ResetOps
    <3> QED BY <3>1, <3>2
  <2>2. CASE active.kind.op = "READ_IDENTITY"
    <3>1. belief.attached
      BY <1>2, <2>2 DEF Reconciling, ResetOps, DiagnosticOps
    <3>2. /\ Identify(belief, id) \in Beliefs /\ Sound(Identify(belief, id))
          /\ Renewed(belief, Identify(belief, id))
      BY <1>2, <1>3, <1>4, <2>2, <3>1, IdentifyType, IdentitySound
    <3>3. b = Identify(belief, id)
      BY <2>2 DEF ResetOps
    <3> QED BY <3>2, <3>3
  <2>3. CASE active.kind.op = "WAKE_UP"
    <3>1. /\ Reattach(belief, id) \in Beliefs /\ Sound(Reattach(belief, id))
          /\ Renewed(belief, Reattach(belief, id))
      BY <1>2, <1>3, <1>4, <2>3, IdentityTypes, IdentitySound
    <3>2. b = Reattach(belief, id)
      BY <2>3 DEF ResetOps
    <3> QED BY <3>1, <3>2
  <2>4. CASE active.kind.op \in ResetOps
    <3>1. /\ ResetDone(belief, id) \in Beliefs /\ Sound(ResetDone(belief, id))
          /\ Renewed(belief, ResetDone(belief, id))
      BY <1>2, <1>3, <1>4, <2>4, IdentityTypes, IdentitySound DEF ResetOps
    <3>2. b = ResetDone(belief, id)
      BY <2>4 DEF ResetOps
    <3> QED BY <3>1, <3>2
  <2> QED BY <1>1, <1>2, <2>1, <2>2, <2>3, <2>4, HearsVariantKinds
<1> HIDE DEF b
<1> QED BY <1>1, <1>2, <1>5, FinishClaims

\* The variant has been read.
LEMMA HearVariantClaims ==
  ASSUME IInv, BeliefInv, NEW dur \in Durations, HearVariant(dur)
  PROVE  LoopClaims
<1> DEFINE id == [serial |-> belief.identity.serial, variant |-> sensor.variant]
           b == [belief EXCEPT !.identity.variant = id.variant,
                               !.identity.epoch = belief.epoch]
<1>1. Answered(dur) /\ active.kind.op = "READ_SENSOR_VARIANT"
  BY DEF HearVariant
<1>2. /\ UNCHANGED <<bound, config>> /\ belief \in Beliefs /\ Sound(belief)
      /\ active.kind.op \notin Reconciling => belief.attached
  BY <1>1, AnswerGiven
<1>3. belief.attached /\ id.variant \in Variants
  BY <1>1, <1>2 DEF Reconciling, ResetOps, DiagnosticOps, IInv, BusOK, Sensors
<1>4. CASE Unsupported(id) \/ Differs(belief, id)
  <2> DEFINE b2 == VariantChanged(belief, id)
  <2>1. FinishOperation("FAILED", "NONE", b2, Heard, poll.at + dur)
    BY <1>4 DEF HearVariant
  <2>2. b2 \in Beliefs
    BY <1>2, <1>3, VariantChangedType DEF IInv, BusOK, Sensors
  <2>3. /\ b2.attached = FALSE /\ b2.reconciliationRequired = TRUE
        /\ b2.mode = "UNKNOWN" /\ b2.verified = {}
        /\ b2.compensation = NoField /\ b2.sample.valid = FALSE
        /\ b2.identity.valid = FALSE
    BY <1>2, <1>3, VariantChangedFields
  <2> HIDE DEF b2
  <2>4. Sound(b2) /\ Renewed(belief, b2)
    BY <2>3 DEF Sound, Renewed
  <2> QED BY <1>2, <2>1, <2>2, <2>4, FinishClaims
<1>5. CASE ~(Unsupported(id) \/ Differs(belief, id))
  <2>1. FinishOperation("SUCCEEDED", "NONE", b, Heard, poll.at + dur)
    BY <1>5 DEF HearVariant
  <2>2. ASSUME NEW v \in Variants, NEW e \in 0 .. MaxEpoch
        PROVE  LET b2 == [belief EXCEPT !.identity.variant = v, !.identity.epoch = e]
               IN /\ b2 \in Beliefs /\ b2.identity.variant = v
                  /\ b2.identity.serial = belief.identity.serial
                  /\ b2.identity.epoch = e /\ b2.identity.valid = belief.identity.valid
                  /\ b2.attached = belief.attached /\ b2.mode = belief.mode
                  /\ b2.reconciliationRequired = belief.reconciliationRequired
                  /\ b2.epoch = belief.epoch /\ b2.sample = belief.sample
    BY <1>2 DEF Beliefs, Identities
  <2>3. belief.epoch \in 0 .. MaxEpoch
    BY <1>2 DEF Beliefs
  <2>4. /\ b \in Beliefs /\ b.identity.variant = id.variant
        /\ b.identity.serial = belief.identity.serial
        /\ b.identity.epoch = belief.epoch /\ b.identity.valid = belief.identity.valid
        /\ b.attached = belief.attached /\ b.mode = belief.mode
        /\ b.reconciliationRequired = belief.reconciliationRequired
        /\ b.epoch = belief.epoch /\ b.sample = belief.sample
    BY <1>3, <2>2, <2>3
  <2> HIDE DEF b
  <2>5. belief.identity.valid /\ id.variant = belief.identity.variant
    BY <1>2, <1>3, <1>5 DEF Sound, Differs
  <2> HIDE DEF id
  <2>6. Unsupported(b.identity) = Unsupported(belief.identity)
    BY <2>4, <2>5 DEF Unsupported
  <2>7. Sound(b) /\ Renewed(belief, b)
    BY <1>2, <1>3, <2>4, <2>5, <2>6 DEF Sound, Renewed
  <2> QED BY <1>2, <2>1, <2>4, <2>7, FinishClaims
<1> QED BY <1>4, <1>5

\* A sample has been read.
LEMMA HearSampleClaims ==
  ASSUME IInv, BeliefInv, NEW dur \in Durations, HearSample(dur)
  PROVE  LoopClaims
<1>1. /\ UNCHANGED <<bound, config>> /\ belief \in Beliefs /\ Sound(belief)
      /\ belief.attached
  BY AnswerGiven
     DEF HearSample, Reconciling, ResetOps, DiagnosticOps, MeasurementOps, SingleShotOps
<1>2. PICK f : f \in Fields
  BY DEF Fields
<1>3. StoreSample(belief) \in Beliefs /\ Sound(StoreSample(belief))
  BY <1>1, <1>2, StoreSampleType, ReadingSound
<1>4. Renewed(belief, StoreSample(belief))
  <2>1. StoreSample(belief).identity = belief.identity
    BY <1>1, SampleFields
  <2> QED BY <2>1, SameIdentityRenewed
<1>5. PICK effect : FinishOperation("SUCCEEDED", effect, StoreSample(belief), Heard,
                                    poll.at + dur)
  BY DEF HearSample
<1> QED BY <1>1, <1>3, <1>4, <1>5, FinishClaims

\* What a word that has been read makes of the belief.
LEMMA WordRead ==
  ASSUME NEW b \in Beliefs, Sound(b), b.attached, NEW f \in Fields, NEW w \in AnyWord
  PROVE  /\ LET b2 == ApplyReadValue(b, f, w)
            IN b2 \in Beliefs /\ Sound(b2) /\ Renewed(b, b2) /\ b2.attached
         /\ LET b2 == Unverify(b, f)
            IN b2 \in Beliefs /\ Sound(b2) /\ Renewed(b, b2) /\ b2.attached
<1>1. /\ ApplyReadValue(b, f, w) \in Beliefs /\ Unverify(b, f) \in Beliefs
      /\ Sound(ApplyReadValue(b, f, w)) /\ Sound(Unverify(b, f))
  BY SettingTypes, ReadingSound
<1>2. /\ ApplyReadValue(b, f, w).identity = b.identity
      /\ ApplyReadValue(b, f, w).attached = b.attached
      /\ Unverify(b, f).identity = b.identity
      /\ Unverify(b, f).attached = b.attached
  BY DEF ApplyReadValue, Unverify, Beliefs
<1>3. \A b2 : b2.identity = b.identity => Renewed(b, b2)
  BY SameIdentityRenewed
<1> QED BY <1>1, <1>2, <1>3

\* What holds when the word of a setting has come.
LEMMA SettingGiven ==
  ASSUME IInv, BeliefInv, NEW dur \in Durations, Answered(dur),
         active.kind.op \in {"READ_SETTING", "READ_CONFIGURATION", "SET_SETTING"}
  PROVE  /\ UNCHANGED <<bound, config>> /\ belief \in Beliefs /\ Sound(belief)
         /\ belief.attached /\ Heard \in Operations /\ Heard.kind = active.kind
         /\ active.kind.op = "SET_SETTING" => active.kind.field \in Fields
         /\ active.kind.op # "SET_SETTING" => FieldRead(active) \in Fields
         /\ \A f \in Fields : sensor.ram[f] \in AnyWord
<1>1. /\ UNCHANGED <<bound, config>> /\ belief \in Beliefs /\ Sound(belief)
      /\ Standing(active) /\ Heard \in Operations /\ Heard.kind = active.kind
      /\ belief.attached
  BY AnswerGiven DEF Reconciling, ResetOps, DiagnosticOps
<1>2. /\ active.kind.op = "SET_SETTING" => active.kind.field \in Fields
      /\ active.kind.op # "SET_SETTING" => FieldRead(active) \in Fields
  BY <1>1, KindCases, FieldReadType DEF Standing
<1> QED BY <1>1, <1>2 DEF IInv, BusOK, Sensors

\* A setting has been read.
LEMMA HearSettingClaims ==
  ASSUME IInv, BeliefInv, NEW dur \in Durations,
         HearInvalidSetting(dur) \/ HearSetting(dur)
  PROVE  LoopClaims
<1> DEFINE f == FieldRead(active)
           w == sensor.ram[f]
           b == ApplyReadValue(belief, f, w)
           whole == active.kind.op = "READ_CONFIGURATION"
           heard == IF whole THEN [Heard EXCEPT !.completed = @ \cup {f}] ELSE Heard
           a == [heard EXCEPT !.index = @ + 1, !.phase = "SEND_COMMAND",
                              !.nextDue = poll.at + dur]
<1>1. Answered(dur) /\ active.kind.op \in {"READ_SETTING", "READ_CONFIGURATION"}
  BY DEF HearInvalidSetting, HearSetting
<1>2. /\ UNCHANGED <<bound, config>> /\ belief \in Beliefs /\ Sound(belief)
      /\ belief.attached /\ Heard \in Operations /\ Heard.kind = active.kind
      /\ f \in Fields /\ w \in AnyWord
  BY <1>1, SettingGiven
<1>3. /\ b \in Beliefs /\ Sound(b) /\ Renewed(belief, b) /\ b.attached
      /\ Unverify(belief, f) \in Beliefs /\ Sound(Unverify(belief, f))
      /\ Renewed(belief, Unverify(belief, f))
  BY <1>2, WordRead
<1>4. CASE HearInvalidSetting(dur)
  <2>1. FinishOperationFailure("ERROR", Unverify(belief, f), Heard, "NONE",
                               poll.at + dur)
    BY <1>4 DEF HearInvalidSetting
  <2> HIDE DEF f
  <2> QED BY <1>2, <1>3, <2>1, FailureClaims
<1>5. CASE HearSetting(dur)
  <2>1. \/ Proceed(a, b, poll.at + dur, poll.left - 1)
        \/ FinishOperation("SUCCEEDED", "NONE", b, heard, poll.at + dur)
    BY <1>5 DEF HearSetting
  <2>2. a.kind = active.kind
    <3>1. ASSUME NEW h \in Operations, NEW g
          PROVE  LET h2 == [h EXCEPT !.completed = @ \cup {g}]
                 IN /\ h2.kind = h.kind
                    /\ [h2 EXCEPT !.index = @ + 1, !.phase = "SEND_COMMAND",
                                  !.nextDue = poll.at + dur].kind = h.kind
                    /\ [h EXCEPT !.index = @ + 1, !.phase = "SEND_COMMAND",
                                 !.nextDue = poll.at + dur].kind = h.kind
      BY DEF Operations
    <3> HIDE DEF Heard, f
    <3> QED BY <1>2, <3>1
  <2> HIDE DEF a, b, heard
  <2> QED BY <1>2, <1>3, <2>1, <2>2, ProceedClaims, FinishClaims
<1> QED BY <1>4, <1>5

\* The word before a setting write has been read.
LEMMA HearPresentSettingClaims ==
  ASSUME IInv, BeliefInv, NEW dur \in Durations, HearPresentSetting(dur)
  PROVE  LoopClaims
<1> DEFINE f == active.kind.field
           word == sensor.ram[f]
           b == IF ValidReturnedSetting(f, word) THEN ApplyReadValue(belief, f, word)
                ELSE Unverify(belief, f)
           a == [Heard EXCEPT !.changed = word # active.desired, !.index = 1,
                              !.phase = "SEND_COMMAND", !.nextDue = poll.at + dur]
<1>1. Answered(dur) /\ active.kind.op = "SET_SETTING"
  BY DEF HearPresentSetting
<1>2. /\ UNCHANGED <<bound, config>> /\ belief \in Beliefs /\ Sound(belief)
      /\ belief.attached /\ Heard \in Operations /\ Heard.kind = active.kind
      /\ f \in Fields /\ word \in AnyWord
  BY <1>1, SettingGiven
<1>3. b \in Beliefs /\ Sound(b) /\ Renewed(belief, b) /\ b.attached
  BY <1>2, WordRead
<1>4. a.kind = active.kind
  <2>1. \A c : [Heard EXCEPT !.changed = c, !.index = 1, !.phase = "SEND_COMMAND",
                             !.nextDue = poll.at + dur].kind = Heard.kind
    <3> HIDE DEF Heard
    <3> QED BY <1>2 DEF Operations
  <2> QED BY <1>2, <2>1
<1>5. \/ Proceed(a, b, poll.at + dur, poll.left - 1)
      \/ FinishOperation("SUCCEEDED", "VERIFIED", b, Heard, poll.at + dur)
      \/ FinishOperationFailure("ERROR", b, Heard, "NONE", poll.at + dur)
  BY DEF HearPresentSetting
<1> HIDE DEF a, b
<1> QED
  BY <1>2, <1>3, <1>4, <1>5, ProceedClaims, FinishClaims, FailureClaims

\* The word after a setting write has been read.
LEMMA HearWrittenSettingClaims ==
  ASSUME IInv, BeliefInv, NEW dur \in Durations, HearWrittenSetting(dur)
  PROVE  LoopClaims
<1> DEFINE f == active.kind.field
           word == sensor.ram[f]
           read == ApplyReadValue(belief, f, word)
           b == IF f \in CompensationFields THEN [read EXCEPT !.compensation = f]
                ELSE read
           un == Unverify(belief, f)
<1>1. Answered(dur) /\ active.kind.op = "SET_SETTING"
  BY DEF HearWrittenSetting
<1>2. /\ UNCHANGED <<bound, config>> /\ belief \in Beliefs /\ Sound(belief)
      /\ belief.attached /\ f \in Fields /\ word \in AnyWord
  BY <1>1, SettingGiven
<1>3. /\ read \in Beliefs /\ Sound(read) /\ Renewed(belief, read) /\ read.attached
      /\ un \in Beliefs /\ Sound(un) /\ Renewed(belief, un)
  BY <1>2, WordRead
<1>4. b \in Beliefs /\ Sound(b) /\ Renewed(belief, b)
  <2>1. ASSUME NEW b1 \in Beliefs, Sound(b1), Renewed(belief, b1), b1.attached,
               NEW g \in CompensationFields
        PROVE  LET b2 == [b1 EXCEPT !.compensation = g]
               IN b2 \in Beliefs /\ Sound(b2) /\ Renewed(belief, b2)
    <3> DEFINE b2 == [b1 EXCEPT !.compensation = g]
    <3>1. /\ b2 \in Beliefs /\ b2.attached = b1.attached /\ b2.mode = b1.mode
          /\ b2.reconciliationRequired = b1.reconciliationRequired
          /\ b2.epoch = b1.epoch /\ b2.identity = b1.identity /\ b2.sample = b1.sample
      BY <2>1 DEF Beliefs
    <3> HIDE DEF b2
    <3>2. Sound(b2) /\ Renewed(belief, b2)
      BY <2>1, <3>1 DEF Sound, Renewed
    <3> QED BY <3>1, <3>2 DEF b2
  <2> HIDE DEF read
  <2> QED BY <1>3, <2>1
<1>5. \/ FinishOperation("FAILED", "ACKNOWLEDGED", un, Heard, poll.at + dur)
      \/ FinishOperation("FAILED", "VERIFIED", read, Heard, poll.at + dur)
      \/ FinishOperation("SUCCEEDED", "VERIFIED", b, Heard, poll.at + dur)
  <2>1. CASE ~ValidReturnedSetting(f, word)
    BY <2>1 DEF HearWrittenSetting
  <2>2. CASE ValidReturnedSetting(f, word) /\ word # active.desired
    BY <2>2 DEF HearWrittenSetting
  <2>3. CASE ValidReturnedSetting(f, word) /\ word = active.desired
    BY <2>3 DEF HearWrittenSetting
  <2> QED BY <2>1, <2>2, <2>3
<1> HIDE DEF un, read, b
<1> QED BY <1>2, <1>3, <1>4, <1>5, FinishClaims

\* Every iteration of the poll loop keeps the claims together.
LEMMA IterationClaims ==
  ASSUME IInv, BeliefInv, LoopStep
  PROVE  LoopClaims
<1>1. CASE \/ PollBreak \/ GateDefers \/ NotDue \/ WaitOver \/ CommandSettled
           \/ PersistShortcut \/ BudgetExhausted
  BY <1>1, QuietClaims, QuietEndClaims
<1>2. ASSUME NEW dur \in Durations, NEW r \in EffectfulOutcomes \cup PlainOutcomes,
             Send(r, dur) \/ SendLast(r, dur) \/ SendFails(r, dur) \/ ReadFails(r, dur)
      PROVE  LoopClaims
  BY <1>2, SendClaims, ReadFailsClaims
<1>3. ASSUME NEW dur \in Durations,
             \/ HearSerial(dur) \/ IdentityRefused(dur) \/ IdentityConfirmed(dur)
             \/ HearVariant(dur) \/ HearInvalidSetting(dur) \/ HearSetting(dur)
             \/ HearPresentSetting(dur) \/ HearWrittenSetting(dur) \/ HearSample(dur)
             \/ \E verdict \in BOOLEAN :
                  HearAnswer(dur, verdict) \/ HearReady(dur, verdict)
      PROVE  LoopClaims
  BY <1>3, HeardOnlyClaims, IdentityRefusedClaims, IdentityConfirmedClaims,
     HearVariantClaims, HearSettingClaims, HearPresentSettingClaims,
     HearWrittenSettingClaims, HearSampleClaims
<1> QED BY <1>1, <1>2, <1>3 DEF LoopStep
-----------------------------------------------------------------------------
(* The calls of the owner.                                                 *)

\* A belief that claims nothing is sound under any configuration.
LEMMA ClaimlessInv ==
  ASSUME belief'.attached = FALSE, belief'.reconciliationRequired = TRUE,
         belief'.mode = "UNKNOWN", belief'.verified = {},
         belief'.compensation = NoField, belief'.sample.valid = FALSE,
         ~activeValid'
  PROVE  BeliefInv'
  BY DEF BeliefInv, Sound

\* A belief whose claims are kept, under the same configuration.
LEMMA KeptInv ==
  ASSUME Sound(belief'), UNCHANGED config, belief'.attached => bound',
         activeValid' => bound' /\ ~terminalValid',
         activeValid' /\ active'.kind.op \notin Reconciling => belief'.attached
  PROVE  BeliefInv'
<1>1. Sound(belief)'
  BY DEF Sound, Unsupported
<1> QED BY <1>1 DEF BeliefInv

\* begin() and end().
LEMMA BindingClaims ==
  ASSUME IInv, BeliefInv, End \/ \E c \in Configs : Begin(c)
  PROVE  BeliefInv' /\ Renewed(belief, belief')
<1>1. CASE \E c \in Configs : Begin(c)
  <2>1. belief' = Ignorance(belief.epoch) /\ ~activeValid'
    BY <1>1 DEF Begin
  <2>2. /\ belief'.attached = FALSE /\ belief'.reconciliationRequired = TRUE
        /\ belief'.mode = "UNKNOWN" /\ belief'.verified = {}
        /\ belief'.compensation = NoField /\ belief'.sample.valid = FALSE
        /\ belief'.identity.valid = FALSE
    BY <2>1 DEF Ignorance, NoSample, NoIdentity
  <2> QED BY <2>1, <2>2, ClaimlessInv DEF Renewed
<1>2. CASE End
  <2>1. ~activeValid'
    BY <1>2 DEF End
  <2>2. PICK b \in Beliefs : belief' = Unbind(b)
    <3>1. belief \in Beliefs
      BY DEF IInv, SlotOK
    <3>2. CASE ~activeValid
      BY <1>2, <3>1, <3>2 DEF End
    <3>3. CASE activeValid
      <4> DEFINE marked == IF active.callbacksUsed > 0
                           THEN MarkReconciliationRequired(belief) ELSE belief
                 doubt == marked.persistenceIndeterminate
                            \/ /\ active.kind.op \in {"PERSIST_SETTINGS",
                                                      "FACTORY_RESET"}
                               /\ active.attempted
                 dirty == IF ReloadSettled(active, 0) THEN {} ELSE marked.dirty
                 cancelled == [marked EXCEPT !.persistenceIndeterminate = doubt,
                                             !.dirty = dirty]
      <4>1. belief' = Unbind(cancelled)
        BY <1>2, <3>3 DEF End
      <4>2. marked \in Beliefs
        BY <3>1, MarkType
      <4>3. dirty \in SUBSET PersistableFields /\ doubt \in BOOLEAN
        BY <4>2 DEF Beliefs
      <4>4. \A m \in Beliefs, p \in BOOLEAN, d \in SUBSET PersistableFields :
              [m EXCEPT !.persistenceIndeterminate = p, !.dirty = d] \in Beliefs
        BY DEF Beliefs
      <4>5. cancelled \in Beliefs
        <5> HIDE DEF marked, doubt, dirty
        <5> QED BY <4>2, <4>3, <4>4
      <4> HIDE DEF cancelled
      <4> QED BY <4>1, <4>5
    <3> QED BY <3>2, <3>3
  <2>3. /\ belief'.attached = FALSE /\ belief'.reconciliationRequired = TRUE
        /\ belief'.mode = "UNKNOWN" /\ belief'.verified = {}
        /\ belief'.compensation = NoField /\ belief'.sample.valid = FALSE
        /\ belief'.identity.valid = FALSE
    BY <2>2, UnbindFields
  <2> QED BY <2>1, <2>3, ClaimlessInv DEF Renewed
<1> QED BY <1>1, <1>2

\* An operation that relies on being attached is not accepted before.
LEMMA AdmissionNeedsClaims ==
  ASSUME NEW k, k.op \notin Reconciling, Admissible(k)
  PROVE  belief.attached
  BY DEF Admissible, Reconciling

\* start().
LEMMA StartClaims ==
  ASSUME IInv, BeliefInv, NEW k, NEW id, NEW w, NEW deadline, NEW d,
         Start(k, id, w, deadline, d)
  PROVE  BeliefInv' /\ UNCHANGED belief
<1>1. /\ bound /\ ~terminalValid /\ Admissible(k)
      /\ UNCHANGED <<bound, config, belief, terminalValid>>
  BY DEF Start, Startable
<1>2. active'.kind = k
  BY DEF Start, NoOperation
<1>3. k.op \notin Reconciling => belief.attached
  BY <1>1, AdmissionNeedsClaims
<1> QED BY <1>1, <1>2, <1>3, KeptInv DEF BeliefInv

\* cancel().
LEMMA CancelClaims ==
  ASSUME IInv, BeliefInv, NEW id, NEW d, Cancel(id, d)
  PROVE  BeliefInv' /\ Renewed(belief, belief')
<1> DEFINE b == IF active.callbacksUsed # 0 /\ active.attempted
                THEN MarkReconciliationRequired(belief) ELSE belief
<1>1. /\ UNCHANGED <<bound, config>> /\ bound /\ belief \in Beliefs /\ Sound(belief)
      /\ Renewed(belief, belief)
  BY SameIdentityRenewed DEF Cancel, IInv, SlotOK, BeliefInv
<1>2. b \in Beliefs /\ Sound(b) /\ Renewed(belief, b)
  BY <1>1, MarkType, MarkFields, UnclaimedSound
<1>3. PICK effect, p :
        FinishOperation("CANCELLED", effect, [b EXCEPT !.persistenceIndeterminate = p],
                        active, d)
  BY DEF Cancel
<1> HIDE DEF b
<1>4. ~activeValid' /\ Sound(belief') /\ Renewed(belief, belief')
  <2> DEFINE b2 == [b EXCEPT !.persistenceIndeterminate = p]
  <2>1. SameClaims(b2, b)
    BY <1>2, DoubtFields
  <2>2. SameClaims(belief', b) /\ ~activeValid'
    <3>1. /\ ~activeValid'
          /\ belief' = IF ReloadSettled(active, d) THEN [b2 EXCEPT !.dirty = {}] ELSE b2
      BY <1>3 DEF FinishOperation
    <3>2. SameClaims([b2 EXCEPT !.dirty = {}], b)
      BY <1>2 DEF SameClaims, Beliefs
    <3> HIDE DEF b2
    <3> QED BY <2>1, <3>1, <3>2
  <2> QED BY <1>2, <2>2, SameSound
<1> QED BY <1>1, <1>4, KeptInv

\* poll() up to its loop.
LEMMA EnterPollClaims ==
  ASSUME IInv, BeliefInv, NEW budget, NEW d, EnterPoll(budget, d)
  PROVE  BeliefInv' /\ Renewed(belief, belief')
<1>1. /\ UNCHANGED <<bound, config>> /\ belief \in Beliefs /\ Sound(belief)
      /\ Renewed(belief, belief)
  BY SameIdentityRenewed DEF EnterPoll, IInv, SlotOK, BeliefInv
<1>2. CASE activeValid /\ active.deadline > d
  <2>1. /\ active' = Aged(active, d) /\ UNCHANGED <<belief, activeValid, terminalValid>>
    BY <1>2 DEF EnterPoll
  <2>2. active'.kind = active.kind
    BY <2>1 DEF Aged, IInv, SlotOK, Operations
  <2> QED BY <1>1, <2>1, <2>2, KeptInv DEF BeliefInv
<1>3. CASE activeValid /\ ~(active.deadline > d)
  <2>1. FinishOperationFailure("TIMEOUT", belief, active, lastEffectful, d)
    BY <1>3 DEF EnterPoll
  <2>2. LoopClaims
    BY <1>1, <2>1, FailureClaims
  <2>3. ~activeValid' /\ bound
    BY <1>1, <1>3, <2>1, FailureBelief DEF BeliefInv
  <2> QED BY <1>1, <2>2, <2>3, KeptInv DEF LoopClaims
<1>4. CASE ~activeValid
  <2>1. UNCHANGED <<belief, activeValid, active, terminalValid>>
    BY <1>4 DEF EnterPoll
  <2> QED BY <1>1, <1>4, <2>1, KeptInv DEF BeliefInv
<1> QED BY <1>2, <1>3, <1>4

\* The loop runs only while the owner is in a poll call.
LEMMA LoopRunsInPoll ==
  ASSUME LoopStep
  PROVE  poll.on
<1>1. Transferring => poll.on
  BY DEF Transferring, Working
<1>2. ASSUME \/ PollBreak \/ GateDefers \/ NotDue \/ WaitOver \/ CommandSettled
             \/ PersistShortcut \/ BudgetExhausted
      PROVE  poll.on
  BY <1>1, <1>2 DEF PollBreak, GateDefers, NotDue, WaitOver, CommandSettled,
                    PersistShortcut, BudgetExhausted, WaitIsOver, Working
<1>3. ASSUME NEW dur, NEW r,
             Send(r, dur) \/ SendLast(r, dur) \/ SendFails(r, dur) \/ ReadFails(r, dur)
      PROVE  poll.on
  BY <1>1, <1>3 DEF Send, SendLast, SendFails, ReadFails, AttemptedLeg, AttemptedRead
<1>4. ASSUME NEW dur, Answered(dur)
      PROVE  poll.on
  BY <1>1, <1>4 DEF Answered, AttemptedRead
<1>5. ASSUME NEW dur,
             \/ HearSerial(dur) \/ IdentityRefused(dur) \/ IdentityConfirmed(dur)
             \/ HearVariant(dur) \/ HearInvalidSetting(dur) \/ HearSetting(dur)
             \/ HearPresentSetting(dur) \/ HearWrittenSetting(dur) \/ HearSample(dur)
             \/ \E verdict \in BOOLEAN : HearAnswer(dur, verdict) \/ HearReady(dur, verdict)
      PROVE  poll.on
  <2>1. Answered(dur)
    BY <1>5 DEF HearSerial, IdentityRefused, IdentityConfirmed, HearVariant,
                HearInvalidSetting, HearSetting, HearPresentSetting,
                HearWrittenSetting, HearSample, HearAnswer, HearReady
  <2> QED BY <1>4, <2>1
<1> QED BY <1>2, <1>3, <1>5 DEF LoopStep

\* No step of anybody breaks the claims.
LEMMA NextClaims ==
  ASSUME IInv, BeliefInv, [Next]_vars
  PROVE  BeliefInv' /\ Renewed(belief, belief')
<1>1. Sound(belief) /\ Renewed(belief, belief)
  BY SameIdentityRenewed DEF BeliefInv
<1>2. CASE LoopStep
  <2>1. LoopClaims
    BY <1>2, IterationClaims
  <2>2. poll.on
    BY <1>2, LoopRunsInPoll
  <2>3. activeValid /\ bound /\ ~terminalValid
    BY <2>2 DEF IInv, SlotOK, InTime, BeliefInv
  <2>4. Sound(belief') /\ Renewed(belief, belief') /\ UNCHANGED config /\ bound'
    BY <2>1, <2>3 DEF LoopClaims
  <2>5. activeValid' => ~terminalValid'
    BY <2>1, <2>3 DEF LoopClaims
  <2>6. activeValid' /\ active'.kind.op \notin Reconciling => belief'.attached
    BY <2>1, <2>3 DEF LoopClaims, BeliefInv
  <2> QED BY <2>4, <2>5, <2>6, KeptInv
<1>3. CASE End \/ \E c \in Configs : Begin(c)
  BY <1>3, BindingClaims
<1>4. CASE TakeResult(terminal.id) \/ (\E s2 \in Replacements : Disturb(s2))
             \/ UNCHANGED vars
  <2>1. UNCHANGED <<bound, config, belief, activeValid, active>>
    BY <1>4 DEF TakeResult, Disturb, driverVars, vars
  <2>2. terminalValid' => terminalValid
    BY <1>4 DEF TakeResult, Disturb, driverVars, vars
  <2> QED BY <1>1, <2>1, <2>2, KeptInv DEF BeliefInv
<1>5. ASSUME NEW k, NEW id, NEW w, NEW deadline, NEW d, Start(k, id, w, deadline, d)
      PROVE  BeliefInv' /\ Renewed(belief, belief')
  BY <1>1, <1>5, StartClaims
<1>6. ASSUME NEW d, Cancel(active.id, d) \/ \E budget : EnterPoll(budget, d)
      PROVE  BeliefInv' /\ Renewed(belief, belief')
  BY <1>6, CancelClaims, EnterPollClaims
<1> QED BY <1>2, <1>3, <1>4, <1>5, <1>6 DEF Next, OwnerCall

\* The claims fit together from the start.
LEMMA InitialClaims ==
  ASSUME Init
  PROVE  BeliefInv
  BY DEF Init, BeliefInv, Sound, Ignorance, NoSample

\* The invariant of the claims.
THEOREM BeliefInvariance == Spec => []BeliefInv
<1>1. Init => BeliefInv
  BY InitialClaims
<1>2. IInv /\ BeliefInv /\ [Next]_vars => BeliefInv'
  BY NextClaims
<1> QED BY <1>1, <1>2, Invariance, PTL DEF Spec
-----------------------------------------------------------------------------
\* A driver that needs reconciliation claims nothing and an attached one knows
\* the mode, at every instant between and inside calls; an operation other
\* than the reconciling ones only runs while the driver is attached.
THEOREM ClaimsAreCoherent == Spec => []Coherent
<1>1. BeliefInv => Coherent
  BY DEF BeliefInv, Sound, Coherent
<1> QED BY <1>1, BeliefInvariance, PTL

\* What an attached driver knows, it learnt in the present sensor epoch; there
\* is no sample of an earlier one.
THEOREM KnowledgeIsCurrent == Spec => []CurrentEpoch
<1>1. BeliefInv => CurrentEpoch
  BY DEF BeliefInv, Sound, CurrentEpoch
<1> QED BY <1>1, BeliefInvariance, PTL

\* With strictVariantCheck only an SCD41 is attached, whichever of the four
\* ways of attaching is taken and whatever configuration was bound before.
THEOREM OnlyTheRightVariant == Spec => []StrictVariant
<1>1. BeliefInv => StrictVariant
  BY DEF BeliefInv, Sound, Unsupported, StrictVariant
<1> QED BY <1>1, BeliefInvariance, PTL

\* Another sensor is never taken for the same: a new serial number or variant
\* comes with a new epoch.
THEOREM AnotherSensorAnotherEpoch == Spec => NewSensorNewEpoch
<1>1. IInv /\ BeliefInv /\ [Next]_vars
        => [\/ ~belief'.identity.valid
            \/ ~belief.identity.valid
            \/ belief'.identity.serial = belief.identity.serial
                 /\ belief'.identity.variant = belief.identity.variant
            \/ belief'.epoch > belief.epoch
            \/ belief.epoch = MaxEpoch]_vars
  BY NextClaims DEF Renewed
<1> QED BY <1>1, Invariance, BeliefInvariance, PTL DEF Spec, NewSensorNewEpoch
=============================================================================
