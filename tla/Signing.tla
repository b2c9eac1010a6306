------------------------------- MODULE Signing -------------------------------
(***************************************************************************)
(* PlaychainUser::signDigest: a user keeps its key encoded with a noise,   *)
(* decodes it for each signature, and sign_digest signs with one nonce     *)
(* after another until the signature is canonical. The curve library is    *)
(* external: it calls extended_nonce_function for a nonce, again if that   *)
(* nonce is of no use, and the signature is a function of key and nonce.   *)
(***************************************************************************)
EXTENDS Integers, FiniteSets

CONSTANTS
  KeySize, NoiseSize,  \* in units that are obscured one by one; 32 and 8 bytes
  Keys,                \* private keys users may have
  Noises,              \* noises drawn for them
  MaxTries,            \* every sequence of that many nonces holds one that serves
  Rests,               \* contents of the memory behind recid
  Curves,              \* what the library may make of a digest's nonces
  MaxSignings          \* bound: signatures asked for

Indices(n) == 0..n - 1
Nonces == (1..MaxTries) \X Rests

ASSUME SigningAssumption ==
  /\ KeySize \in Nat /\ NoiseSize \in Nat \ {0}
  /\ Keys \subseteq [Indices(KeySize) -> BOOLEAN]
  /\ Noises \subseteq [Indices(NoiseSize) -> BOOLEAN]
  /\ MaxTries \in Nat \ {0} /\ MaxSignings \in Nat /\ 0 \in Rests
  /\ Curves \subseteq [Nonces -> [fate : {"unusable", "not canonical", "canonical"}, recid : 0..3]]
  /\ \A curve \in Curves, r \in Rests : curve[<<MaxTries, r>>].fate = "canonical"

VARIABLES
  extended,  \* whether SECP256K1_EXT is defined, in library and client
  curve,     \* what the library makes of the digest's nonces
  key,       \* history: the key of the user
  crypted,   \* the user's _crypted
  pc,        \* "idle" (no user yet), "ready", "nonce", "check", "thrown"
  counter,   \* what the nonce function advances: counter, or recid without SECP256K1_EXT
  nonce,     \* the nonce of the signature at hand
  signatures,\* texts returned
  calls      \* signatures asked for

signingVars == <<extended, curve, key, crypted, pc, counter, nonce, signatures, calls>>
-----------------------------------------------------------------------------
(* private_key_sec. Units are exclusive-ored: equal ones give FALSE.       *)

Xor(a, b) == a # b
Cyclic(i) == i % NoiseSize
Running(i) == i  \* mutant: the offset into the noise does not start again
DecodeOffset(i) == Cyclic(i)

\* The noise, and then the key with the noise over and over.
encode(k, noise) ==
  [i \in Indices(NoiseSize + KeySize) |->
    IF i < NoiseSize THEN noise[i] ELSE Xor(k[i - NoiseSize], noise[Cyclic(i - NoiseSize)])]

decode(c) == [i \in Indices(KeySize) |-> Xor(c[i + NoiseSize], c[DecodeOffset(i)])]

\* A number the curve takes for a key: not 0 (that it is not too large either is left out).
IsKey(k) == \E i \in Indices(KeySize) : k[i]
-----------------------------------------------------------------------------
SigningInit ==
  /\ extended \in BOOLEAN /\ curve \in Curves
  /\ key \in Keys
  /\ crypted = [i \in Indices(NoiseSize + KeySize) |-> FALSE]
  /\ pc = "idle"
  /\ counter = 0 /\ nonce = <<0, 0>>
  /\ signatures = {} /\ calls = 0

\* PlaychainUser's constructor; users may have the same noise.
MakeUser(noise) ==
  /\ pc = "idle"
  /\ crypted' = encode(key, noise)
  /\ pc' = "ready"
  /\ UNCHANGED <<extended, curve, key, counter, nonce, signatures, calls>>

Kept == counter  \* mutant: the counter of the call before
Cleared == 0
SignDigest ==
  /\ pc = "ready" /\ calls < MaxSignings
  /\ calls' = calls + 1
  /\ counter' = Cleared
  /\ pc' = "nonce"
  /\ UNCHANGED <<extended, curve, key, crypted, nonce, signatures>>

Standing(n) == 1  \* mutant: the counter is set, not advanced
Advanced(n) == n + 1

\* extended_nonce_function; the library asks again if the nonce is of no use. The nonce
\* is made of 32 bytes: those of counter, or recid and what follows it on the stack.
DrawNonce(rest) ==
  /\ pc = "nonce" /\ IsKey(decode(crypted))
  /\ rest = 0 \/ ~extended
  /\ counter' = Advanced(counter)
  /\ nonce' = <<Advanced(counter), rest>>
  /\ pc' = IF curve[nonce'].fate = "unusable" THEN "nonce" ELSE "check"
  /\ UNCHANGED <<extended, curve, key, crypted, signatures, calls>>

\* A signature whose recovery is done with recid.
RecidOfCounter == counter  \* mutant: the number of tries
Recid == IF extended THEN curve[nonce].recid ELSE counter
Signature == [header |-> 27 + 4 + Recid, nonce |-> nonce, key |-> decode(crypted)]

Canonical == curve[nonce].fate = "canonical"

RepeatUntilCanonical ==
  /\ pc = "check" /\ ~Canonical
  /\ pc' = "nonce"
  /\ UNCHANGED <<extended, curve, key, crypted, counter, nonce, signatures, calls>>

Return ==
  /\ pc = "check" /\ Canonical
  /\ signatures' = signatures \cup {Signature}
  /\ pc' = "ready"
  /\ UNCHANGED <<extended, curve, key, crypted, counter, nonce, calls>>

\* secp256k1_ecdsa_sign returns 0: the context is destroyed and the exception passed on.
Throw ==
  /\ pc = "nonce" /\ ~IsKey(decode(crypted))
  /\ pc' = "thrown"
  /\ UNCHANGED <<extended, curve, key, crypted, counter, nonce, signatures, calls>>

SignStep == (\E rest \in Rests : DrawNonce(rest)) \/ RepeatUntilCanonical \/ Return \/ Throw

SigningNext == (\E noise \in Noises : MakeUser(noise)) \/ SignDigest \/ SignStep

\* A call that has begun runs on its caller's thread.
SigningFairness == WF_signingVars(SignStep)

SigningSpec == SigningInit /\ [][SigningNext]_signingVars /\ SigningFairness
-----------------------------------------------------------------------------
(* What must hold. *)

(* Every call of sign_digest ends: the nonce function advances its counter *)
(* for as long as signatures are not canonical (playchain_helper.cpp:293). *)
SigningEnds == pc \in {"nonce", "check"} ~> pc \in {"ready", "thrown"}

(* A signature is made with the key of its user, whatever noise the key is *)
(* kept with, and with SECP256K1_EXT its header tells the node how to      *)
(* recover that key, however many nonces were tried (private_key_sec.cpp,  *)
(* playchain_helper.cpp:301).                                              *)
SignedByItsUser ==
  \A s \in signatures :
    /\ s.key = key /\ curve[s.nonce].fate = "canonical"
    /\ extended => s.header = 31 + curve[s.nonce].recid

(* With SECP256K1_EXT the same user signs the same digest with the same    *)
(* text each time, which makeBroadcastTransaction then keeps once.         *)
OneTextPerDigest == extended => Cardinality(signatures) <= 1
=============================================================================
