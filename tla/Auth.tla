-------------------------------- MODULE Auth --------------------------------
(***************************************************************************)
(* auth and auth/internal: who a request's tokens say it is from. Tokens   *)
(* are of two providers, the service's own (ice) and Firebase; a metadata  *)
(* token may say under which of its IDs a user is registered.              *)
(***************************************************************************)
EXTENDS Naturals

CONSTANT AllowEmailPassword   \* wintr/auth/firebase: allowEmailPassword

ASSUME AuthAssumption == AllowEmailPassword \in BOOLEAN

VARIABLE firebase   \* a.fb is not nil: New found credentials for Firebase

NoUser == "nobody"   \* the empty user ID

\* What the code reads of a token. "valid": signed by whom it should be, and neither
\* expired nor early; signIn: the sign_in_provider of a Firebase token.
Token(alg, iss, user, valid, signIn) ==
    [alg |-> alg, iss |-> iss, user |-> user, valid |-> valid, signIn |-> signIn]

Garbage == Token("none", "none", NoUser, FALSE, "none")

Accepted(user) == [error |-> "none", user |-> user]
Refused(error) == [error |-> error, user |-> NoUser]
-----------------------------------------------------------------------------
(***************************************************************************)
(* The tokens of the service itself.                                       *)
(***************************************************************************)
GenerateTokens(user) == <<Token("HS256", "refresh", user, TRUE, "none"),
                          Token("HS256", "access", user, TRUE, "none")>>

DetectIceToken(t) == t.alg = "HS256" /\ t.iss \in {"access", "refresh"}

VerifyTokenFields(t) ==
    t.alg = "HS256" /\ t.iss \in {"access", "refresh", "metadata"} /\ t.valid

IceVerifyToken(t) ==
    IF ~VerifyTokenFields(t) THEN Refused("invalid")
    ELSE IF t.iss # "access" THEN Refused("wrongType")
    ELSE Accepted(t.user)

(***************************************************************************)
(* Firebase's. "reached": its keys could be had in time.                   *)
(***************************************************************************)
FirebaseVerifyToken(t, reached) ==
    IF ~(t.alg = "RS256" /\ t.valid /\ reached) THEN Refused("invalid")
    ELSE IF t.signIn = "password" /\ ~AllowEmailPassword THEN Refused("forbidden")
    ELSE Accepted(t.user)

VerifyToken(t, reached) ==
    IF DetectIceToken(t) THEN IceVerifyToken(t)
    ELSE IF firebase THEN FirebaseVerifyToken(t, reached)
    ELSE Refused("invalid")

(***************************************************************************)
(* Metadata: a token of the service with the IDs of one user, made for     *)
(* "sub". An ID it does not have is NoUser.                                *)
(***************************************************************************)
GenerateMetadata(sub, iceId, firebaseId, registeredWith) ==
    [token |-> Token("HS256", "metadata", sub, TRUE, "none"), iceId |-> iceId,
     firebaseId |-> firebaseId, registeredWith |-> registeredWith]

NoMetadata == [token |-> Garbage, iceId |-> NoUser, firebaseId |-> NoUser,
               registeredWith |-> "absent"]

\* Mutant of OwnsMetadata: any metadata that the service has signed will do.
OwnsAnyMetadata(user, m) == user # NoUser

OwnsMetadata(user, m) ==
    user # NoUser => user \in {m.token.user, m.iceId, m.firebaseId}

FirstRegisteredUserID(m) ==
    CASE m.registeredWith = "firebase" -> m.firebaseId
      [] m.registeredWith = "ice" -> m.iceId
      [] OTHER -> NoUser

ModifyTokenWithMetadata(user, m) ==
    IF m = NoMetadata THEN Accepted(user)
    ELSE IF ~VerifyTokenFields(m.token) THEN Refused("invalid")
    ELSE IF m.token.iss # "metadata" \/ ~OwnsMetadata(user, m) THEN Refused("wrongType")
    ELSE IF FirstRegisteredUserID(m) # NoUser THEN Accepted(FirstRegisteredUserID(m))
    ELSE Accepted(user)
=============================================================================
