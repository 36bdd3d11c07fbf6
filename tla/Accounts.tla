------------------------------- MODULE Accounts -------------------------------
(***************************************************************************)
(* One user row under UsersService: password login with its lockout,       *)
(* setting and changing the password, and the admin's unlock.  Every one   *)
(* reads the row, awaits (a bcrypt comparison, the password history, the   *)
(* check of the admin's role) and then updates the row by id, whatever it  *)
(* has become.  The updates of one password change are one transaction,    *)
(* which begins with the row and so excludes another one.                  *)
(***************************************************************************)
EXTENDS Naturals, Sequences, SequencesExt

CONSTANTS
  Attempts,         \* requests of all kinds
  Passwords,
  MaxAttempts,      \* LOGIN_MAX_ATTEMPTS
  Lockout,          \* LOGIN_LOCKOUT_SECONDS
  HistoryLimit,     \* PASSWORD_HISTORY_LIMIT
  MaxClock          \* bound on time

ASSUME AccountsAssumption ==
  /\ MaxAttempts \in Nat \ {0} /\ Lockout \in Nat \ {0}
  /\ HistoryLimit \in Nat \ {0} /\ MaxClock \in Nat

VARIABLES
  loginAttempts, lockedUntil,
  passwordHash,     \* a set: empty, or the one password
  passwordHistory,  \* newest first
  time,
  at,               \* where each request is
  read,             \* loginAttempts as each login has read it
  wanted,           \* the new password of each change, a set of at most one
  wrong,            \* history: wrong passwords answered for
  streak,           \* history: those since the last success or unlock
  mixed,            \* history: a login or an unlock read the row while another was under way
  crossed           \* history: the same of two password changes

userRow == <<loginAttempts, lockedUntil, passwordHash, passwordHistory>>
accountsVars == <<userRow, time, at, read, wanted, wrong, streak, mixed, crossed>>

AccountsInit ==
  /\ loginAttempts = 0 /\ lockedUntil = 0
  /\ passwordHash = {} /\ passwordHistory = << >>
  /\ time = 0
  /\ at = [c \in Attempts |-> "idle"]
  /\ read = [c \in Attempts |-> 0]
  /\ wanted = [c \in Attempts |-> {}]
  /\ wrong = 0 /\ streak = 0 /\ mixed = FALSE /\ crossed = FALSE

Locked == lockedUntil > time

Writing  == \E c \in Attempts : at[c] \in {"fail", "succeed", "unlock"}
Changing == \E c \in Attempts : at[c] \in {"history", "commit"}

-----------------------------------------------------------------------------
\* login: the row as it is read decides what is written after the comparison.
\* A locked account takes no writes, and answers the same to a wrong password.
ReadForLogin(c, right) ==
  /\ at[c] = "idle" /\ passwordHash # {}
  /\ at' = [at EXCEPT ![c] = IF Locked THEN "done" ELSE IF right THEN "succeed" ELSE "fail"]
  /\ read' = [read EXCEPT ![c] = loginAttempts]
  /\ mixed' = (mixed \/ (Writing /\ ~Locked))
  /\ UNCHANGED <<userRow, time, wanted, wrong, streak, crossed>>

\* Mutant: the threshold is passed before the account is locked.
FailLoginLate(c) ==
  /\ at[c] = "fail"
  /\ loginAttempts' = read[c] + 1
  /\ lockedUntil' = IF read[c] + 1 > MaxAttempts THEN time + Lockout ELSE 0
  /\ wrong' = wrong + 1 /\ streak' = streak + 1
  /\ at' = [at EXCEPT ![c] = "done"]
  /\ UNCHANGED <<passwordHash, passwordHistory, time, read, wanted, mixed, crossed>>

\* Both columns are overwritten: a lock set in the meantime is lifted.
FailLogin(c) ==
  /\ at[c] = "fail"
  /\ loginAttempts' = read[c] + 1
  /\ lockedUntil' = IF read[c] + 1 >= MaxAttempts THEN time + Lockout ELSE 0
  /\ wrong' = wrong + 1 /\ streak' = streak + 1
  /\ at' = [at EXCEPT ![c] = "done"]
  /\ UNCHANGED <<passwordHash, passwordHistory, time, read, wanted, mixed, crossed>>

Reset(c) ==
  /\ loginAttempts' = 0 /\ lockedUntil' = 0 /\ streak' = 0
  /\ at' = [at EXCEPT ![c] = "done"]
  /\ UNCHANGED <<passwordHash, passwordHistory, time, read, wanted, wrong, mixed, crossed>>

SucceedLogin(c) == at[c] = "succeed" /\ Reset(c)

\* unlockUser does nothing to an account without failures.
ReadForUnlock(c) ==
  /\ at[c] = "idle"
  /\ at' = [at EXCEPT ![c] = IF loginAttempts = 0 /\ lockedUntil = 0 THEN "done" ELSE "unlock"]
  /\ mixed' = (mixed \/ Writing)
  /\ UNCHANGED <<userRow, time, read, wanted, wrong, streak, crossed>>

Unlock(c) == at[c] = "unlock" /\ Reset(c)

-----------------------------------------------------------------------------
\* setupPassword refuses an account that has a password, changePassword one
\* that has none and a current password that is wrong.
ReadForSetup(c, new) ==
  /\ at[c] = "idle" /\ passwordHash = {}
  /\ at' = [at EXCEPT ![c] = "history"]
  /\ wanted' = [wanted EXCEPT ![c] = {new}]
  /\ crossed' = (crossed \/ Changing)
  /\ UNCHANGED <<userRow, time, read, wrong, streak, mixed>>

ReadForChange(c, new) ==
  /\ at[c] = "idle" /\ passwordHash # {}
  /\ at' = [at EXCEPT ![c] = "history"]
  /\ wanted' = [wanted EXCEPT ![c] = {new}]
  /\ crossed' = (crossed \/ Changing)
  /\ UNCHANGED <<userRow, time, read, wrong, streak, mixed>>

AssertPasswordNotReused(c) ==
  /\ at[c] = "history"
  /\ at' = [at EXCEPT ![c] =
              IF \E i \in DOMAIN passwordHistory : passwordHistory[i] \in wanted[c]
              THEN "done" ELSE "commit"]
  /\ UNCHANGED <<userRow, time, read, wanted, wrong, streak, mixed, crossed>>

\* Mutant: the oldest entries are kept.
PruneNewest(h) == Reverse(SubSeq(Reverse(h), 1, IF Len(h) < HistoryLimit THEN Len(h)
                                                ELSE HistoryLimit))

\* Mutant: one entry too many is kept.
PruneLate(h) == SubSeq(h, 1, IF Len(h) <= HistoryLimit THEN Len(h) ELSE HistoryLimit + 1)

\* prunePasswordHistory keeps the newest.
Prune(h) == SubSeq(h, 1, IF Len(h) < HistoryLimit THEN Len(h) ELSE HistoryLimit)

CommitPassword(c) ==
  /\ at[c] = "commit"
  /\ passwordHash' = wanted[c]
  /\ \E new \in wanted[c] : passwordHistory' = Prune(<<new>> \o passwordHistory)
  /\ at' = [at EXCEPT ![c] = "done"]
  /\ UNCHANGED <<loginAttempts, lockedUntil, time, read, wanted, wrong, streak, mixed, crossed>>

PassTime ==
  /\ time < MaxClock
  /\ time' = time + 1
  /\ UNCHANGED <<userRow, at, read, wanted, wrong, streak, mixed, crossed>>

AccountsNext ==
  \/ PassTime
  \/ \E c \in Attempts :
       \/ \E right \in BOOLEAN : ReadForLogin(c, right)
       \/ FailLogin(c) \/ SucceedLogin(c)
       \/ ReadForUnlock(c) \/ Unlock(c)
       \/ \E new \in Passwords : ReadForSetup(c, new) \/ ReadForChange(c, new)
       \/ AssertPasswordNotReused(c) \/ CommitPassword(c)

AccountsSpec == AccountsInit /\ [][AccountsNext]_accountsVars

AccountsTypeOK ==
  /\ loginAttempts \in Nat /\ lockedUntil \in 0 .. MaxClock + Lockout
  /\ passwordHash \subseteq Passwords
  /\ Len(passwordHistory) <= HistoryLimit

\* The account is locked after MaxAttempts wrong passwords in a row, not
\* earlier and not later, as long as no two requests were between reading and
\* writing the row; the count never exceeds the wrong passwords there were.
\* (Overlapping ones write one count over another, or lift the lock.)
LockoutCounts ==
  /\ loginAttempts <= wrong
  /\ ~mixed => /\ loginAttempts = streak
               /\ lockedUntil # 0 <=> streak >= MaxAttempts

\* The current password is the newest of the history and is none of the others
\* kept there, unless two changes overlapped.
PasswordNotReused ==
  /\ passwordHash = {passwordHistory[i] : i \in DOMAIN passwordHistory \cap {1}}
  /\ ~crossed => IsInjective(passwordHistory)

=============================================================================
