----------------------------- MODULE MCAccounts -----------------------------
(* Two usernames, two ids, one token and two requests: two registrations of  *)
(* one name that wait for argon2 together, two administrators who delete     *)
(* each other, and an account that is created again.                         *)
EXTENDS Accounts
=============================================================================
