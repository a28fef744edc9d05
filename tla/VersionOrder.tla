----------------------------- MODULE VersionOrder -----------------------------
(***************************************************************************)
(* is_newer_version() against the versions cpp-release.yml gives to        *)
(* releases: <major>.<yyyymmdd>.<patch>, the patch counting the releases   *)
(* of a day.  An SDK is built from some release and asks about later ones. *)
(***************************************************************************)
EXTENDS Integers, SequencesExt

CONSTANTS
  FirstDay,  \* the date of the first release, as the number yyyymmdd
  MaxDay,    \* bound on the dates
  MaxPatch   \* bound on the releases of a day

\* The eight digits of +%Y%m%d; no number has more.
EightDigits ==
  /\ {FirstDay, MaxDay, MaxPatch} \subseteq Nat
  /\ 10000000 <= FirstDay /\ FirstDay <= MaxDay /\ MaxDay <= 99999999
  /\ MaxPatch <= 99999999

ASSUME VersionOrderAssumption == EightDigits

VARIABLES
  released,  \* the version of the latest release
  installed  \* the version an SDK was built from: its VERSION

vars == <<released, installed>>

Version == [major : {1}, date : FirstDay .. MaxDay, patch : 0 .. MaxPatch]

TypeOK == released \in Version /\ installed \in Version

Init == /\ released = [major |-> 1, date |-> FirstDay, patch |-> 0]
        /\ installed = released

\* "Compute next version" of the release workflow.
SameDayRelease ==
  /\ released.patch < MaxPatch
  /\ released' = [released EXCEPT !.patch = @ + 1]
  /\ UNCHANGED installed

NextDayRelease ==
  /\ \E day \in (released.date + 1) .. MaxDay :
       released' = [released EXCEPT !.date = day, !.patch = 0]
  /\ UNCHANGED installed

Install ==
  /\ installed # released
  /\ installed' = released
  /\ UNCHANGED released

Next == SameDayRelease \/ NextDayRelease \/ Install

Spec == Init /\ [][Next]_vars
-----------------------------------------------------------------------------
(* The version as text.  A character is its code less that of '0'.         *)

DOT == -2

Place == <<10000000, 1000000, 100000, 10000, 1000, 100, 10, 1>>

\* The eight decimal digits of n, with leading zeros, and the digits without.
Padded(n) == [i \in 1 .. 8 |-> (n \div Place[i]) % 10]

Digits(n) ==
  LET first == IF n = 0 THEN 8 ELSE SelectInSeq(Padded(n), LAMBDA d : d # 0)
  IN  SubSeq(Padded(n), first, 8)

VersionText(v) ==
  Digits(v.major) \o <<DOT>> \o Digits(v.date) \o <<DOT>> \o Digits(v.patch)

\* operator> of std::string: a proper prefix is less.
TextGreater(a, b) ==
  \/ IsStrictPrefix(b, a)
  \/ \E i \in 1 .. Len(a) : /\ i <= Len(b)
                            /\ \A j \in 1 .. (i - 1) : a[j] = b[j]
                            /\ a[i] > b[i]

\* Mutant of IsNewerVersion: the versions change places.
IsOlderVersion(latest, current) == TextGreater(VersionText(current), VersionText(latest))

IsNewerVersion(latest, current) == TextGreater(VersionText(latest), VersionText(current))
-----------------------------------------------------------------------------
(* Properties.                                                             *)

\* Text order is release order, across days always and within a day up to its
\* tenth release: there an SDK is told of every later release and of no other.
OrderedUpToTen ==
  released.date # installed.date \/ released.patch < 10 =>
    (IsNewerVersion(released, installed) <=> released # installed)

\* cpp-release.yml:83 numbers the releases of a day upwards, "nextpatch=$((cpatch
\* + 1))": a release after the installed one is newer.
EveryReleaseIsNewer == released # installed => IsNewerVersion(released, installed)
=============================================================================
