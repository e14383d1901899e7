------------------------------- MODULE Access -------------------------------
(***************************************************************************)
(* What a token allows (internal/auth/jwt.go, interceptor.go): station     *)
(* slugs, directories under audio_root, writing; and the one reading of    *)
(* paths that queueing, browsing and the file access share (SafeRelPath,   *)
(* internal/audiosource/resolve.go).                                       *)
(*                                                                         *)
(* A token is a record: valid (Verify accepts it), slugs (what its         *)
(* patterns match), dirs and readOnly.  A path is a sequence of names; in  *)
(* an entry of dirs, Star is a segment that path/filepath's Match takes    *)
(* for any one name (patterns like "a*" are left out).                     *)
(***************************************************************************)
EXTENDS Integers, Sequences

Ext == INSTANCE SequencesExt

Star == "*"
Up   == ".."

HasSlug(claims, slug) == slug \in claims.slugs

ProperPrefix(p, q) == Len(p) < Len(q) /\ Ext!IsPrefix(p, q)

(* filepath.Match: no segment stands for more than one.                    *)
Matches(pattern, path) ==
    /\ Len(pattern) = Len(path)
    /\ \A k \in DOMAIN path : pattern[k] \in {Star, path[k]}

HasDir(claims, dir) ==
    \/ claims.dirs = {}
    \/ \E d \in claims.dirs :
          d = <<Star>> \/ d = dir \/ ProperPrefix(d, dir) \/ Matches(d, dir)

IsAncestorOfAllowedDir(claims, dir) ==
    IF dir = <<>> THEN claims.dirs # {}
    ELSE \E d \in claims.dirs : ProperPrefix(dir, d)

CanBrowse(claims, dir) == HasDir(claims, dir) \/ IsAncestorOfAllowedDir(claims, dir)

(* The interceptor lets only a verified token through to the handlers.     *)
Authenticated(claims) == claims.valid

RequireSlug(claims, slug) == Authenticated(claims) /\ HasSlug(claims, slug)

RequireWrite(claims) == Authenticated(claims) /\ ~claims.readOnly

(* filepath.Clean: a ".." takes back a name, goes nowhere at the root of   *)
(* an absolute path, and stays at the beginning of a relative one.         *)
Cleaned(location) ==
    LET Walk(path, name) ==
          IF name # Up THEN Append(path, name)
          ELSE IF path # <<>> /\ Ext!Last(path) # Up THEN Ext!Front(path)
          ELSE IF location.absolute THEN path
          ELSE Append(path, Up)
    IN  Ext!FoldLeft(Walk, <<>>, location.path)

(* Joined to audio_root a path that still begins with ".." leads out of    *)
(* it (or back into it by its own name, which is left out); any other,     *)
(* absolute or not, is below it.                                           *)
Escapes(location) == Cleaned(location) # <<>> /\ Head(Cleaned(location)) = Up

SafeRelPath(location) == Cleaned(location)
=============================================================================
