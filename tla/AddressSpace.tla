---------------------------- MODULE AddressSpace ----------------------------
(***************************************************************************)
(* What the memory manager promises: a table with one descriptor per page, *)
(* over a host memory, under byte patches.  There are no regions, no       *)
(* blocks, no splits and no cache here: a page is unmapped, or it has      *)
(* permissions, the user attribute and either bytes of its own or a page   *)
(* of the host behind it.  MemoryManager is checked to implement it.       *)
(***************************************************************************)
EXTENDS Integers, Sequences, FiniteSets

CONSTANTS NPages, PageSize, Byte

VARIABLES
  table,     \* page -> NoPage or its descriptor
  host,      \* bytes of the host's memory
  overlay,   \* the patches: address and bytes of each
  pass       \* rights the host lends to unmapped pages

asVars == <<table, host, overlay, pass>>

Rights   == {"R", "W", "X"}
PageSet  == 0..NPages-1
AddrSet  == 0..NPages*PageSize-1
NoPage   == <<"none">>
OwnBytes(f) == <<"own", f>>
HostPage(h) == <<"host", h>>
Described(perms, user, backing) == <<"page", perms, user, backing>>

ZeroPage == [k \in 0..PageSize-1 |-> 0]

ASInit ==
  /\ table = [p \in PageSet |-> NoPage]
  /\ host = [a \in AddrSet |-> 0]
  /\ overlay = {}
  /\ pass = {}

\* How a range of descriptors may change in one step, from t to u: unmapped
\* pages get the same permissions and zeroed bytes of their own, or
\* consecutive host pages; mapped pages are dropped, or change in one respect
\* and keep everything else, their bytes first of all.
MappedOwn(t, u, R)  == \E perms \in SUBSET Rights : \A p \in R :
  t[p] = NoPage /\ u[p] = Described(perms, TRUE, OwnBytes(ZeroPage))
MappedHost(t, u, R) == \E perms \in SUBSET Rights, d \in -NPages..NPages : \A p \in R :
  t[p] = NoPage /\ u[p] = Described(perms, TRUE, HostPage(p + d))
Dropped(t, u, R)    == \A p \in R : t[p] # NoPage /\ u[p] = NoPage
Protected(t, u, R)  == \E perms \in SUBSET Rights : \A p \in R :
  t[p] # NoPage /\ u[p] = Described(perms, t[p][3], t[p][4])
Attributed(t, u, R) == \E user \in BOOLEAN : \A p \in R :
  t[p] # NoPage /\ u[p] = Described(t[p][2], user, t[p][4])

RangeChange ==
  /\ UNCHANGED <<host, overlay, pass>>
  /\ LET t == table
         u == table'
         changed == {p \in PageSet : t[p] # u[p]}
     IN  \E lo, hi \in changed :
           /\ changed \subseteq lo..hi
           /\ \/ MappedOwn(t, u, lo..hi)
              \/ MappedHost(t, u, lo..hi)
              \/ Dropped(t, u, lo..hi)
              \/ Protected(t, u, lo..hi)
              \/ Attributed(t, u, lo..hi)

Lend(perms) ==
  perms \subseteq Rights /\ pass' = perms /\ UNCHANGED <<table, host, overlay>>

Holds(o, a) == a - o[1] \in DOMAIN o[2]

\* A new patch meets no other one; a deleted one gives the address back.
Cover(a, bytes) ==
  /\ \A o \in overlay, k \in DOMAIN bytes : ~Holds(o, a + k)
  /\ overlay' = overlay \cup {<<a, bytes>>}
  /\ UNCHANGED <<table, host, pass>>

Uncover(o) == overlay' = overlay \ {o} /\ UNCHANGED <<table, host, pass>>

\* A store changes one byte of one place: the patch over the address while
\* the host is lent, else the page's own bytes, else the host's byte.
Store(a, v) ==
  LET p == a \div PageSize
      k == a % PageSize
      own == table[p] # NoPage /\ table[p][4][1] = "own"
  IN
  /\ IF table[p] = NoPage THEN "W" \in pass ELSE "W" \in table[p][2]
  /\ IF pass # {} /\ \E o \in overlay : Holds(o, a)
     THEN LET o == CHOOSE c \in overlay : Holds(c, a)
          IN  /\ overlay' = (overlay \ {o})
                            \cup {<<o[1], [o[2] EXCEPT ![a - o[1]] = v]>>}
              /\ UNCHANGED <<table, host>>
     ELSE IF own
     THEN /\ table' = [table EXCEPT ![p][4][2][k] = v]
          /\ UNCHANGED <<host, overlay>>
     ELSE /\ host' = [host EXCEPT ![IF table[p] = NoPage THEN a
                                    ELSE table[p][4][2] * PageSize + k] = v]
          /\ UNCHANGED <<table, overlay>>
  /\ UNCHANGED pass

\* The manager is torn down; the host keeps its bytes.
Forget ==
  /\ table' = [p \in PageSet |-> NoPage]
  /\ overlay' = {} /\ pass' = {}
  /\ UNCHANGED host

ASNext ==
  \/ RangeChange
  \/ Lend(pass')
  \/ \E o \in overlay' \ overlay : Cover(o[1], o[2])
  \/ \E o \in overlay : Uncover(o)
  \/ \E a \in AddrSet, v \in Byte : Store(a, v)
  \/ Forget

ASSpec == ASInit /\ [][ASNext]_asVars
=============================================================================
