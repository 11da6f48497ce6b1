--------------------------- MODULE Notification ---------------------------
(***************************************************************************)
(* What dunst knows of one notification (src/src/notification.c/.h) and    *)
(* the questions the queues ask of it: the order of two notifications,     *)
(* whether it may be shown, whether it is finished.                        *)
(*                                                                         *)
(* The content a client sends is a member of Kinds, a small set of         *)
(* records; everything that only formats or draws a notification (markup,  *)
(* icons, colours, scripts, progress, the duplicate counter) is left out.  *)
(***************************************************************************)
EXTENDS Integers

CONSTANTS
  Kinds,          \* what clients may send (see KindType)
  Sort,           \* settings.sort
  OriginBottom,   \* settings.origin has the bottom anchor
  MaxId,          \* bound: ids handed out or asked for are at most MaxId
  Stamps,         \* bound: the creation times (notification.timestamp)
  Tags, Contents  \* stack tags with their application; texts with theirs

NoTag == "no tag"

SortTypes == {"id", "urgency_ascending", "urgency_descending", "update"}

(* "tag" stands for the pair (appname, stack_tag), "content" for appname,  *)
(* summary, body and icon name; "timed" is timeout # 0.  The actions are   *)
(* none, one that a plain click invokes, or several to choose from.        *)
KindType ==
  [ tag : Tags \cup {NoTag}, content : Contents, urgency : 0..2,
    timed : BOOLEAN, transient : BOOLEAN, history_ignore : BOOLEAN,
    skip_display : BOOLEAN, empty : BOOLEAN,
    fullscreen : {"delay", "pushback", "show", "suppress"},
    override_pause_level : Nat,
    actions : {"none", "default", "several"}, urls : 0..2 ]

ASSUME NotificationAssumption ==
  /\ Kinds \subseteq KindType
  /\ Sort \in SortTypes
  /\ OriginBottom \in BOOLEAN
  /\ MaxId \in Nat \ {0}
  /\ Stamps \subseteq Nat /\ Stamps # {}

(* enum reason (src/src/dbus.h) *)
TIME  == 1
USER  == 2
SIG   == 3
UNDEF == 4
Reasons == {TIME, USER, SIG, UNDEF}
NotMarked == 0

(***************************************************************************)
(* A notification in memory.  refs is priv->refcount (what is freed is not *)
(* a Note), valid is dbus_valid, timed is timeout # 0 (popping from history*)
(* may clear it), due abstracts the clock: time - start > timeout.         *)
(***************************************************************************)
Note ==
  [ kind : Kinds, id : 0..MaxId, stamp : Stamps, refs : Nat \ {0},
    valid : BOOLEAN, redisplayed : BOOLEAN, timed : BOOLEAN, due : BOOLEAN,
    locked : BOOLEAN, closing : {NotMarked} \cup Reasons,
    removing : {NotMarked} \cup Reasons ]

(* notification_create with the fields dbus_message_to_notification fills *)
NewNote(kind, id, stamp) ==
  [ kind |-> kind, id |-> id, stamp |-> stamp, refs |-> 1,
    valid |-> TRUE, redisplayed |-> FALSE, timed |-> kind.timed,
    due |-> FALSE, locked |-> FALSE,
    closing |-> NotMarked, removing |-> NotMarked ]

---------------------------------------------------------------------------
(***************************************************************************)
(* notification_cmp: negative when a goes before b.  With sort = update it *)
(* returns the difference of two 64-bit microsecond times as an int.  The  *)
(* unit of Stamps is 2^29 microseconds (about 9 minutes), so that an int   *)
(* holds WordUnits of them.                                                *)
(***************************************************************************)
WordUnits == 8

AsInt(d) == ((d + WordUnits \div 2) % WordUnits) - WordUnits \div 2

Cmp(a, b) ==
  LET flipped == Sort = "update" /\ OriginBottom
      x == IF flipped THEN b ELSE a
      y == IF flipped THEN a ELSE b
      dUrgency == x.kind.urgency - y.kind.urgency
  IN CASE Sort = "urgency_ascending"  /\ dUrgency # 0 -> dUrgency
       [] Sort = "urgency_descending" /\ dUrgency # 0 -> -dUrgency
       [] Sort = "update" -> AsInt(y.stamp - x.stamp)
       [] OTHER -> x.id - y.id

(* notification_is_duplicate, icons aside *)
IsDuplicate(a, b) ==
  /\ a.kind.content = b.kind.content
  /\ a.kind.urgency = b.kind.urgency

(* the condition of queues_stack_by_tag *)
SameTag(a, b) == a.kind.tag # NoTag /\ a.kind.tag = b.kind.tag

---------------------------------------------------------------------------
(* struct dunst_status *)
Status ==
  [ fullscreen : BOOLEAN, idle : BOOLEAN, mouse_over : BOOLEAN,
    pause_level : Nat ]

Suppressed(n, st) == st.fullscreen /\ n.kind.fullscreen = "suppress"

(* queues_notification_is_ready *)
IsReady(n, st, shown) ==
  /\ st.pause_level <= n.kind.override_pause_level
  /\ st.fullscreen =>
        IF shown THEN n.kind.fullscreen # "pushback"
                 ELSE n.kind.fullscreen = "show"

SkipsDisplay(n) == n.kind.skip_display /\ ~n.redisplayed

(* idle or hovered: the timeout starts again instead of running out *)
TimeoutHeld(n, st) ==
  /\ n.timed /\ ~n.kind.transient
  /\ st.mouse_over \/ (st.idle /\ ~st.fullscreen)

(* queues_notification_is_finished; its write to n->start is TimeoutHeld *)
IsFinished(n, st) ==
  SkipsDisplay(n) \/ (n.timed /\ ~TimeoutHeld(n, st) /\ n.due)
===========================================================================
