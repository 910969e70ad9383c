--------------------------- MODULE MCNodeStorage ---------------------------
(***************************************************************************)
(* Command lines of one node.                                              *)
(***************************************************************************)
EXTENDS NodeStorage, TLC

Dev(family, unit, part) == [family |-> family, unit |-> unit, part |-> part]

sda == Dev("sd", "a", 0)
sda2 == Dev("sd", "a", 2)
sdb1 == Dev("sd", "b", 1)
nvme == Dev("nvme", 1, 0)
nvme2 == Dev("nvme", 1, 2)
md == Dev("md", 0, 0)
md1 == Dev("md", 0, 1)
nbd == Dev("nbd", 0, 0)
nbd1 == Dev("nbd", 0, 1)

LocalDevices == {sda, sdb1}

Ask == [portal |-> "appliance", port |-> 4420, nqn |-> "image", nsid |-> 1]

Claimed ==
  {[address |-> "near", port |-> 4421, target |-> "clone", nsid |-> n,
    volume |-> "v"] : n \in {None, 7}}

Entry(name, mnt) == [name |-> name, colon |-> mnt # None,
                     mnt |-> IF mnt = None THEN "" ELSE mnt]

\* Two writables, of which one has no place of its own, and a mount.
Layout == <<Token("rd.stormblock.writable", <<Entry("etcd", "/etcd"), Entry("", None),
                                              Entry("spare", None), Entry("log", "/log")>>),
            Token("rd.stormblock.mount", <<Entry("pods", "/pods"), Entry("lost", "")>>)>>

\* The same node after an edit of the layout.
Relaid == <<Token("rd.stormblock.writable", <<Entry("log", "/log"), Entry("etcd", "/etcd")>>)>>

Store == <<Token("rd.stormblock.image-store", "images")>>
Tmpfs == <<Token("rd.stormblock.overlay", "tmpfs")>>
Data(dev) == <<Token("rd.stormblock.data-slab", dev)>>

Config(claim, golden, portal, disk, extra) ==
  [claim |-> claim, registry |-> TRUE, golden |-> golden, portal |-> portal,
   portal_port |-> 4420, local_disk |-> disk, extra_cmdline |-> extra]

Servers ==
  {Config(TRUE, TRUE, None, None, <<>>),
   Config(TRUE, FALSE, "far", None, <<>>),
   Config(FALSE, FALSE, "far", None, <<>>),
   Config(FALSE, FALSE, None, None, <<>>),
   Config(TRUE, TRUE, "far", sda, Data(sda2)),
   Config(TRUE, TRUE, "far", sda, Data(sdb1) \o Tmpfs),
   Config(TRUE, TRUE, "far", nvme, Data(nvme2)),
   Config(TRUE, TRUE, "far", md, Data(md1)),
   Config(TRUE, TRUE, "far", nbd1, Data(nbd)),
   Config(TRUE, TRUE, None, None, Layout \o Store \o Tmpfs),
   Config(TRUE, TRUE, None, None, Relaid \o Tmpfs)}

Host(portal, extra) ==
  [name |-> "node7", role |-> None, portal |-> portal, extra_cmdline |-> extra]

Hosts ==
  {None,
   Host(None, <<>>),
   Host("near", <<Token("storm.hostname", "other"), Token("storm.hostname", Empty)>>),
   Host("near", <<Token("rd.stormblock.nqn", "fixed"), Token("rd.stormblock.port", 70000)>>)}

Media ==
  {\* the appliance, with the disk the node installs itself on
   <<Token("rd.stormblock.boothost", "app"), Token("rd.stormblock.tag", "t"),
     Token("rd.stormblock.slab", <<sda>>), Token("rd.stormblock.local-disk", sda)>>
     \o Data(sdb1),
   \* an appliance and no identity
   <<Token("rd.stormblock.boothost", "app")>> \o Store,
   \* local slabs only, named in two tokens
   <<Token("rd.stormblock.slab", <<sda>>), Token("rd.stormblock.slab", <<sdb1>>)>>
     \o Data(sdb1) \o Layout}

\* One server, and a record whose layout is edited between two boots: the
\* claim stays.
OneServer == {Config(TRUE, TRUE, None, None, <<>>)}
OneClaim == {c \in Claimed : c.nsid = None}
EditedHost == {Host(None, Layout), Host(None, Relaid)}
NoMedia == {}
=============================================================================
